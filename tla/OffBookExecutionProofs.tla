----------------------- MODULE OffBookExecutionProofs -----------------------
(***************************************************************************)
(* Proofs about OffBookExecution, for any trades, and about its composition   *)
(* with the publication of the reports, for any workers.                     *)
(***************************************************************************)
EXTENDS BlockTradeReporting, TLAPS

USE DEF Go, Moves, End, Fails, services

\* What the calls on the aggregate return.
LEMMA BlockTradeFacts ==
  /\ NewTrade \in BlockTrades /\ NewTrade.state = "Submitted"
  /\ \A b \in BlockTrades :
       /\ b.state \in BlockTradeStates
       /\ \A s \in BlockTradeStates :
            /\ MoveTo(b, s) \in BlockTrades
            /\ MoveTo(b, s).state = s
            /\ MoveTo(b, s).validation = b.validation /\ MoveTo(b, s).confirmed = b.confirmed
       /\ \A result \in {"passed", "failed"} :
            /\ RecordValidation(b, result) \in BlockTrades
            /\ RecordValidation(b, result).state \in {b.state, "Rejected"}
       /\ \A role \in Roles :
            /\ Confirm(b, role) \in BlockTrades
            /\ Confirm(b, role).validation = b.validation
            /\ \/ Confirm(b, role).state = b.state
               \/ Confirm(b, role).state = "Approved" /\ Confirm(b, role).confirmed = Roles
<1>1. NewTrade \in BlockTrades /\ NewTrade.state = "Submitted"
  BY DEF NewTrade, BlockTrades, BlockTradeStates, Roles
<1>2. ASSUME NEW b \in BlockTrades, NEW s \in BlockTradeStates
      PROVE  /\ MoveTo(b, s) \in BlockTrades
             /\ MoveTo(b, s).state = s
             /\ MoveTo(b, s).validation = b.validation /\ MoveTo(b, s).confirmed = b.confirmed
  BY DEF BlockTrades, MoveTo
<1>3. ASSUME NEW b \in BlockTrades, NEW result \in {"passed", "failed"}
      PROVE  /\ RecordValidation(b, result) \in BlockTrades
             /\ RecordValidation(b, result).state \in {b.state, "Rejected"}
  <2>1. CASE result = "failed"
    BY <2>1 DEF BlockTrades, BlockTradeStates, RecordValidation
  <2>2. CASE result = "passed"
    BY <2>2 DEF BlockTrades, BlockTradeStates, RecordValidation
  <2>3. QED
    BY <2>1, <2>2
<1>4. ASSUME NEW b \in BlockTrades, NEW role \in Roles
      PROVE  /\ Confirm(b, role) \in BlockTrades
             /\ Confirm(b, role).validation = b.validation
             /\ \/ Confirm(b, role).state = b.state
                \/ Confirm(b, role).state = "Approved" /\ Confirm(b, role).confirmed = Roles
  <2>1. b.confirmed \cup {role} \in SUBSET Roles
    BY DEF BlockTrades
  <2>2. CASE b.confirmed \cup {role} = Roles
    BY <2>1, <2>2 DEF BlockTrades, BlockTradeStates, Confirm
  <2>3. CASE b.confirmed \cup {role} # Roles
    BY <2>1, <2>3 DEF BlockTrades, BlockTradeStates, Confirm
  <2>4. QED
    BY <2>2, <2>3
<1>5. \A b \in BlockTrades : b.state \in BlockTradeStates
  BY DEF BlockTrades
<1>6. QED
  BY <1>1, <1>2, <1>3, <1>4, <1>5

IInv == /\ TypeOK
        /\ StepsInOrder
        /\ ExecutedIsComplete
        /\ PositionsFollowChain
        /\ ReturnFreesCollateral

\* What IInv says of one trade.
Sound(t) == /\ InStep(t)
            /\ trade[t].state = "Executed" => settled[t] = 1 /\ positions[t] = 1 /\ t \in reported
            /\ positions[t] <= settled[t]
            /\ outcome[t] = "ok" \/ (outcome[t] = "err" /\ failure[t] # "ReportScheduling") =>
                 collateral[t] # "locked" \/ t \in stuck

LEMMA IInvIsSound == IInv <=> TypeOK /\ \A t \in Trades : Sound(t)
BY DEF IInv, Sound, StepsInOrder, ExecutedIsComplete, PositionsFollowChain, ReturnFreesCollateral

\* A step of one trade leaves the others alone.
LEMMA Others ==
  ASSUME TypeOK, NEW t \in Trades, Calls(t) \/ Executor(t), NEW u \in Trades, u # t, Sound(u)
  PROVE  Sound(u)'
<1>1. /\ trade'[u] = trade[u] /\ pc'[u] = pc[u] /\ collateral'[u] = collateral[u]
      /\ settled'[u] = settled[u] /\ positions'[u] = positions[u]
      /\ (u \in reported') = (u \in reported) /\ (u \in stuck') = (u \in stuck)
      /\ failure'[u] = failure[u] /\ outcome'[u] = outcome[u]
  <2> USE DEF TypeOK
  <2>1. CASE Calls(t)
    BY <2>1 DEF Calls, StartValidation, Reject, Validate, PartyConfirms, Update
  <2>2. CASE Execute(t) \/ CollateralLocked(t) \/ CollateralRefused(t) \/ PriceInBounds(t)
             \/ PriceRefused(t)
    BY <2>2 DEF Execute, CollateralLocked, CollateralRefused, PriceInBounds, PriceRefused,
                Locks, LocksErring
  <2>3. CASE Settles(t) \/ SettlementErr(t) \/ PositionsUpdated(t) \/ PositionsErr(t)
    BY <2>3 DEF Settles, SettlementErr, PositionsUpdated, PositionsErr, OnChain, Moved
  <2>4. CASE ReportScheduled(t) \/ ReportRefused(t)
    BY <2>4 DEF ReportScheduled, ReportRefused, Reports
  <2>5. CASE Rollback(t) \/ Release(t)
    BY <2>5 DEF Rollback, Release, Freed, Frees
  <2>6. CASE Drop(t)
    BY <2>6 DEF Drop, Locks, OnChain, Moved, Reports, Frees
  <2>7. QED
    BY <2>1, <2>2, <2>3, <2>4, <2>5, <2>6 DEF Executor
<1>2. QED
  BY <1>1 DEF Sound, InStep, Agreed

\* TypeOK is kept by every step, whose counters are bounded by InStep.
LEMMA TypeStep ==
  ASSUME TypeOK, NEW t \in Trades, InStep(t), Calls(t) \/ Executor(t)
  PROVE  TypeOK'
<1> USE BlockTradeFacts DEF TypeOK, Awaits, FailSteps, BlockTradeStates
<1>1. CASE StartValidation(t) \/ Reject(t)
  BY <1>1 DEF StartValidation, Reject, Update
<1>2. CASE \E result \in {"passed", "failed"} : Validate(t, result)
  BY <1>2 DEF Validate, Update
<1>3. CASE \E role \in Roles : PartyConfirms(t, role)
  <2>1. PICK role \in Roles : PartyConfirms(t, role)
    BY <1>3
  <2>2. trade' \in [Trades -> BlockTrades]
    BY <2>1 DEF PartyConfirms, Update
  <2>3. QED
    BY <2>1, <2>2 DEF PartyConfirms, Update
<1>4. CASE Execute(t) \/ CollateralLocked(t) \/ CollateralRefused(t)
  BY <1>4 DEF Execute, CollateralLocked, CollateralRefused, Locks, LocksErring
<1>5. CASE PriceInBounds(t) \/ PriceRefused(t)
  BY <1>5 DEF PriceInBounds, PriceRefused
<1>6. CASE Settles(t) \/ SettlementErr(t)
  <2>1. settled[t] = 0
    BY <1>6 DEF InStep, Settles, SettlementErr
  <2>2. QED
    BY <1>6, <2>1 DEF Settles, SettlementErr, OnChain
<1>7. CASE PositionsUpdated(t) \/ PositionsErr(t)
  <2>1. positions[t] = 0
    BY <1>7 DEF InStep, PositionsUpdated, PositionsErr
  <2>2. QED
    BY <1>7, <2>1 DEF PositionsUpdated, PositionsErr, Moved
<1>8. CASE ReportScheduled(t) \/ ReportRefused(t)
  BY <1>8 DEF ReportScheduled, ReportRefused, Reports
<1>9. CASE Rollback(t) \/ Release(t)
  BY <1>9 DEF Rollback, Release, Freed, Frees
<1>10. CASE Drop(t)
  <2>1. /\ pc[t] = "settle" => settled[t] = 0
        /\ pc[t] = "positions" => positions[t] = 0
    BY DEF InStep
  <2>2. QED
    BY <1>10, <2>1 DEF Drop, Locks, OnChain, Moved, Reports, Frees
<1>11. QED
  BY <1>1, <1>2, <1>3, <1>4, <1>5, <1>6, <1>7, <1>8, <1>9, <1>10 DEF Calls, Executor

\* A call on the aggregate keeps a trade sound: only both confirmations of a
\* validated trade lead to Approved.
LEMMA CallsSound ==
  ASSUME TypeOK, NEW t \in Trades, Sound(t), Calls(t)
  PROVE  Sound(t)'
<1> USE BlockTradeFacts DEF TypeOK, Update, Sound, InStep, Agreed, Awaits, BlockTradeStates
<1>1. CASE StartValidation(t) \/ Reject(t)
  <2>1. /\ pc[t] = "idle" /\ trade[t].state \in {"Submitted", "Validating", "Approved"}
        /\ trade'[t].state \in {"Validating", "Rejected"}
    BY <1>1 DEF StartValidation, Reject, CanMoveTo, Transitions
  <2>2. QED
    BY <1>1, <2>1 DEF StartValidation, Reject
<1>2. CASE \E result \in {"passed", "failed"} : Validate(t, result)
  <2>1. pc[t] = "idle" /\ trade'[t].state \in {"Validating", "Rejected"}
    BY <1>2 DEF Validate, CanRecordValidation
  <2>2. QED
    BY <1>2, <2>1 DEF Validate
<1>3. CASE \E role \in Roles : PartyConfirms(t, role)
  <2>1. PICK role \in Roles : PartyConfirms(t, role)
    BY <1>3
  <2>2. pc[t] = "idle"
    BY <2>1 DEF PartyConfirms, CanConfirm
  <2>3. /\ trade'[t].validation = "passed"
        /\ trade'[t].state = "Validating" \/ (trade'[t].state = "Approved" /\ trade'[t].confirmed = Roles)
    BY <2>1 DEF PartyConfirms, CanConfirm
  <2>4. QED
    BY <2>1, <2>2, <2>3 DEF PartyConfirms
<1>4. QED
  BY <1>1, <1>2, <1>3 DEF Calls

\* A step of execute keeps it sound.
LEMMA ExecutorSound ==
  ASSUME TypeOK, NEW t \in Trades, Sound(t), Executor(t)
  PROVE  Sound(t)'
<1> USE BlockTradeFacts DEF TypeOK, Sound, InStep, Agreed, Awaits, FailSteps, BlockTradeStates
<1>1. CASE Execute(t)
  BY <1>1 DEF Execute
<1>2. CASE CollateralLocked(t) \/ CollateralRefused(t)
  BY <1>2 DEF CollateralLocked, CollateralRefused, Locks, LocksErring
<1>3. CASE PriceInBounds(t) \/ PriceRefused(t)
  BY <1>3 DEF PriceInBounds, PriceRefused
<1>4. CASE Settles(t) \/ SettlementErr(t)
  BY <1>4 DEF Settles, SettlementErr, OnChain
<1>5. CASE PositionsUpdated(t) \/ PositionsErr(t)
  BY <1>5 DEF PositionsUpdated, PositionsErr, Moved
<1>6. CASE ReportScheduled(t) \/ ReportRefused(t)
  BY <1>6 DEF ReportScheduled, ReportRefused, Reports
<1>7. CASE Rollback(t) \/ Release(t)
  BY <1>7 DEF Rollback, Release, Freed, Frees
<1>8. CASE Drop(t)
  <2>1. CASE UNCHANGED services
    BY <1>8, <2>1 DEF Drop
  <2>2. CASE pc[t] = "lock" /\ Locks(t)
    BY <1>8, <2>2 DEF Drop, Locks
  <2>3. CASE pc[t] = "settle" /\ OnChain(t)
    BY <1>8, <2>3 DEF Drop, OnChain
  <2>4. CASE pc[t] = "positions" /\ Moved(t)
    BY <1>8, <2>4 DEF Drop, Moved
  <2>5. CASE pc[t] = "report" /\ Reports(t)
    BY <1>8, <2>5 DEF Drop, Reports
  <2>6. CASE pc[t] \in {"rollback", "release"} /\ Frees(t)
    BY <1>8, <2>6 DEF Drop, Frees
  <2>7. QED
    BY <1>8, <2>1, <2>2, <2>3, <2>4, <2>5, <2>6 DEF Drop
<1>9. QED
  BY <1>1, <1>2, <1>3, <1>4, <1>5, <1>6, <1>7, <1>8 DEF Executor

\* The initial state satisfies IInv, and every step keeps it.
LEMMA InitSound == Init => IInv
<1> SUFFICES ASSUME Init PROVE IInv
  OBVIOUS
<1>1. TypeOK
  BY BlockTradeFacts DEF Init, TypeOK, Awaits, FailSteps
<1>2. StepsInOrder
  BY BlockTradeFacts DEF Init, StepsInOrder, InStep, Awaits
<1>3. QED
  BY <1>1, <1>2, BlockTradeFacts
     DEF Init, IInv, ExecutedIsComplete, PositionsFollowChain, ReturnFreesCollateral

LEMMA StepSound == IInv /\ [Next]_vars => IInv'
<1> SUFFICES ASSUME IInv, [Next]_vars PROVE IInv'
  OBVIOUS
<1>1. CASE UNCHANGED vars
  BY <1>1 DEF vars, IInv, TypeOK, StepsInOrder, InStep, Agreed,
     ExecutedIsComplete, PositionsFollowChain, ReturnFreesCollateral
<1>2. ASSUME NEW t \in Trades, Calls(t) \/ Executor(t) PROVE IInv'
  <2>1. TypeOK /\ Sound(t)
    BY IInvIsSound
  <2>2. TypeOK' /\ Sound(t)'
    BY <1>2, <2>1, TypeStep, CallsSound, ExecutorSound DEF Sound
  <2>3. \A u \in Trades : u # t => Sound(u)'
    BY <1>2, <2>1, Others, IInvIsSound
  <2>4. \A u \in Trades : Sound(u)'
    BY <2>2, <2>3
  <2>5. QED
    BY <2>2, <2>4 DEF IInv, Sound, StepsInOrder, ExecutedIsComplete, PositionsFollowChain,
       ReturnFreesCollateral
<1>3. QED
  BY <1>1, <1>2 DEF Next

\* IInv holds in every reachable state.
THEOREM Inductive == Spec => []IInv
<1>1. QED
  BY InitSound, StepSound, PTL DEF Spec

\* The state stays well typed: no settlement and no position update is repeated.
THEOREM TypeCorrect == Spec => []TypeOK
<1>1. IInv => TypeOK
  BY DEF IInv
<1>2. QED
  BY <1>1, Inductive, PTL

\* No trade is settled that both parties did not confirm after a passed validation.
THEOREM OnlyAgreedSettle == Spec => []SettledIsAgreed
<1>1. IInv => SettledIsAgreed
  BY DEF IInv, StepsInOrder, InStep, SettledIsAgreed
<1>2. QED
  BY <1>1, Inductive, PTL

\* An executed trade is on chain, in the positions and reported, each once.
THEOREM ExecutedComplete == Spec => []ExecutedIsComplete
<1>1. IInv => ExecutedIsComplete
  BY DEF IInv
<1>2. QED
  BY <1>1, Inductive, PTL

\* Positions never move for a trade that is not on chain.
THEOREM ChainFirst == Spec => []PositionsFollowChain
<1>1. IInv => PositionsFollowChain
  BY DEF IInv
<1>2. QED
  BY <1>1, Inductive, PTL

\* Every return but the one after a refused report has freed the collateral, or
\* the collateral service refused to.
THEOREM ReturnFrees == Spec => []ReturnFreesCollateral
<1>1. IInv => ReturnFreesCollateral
  BY DEF IInv
<1>2. QED
  BY <1>1, Inductive, PTL

\* Collateral is held until the trade is executed or its settlement or position
\* update has failed.
THEOREM Held == Spec => HeldThroughSettlement
<1>1. IInv /\ [Next]_vars =>
        [\A t \in Trades :
           collateral[t] = "locked" /\ collateral'[t] # "locked" =>
             trade[t].state = "Executed" \/ failure[t] \in {"Settlement", "PositionUpdate"}]_vars
  <2> SUFFICES ASSUME IInv, Next, NEW t \in Trades,
                      collateral[t] = "locked", collateral'[t] # "locked"
               PROVE  trade[t].state = "Executed" \/ failure[t] \in {"Settlement", "PositionUpdate"}
    OBVIOUS
  <2>1. PICK u \in Trades : Calls(u) \/ Executor(u)
    BY DEF Next
  <2>2. u = t /\ pc[t] \in {"rollback", "release"}
    <3> USE DEF IInv, TypeOK
    <3>1. CASE Calls(u) \/ Execute(u) \/ CollateralRefused(u) \/ PriceInBounds(u) \/ PriceRefused(u)
      BY <3>1 DEF Calls, StartValidation, Reject, Validate, PartyConfirms, Update,
         Execute, CollateralRefused, LocksErring, PriceInBounds, PriceRefused
    <3>2. CASE CollateralLocked(u) \/ Settles(u) \/ SettlementErr(u) \/ PositionsUpdated(u)
               \/ PositionsErr(u) \/ ReportScheduled(u) \/ ReportRefused(u)
      BY <3>2 DEF CollateralLocked, Settles, SettlementErr, PositionsUpdated, PositionsErr,
         ReportScheduled, ReportRefused, Locks, OnChain, Moved, Reports
    <3>3. CASE Rollback(u) \/ Release(u)
      BY <3>3 DEF Rollback, Release, Freed, Frees
    <3>4. CASE Drop(u)
      BY <3>4 DEF Drop, Locks, OnChain, Moved, Reports, Frees
    <3>5. QED
      BY <2>1, <3>1, <3>2, <3>3, <3>4 DEF Executor
  <2>3. QED
    BY <2>2 DEF IInv, StepsInOrder, InStep
<1>2. QED
  BY <1>1, Inductive, PTL DEF Spec, HeldThroughSettlement


-----------------------------------------------------------------------------
(***************************************************************************)
(* The composition.  Workers leave the execution alone, so what holds of      *)
(* OffBookExecution holds here.                                              *)
(***************************************************************************)
ReportingInv == IInv /\ ReportingTypeOK /\ ReportsInStep /\ AnnouncedOnce

\* Trades and reports are only ever added to, once agreed and settled.
LEMMA ExecutionGrows ==
  ASSUME [Next]_vars
  PROVE  reported \subseteq reported'
<1>1. CASE UNCHANGED vars
  BY <1>1 DEF vars
<1>2. ASSUME NEW t \in Trades, Calls(t) \/ Executor(t) PROVE reported \subseteq reported'
  <2>1. CASE Calls(t) \/ Execute(t) \/ CollateralLocked(t) \/ CollateralRefused(t)
             \/ PriceInBounds(t) \/ PriceRefused(t)
    BY <2>1 DEF Calls, StartValidation, Reject, Validate, PartyConfirms, Update,
       Execute, CollateralLocked, CollateralRefused, PriceInBounds, PriceRefused,
                Locks, LocksErring
  <2>2. CASE Settles(t) \/ SettlementErr(t) \/ PositionsUpdated(t) \/ PositionsErr(t)
             \/ ReportScheduled(t) \/ ReportRefused(t) \/ Rollback(t) \/ Release(t) \/ Drop(t)
    BY <2>2 DEF Settles, SettlementErr, PositionsUpdated, PositionsErr, ReportScheduled,
       ReportRefused, Rollback, Release, Freed, Frees, Drop, Locks, OnChain, Moved, Reports
  <2>3. QED
    BY <1>2, <2>1, <2>2 DEF Executor
<1>3. QED
  BY <1>1, <1>2 DEF Next

\* The marks, batches and counts of the workers stay in step.
LEMMA WorkersInStep ==
  ASSUME ReportingInv, ReportingNext
  PROVE  ReportingTypeOK' /\ ReportsInStep' /\ AnnouncedOnce'
<1> USE DEF ReportingInv, ReportingTypeOK, ReportsInStep, AnnouncedOnce
<1>1. CASE Next /\ UNCHANGED rvars
  <2>1. reported \subseteq reported'
    BY <1>1, ExecutionGrows
  <2>2. QED
    BY <1>1, <2>1 DEF rvars
<1>2. ASSUME NEW t \in Trades, BecomesDue(t)
      PROVE  ReportingTypeOK' /\ ReportsInStep' /\ AnnouncedOnce'
  BY <1>2 DEF BecomesDue, vars
<1>3. ASSUME NEW w \in Workers, ProcessReady(w)
      PROVE  ReportingTypeOK' /\ ReportsInStep' /\ AnnouncedOnce'
  BY <1>3 DEF ProcessReady, ReadyToPublish, vars
<1>4. ASSUME NEW w \in Workers, DropCall(w)
      PROVE  ReportingTypeOK' /\ ReportsInStep' /\ AnnouncedOnce'
  BY <1>4 DEF DropCall, vars
<1>5. ASSUME NEW w \in Workers, NEW t \in Trades, PublishReport(w, t)
      PROVE  ReportingTypeOK' /\ ReportsInStep' /\ AnnouncedOnce'
  BY <1>5 DEF PublishReport, vars
<1>6. ASSUME NEW w \in Workers, NEW t \in Trades, MarkFails(w, t)
      PROVE  ReportingTypeOK' /\ ReportsInStep' /\ AnnouncedOnce'
  BY <1>6 DEF MarkFails, vars
<1>7. ASSUME NEW w \in Workers, ReturnEvents(w)
      PROVE  ReportingTypeOK' /\ ReportsInStep' /\ AnnouncedOnce'
  <2>1. \A v \in Workers, t \in Trades :
          announced'[v][t] = IF v = w /\ t \in events[w] THEN 1 ELSE announced[v][t]
    BY <1>7, BoundAssumption DEF ReturnEvents
  <2>2. announced' \in [Workers -> [Trades -> 0 .. MaxAnnounced]]
    BY <1>7, BoundAssumption DEF ReturnEvents
  <2>3. QED
    BY <1>7, <2>1, <2>2 DEF ReturnEvents, vars
<1>8. QED
  BY <1>1, <1>2, <1>3, <1>4, <1>5, <1>6, <1>7 DEF ReportingNext

\* Everything about the composition rests on this.
THEOREM ReportingInductive == ReportingSpec => []ReportingInv
<1>1. ReportingInit => ReportingInv
  <2> SUFFICES ASSUME ReportingInit PROVE ReportingInv
    OBVIOUS
  <2>1. IInv
    BY InitSound DEF ReportingInit
  <2>2. QED
    BY <2>1, BoundAssumption
       DEF ReportingInit, ReportingInv, ReportingTypeOK, ReportsInStep, AnnouncedOnce
<1>2. ReportingInv /\ [ReportingNext]_<<vars, rvars>> => ReportingInv'
  <2> SUFFICES ASSUME ReportingInv, [ReportingNext]_<<vars, rvars>> PROVE ReportingInv'
    OBVIOUS
  <2>1. IInv'
    <3>1. [Next]_vars
      BY DEF ReportingNext, BecomesDue, ProcessReady, ReturnEvents, DropCall, PublishReport,
         MarkFails
    <3>2. QED
      BY <3>1, StepSound DEF ReportingInv
  <2>2. CASE ReportingNext
    BY <2>1, <2>2, WorkersInStep DEF ReportingInv
  <2>3. CASE UNCHANGED <<vars, rvars>>
    BY <2>1, <2>3 DEF vars, rvars, ReportingInv, ReportingTypeOK, ReportsInStep, AnnouncedOnce
  <2>4. QED
    BY <2>2, <2>3
<1>3. QED
  BY <1>1, <1>2, PTL DEF ReportingSpec

\* Only reports of agreed, settled trades in the positions become public, and
\* only after their delay, whatever execute returned.
THEOREM PublicIsDone == ReportingSpec => []AnnouncedIsDone
<1>1. ReportingInv => AnnouncedIsDone
  <2> SUFFICES ASSUME ReportingInv, NEW w \in Workers, NEW t \in Trades, announced[w][t] > 0
               PROVE  Agreed(t) /\ settled[t] = 1 /\ positions[t] = 1 /\ t \in due
    BY DEF AnnouncedIsDone
  <2>1. t \in due /\ t \in reported
    BY DEF ReportingInv, ReportsInStep
  <2>2. InStep(t)
    BY DEF ReportingInv, IInv, StepsInOrder
  <2>3. QED
    BY <2>1, <2>2 DEF InStep
<1>2. QED
  BY <1>1, ReportingInductive, PTL

\* No worker announces a report twice.
THEOREM PublicOnce == ReportingSpec => []AnnouncedOnce
<1>1. ReportingInv => AnnouncedOnce
  BY DEF ReportingInv
<1>2. QED
  BY <1>1, ReportingInductive, PTL
=============================================================================
