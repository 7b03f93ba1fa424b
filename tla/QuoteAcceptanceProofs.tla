------------------------ MODULE QuoteAcceptanceProofs ------------------------
(***************************************************************************)
(* Proofs about QuoteAcceptance, for any calls, quotes and times.            *)
(***************************************************************************)
EXTENDS QuoteAcceptance, TLAPS

USE DEF Go, End

\* What the operations on a lock return.
LEMMA LockFacts ==
  /\ Free \in Locks
  /\ \A p \in Holders : Taken(p) \in Locks /\ Taken(p).holder = p /\ Taken(p).left = LockTtl
  /\ \A l \in Locks :
       /\ Aged(l) \in Locks
       /\ l.left > 1 => Aged(l).holder = l.holder /\ Aged(l).left = l.left - 1
       /\ l.left <= 1 => Aged(l) = Free
BY TtlAssumption DEF Free, Taken, Locks, Aged

\* TypeOK is inductive.
LEMMA TypeStep == TypeOK /\ [Next]_vars => TypeOK'
<1> SUFFICES ASSUME TypeOK, [Next]_vars PROVE TypeOK'
  OBVIOUS
<1> USE LockFacts, TtlAssumption, AcceptanceAssumption DEF TypeOK, Steps, Holding
<1>1. CASE UNCHANGED vars
  BY <1>1 DEF vars
<1>2. CASE Tick
  <2>1. elapsed' \in [Holders -> 0 .. Horizon]
    BY <1>2 DEF Tick, Horizon
  <2>2. QED
    BY <1>2, <2>1 DEF Tick
<1>3. ASSUME NEW p \in Holders, Step(p) PROVE TypeOK'
  <2>1. CASE \E q \in Quotes : Call(p, q)
    BY <2>1 DEF Call
  <2>2. CASE Lock(p) \/ Release(p)
    BY <2>2 DEF Lock, Release
  <2>3. CASE Locked(p) \/ TimedOut(p) \/ Refused(p) \/ Executed(p) \/ Drop(p)
    BY <2>3 DEF Locked, TimedOut, Refused, Executed, Drop, Dropped
  <2>4. CASE RequestRisk(p) \/ RiskApproved(p) \/ SkipLastLook(p)
             \/ RequestLastLook(p) \/ LastLookConfirmed(p) \/ StartExecution(p)
    BY <2>4 DEF RequestRisk, RiskApproved, SkipLastLook, RequestLastLook,
                LastLookConfirmed, StartExecution
  <2>5. QED
    BY <1>3, <2>1, <2>2, <2>3, <2>4 DEF Step
<1>4. QED
  BY <1>1, <1>2, <1>3 DEF Next

\* The state stays well typed.
THEOREM TypeCorrect == Spec => []TypeOK
<1>1. Init => TypeOK
  BY LockFacts, TtlAssumption, AcceptanceAssumption DEF Init, TypeOK, Steps, Holding, Horizon
<1>2. QED
  BY <1>1, TypeStep, PTL DEF Spec

\* A call that takes no lock and gives none up, and a tick, keep YoungCallsHold.
LEMMA YoungStep == TypeOK /\ YoungCallsHold /\ [Next]_vars => YoungCallsHold'
<1> SUFFICES ASSUME TypeOK, YoungCallsHold, [Next]_vars,
                    NEW p \in Holders, pc'[p] \in Holding, elapsed'[p] < LockTtl
             PROVE  /\ locks'[quote'[p]].holder = p
                    /\ locks'[quote'[p]].left + elapsed'[p] >= LockTtl
  BY DEF YoungCallsHold
<1> USE LockFacts, TtlAssumption, AcceptanceAssumption DEF TypeOK, Holding
<1>1. CASE UNCHANGED vars
  BY <1>1 DEF vars, YoungCallsHold
<1>2. CASE Tick
  <2>1. pc[p] \in Holding /\ elapsed'[p] = elapsed[p] + 1
    <3>1. pc[p] \in Holding
      BY <1>2 DEF Tick
    <3>2. elapsed[p] < Horizon
      BY <1>2, <3>1 DEF Tick, Horizon
    <3>3. QED
      BY <1>2, <3>1, <3>2 DEF Tick
  <2>2. /\ locks[quote[p]].holder = p
        /\ locks[quote[p]].left + elapsed[p] >= LockTtl
    BY <2>1 DEF YoungCallsHold
  <2>3. quote[p] \in Quotes /\ locks[quote[p]] \in Locks
    BY <2>1
  <2>4. locks[quote[p]].left > 1
    BY <2>1, <2>2, <2>3 DEF Locks
  <2>5. locks'[quote'[p]] = Aged(locks[quote[p]])
    BY <1>2, <2>3 DEF Tick
  <2>6. QED
    BY <2>1, <2>2, <2>3, <2>4, <2>5 DEF Locks
<1>3. ASSUME NEW c \in Holders, Lock(c)
      PROVE  /\ locks'[quote'[p]].holder = p
             /\ locks'[quote'[p]].left + elapsed'[p] >= LockTtl
  <2>0. quote[c] \in Quotes /\ elapsed[p] \in Nat
    BY <1>3, AcceptanceAssumption DEF Lock, Horizon
  <2>1. CASE c = p
    BY <1>3, <2>0, <2>1 DEF Lock
  <2>2. CASE c # p
    <3>1. /\ quote[p] \in Quotes
          /\ locks[quote[p]].holder = p
          /\ locks[quote[p]].left + elapsed[p] >= LockTtl
      BY <1>3, <2>2 DEF Lock, YoungCallsHold
    <3>2. quote[c] # quote[p]
      BY <1>3, <2>2, <3>1 DEF Lock, OpenTo
    <3>3. QED
      BY <1>3, <3>1, <3>2 DEF Lock
  <2>3. QED
    BY <2>1, <2>2
<1>4. ASSUME NEW c \in Holders, Release(c)
      PROVE  /\ locks'[quote'[p]].holder = p
             /\ locks'[quote'[p]].left + elapsed'[p] >= LockTtl
  <2>1. /\ c # p /\ pc[p] \in Holding /\ quote[p] \in Quotes /\ quote[c] \in Quotes
        /\ quote' = quote /\ elapsed' = elapsed
    BY <1>4 DEF Release
  <2>2. locks[quote[p]].holder = p /\ locks[quote[p]].left + elapsed[p] >= LockTtl
    BY <2>1 DEF YoungCallsHold
  <2>3. locks'[quote[p]] = locks[quote[p]]
    BY <1>4, <2>1, <2>2 DEF Release
  <2>4. QED
    BY <2>1, <2>2, <2>3
<1>5. ASSUME NEW c \in Holders, Step(c), ~Lock(c), ~Release(c)
      PROVE  /\ locks'[quote'[p]].holder = p
             /\ locks'[quote'[p]].left + elapsed'[p] >= LockTtl
  <2>1. /\ UNCHANGED <<locks, elapsed>> /\ pc[p] \in Holding /\ quote'[p] = quote[p]
    <3>1. CASE \E q \in Quotes : Call(c, q)
      BY <3>1 DEF Call
    <3>2. CASE Locked(c) \/ TimedOut(c) \/ Refused(c) \/ Executed(c) \/ Drop(c)
      BY <3>2 DEF Locked, TimedOut, Refused, Executed, Drop
    <3>3. CASE RequestRisk(c) \/ RiskApproved(c) \/ SkipLastLook(c)
               \/ RequestLastLook(c) \/ LastLookConfirmed(c) \/ StartExecution(c)
      BY <3>3 DEF RequestRisk, RiskApproved, SkipLastLook, RequestLastLook,
                  LastLookConfirmed, StartExecution
    <3>4. QED
      BY <1>5, <3>1, <3>2, <3>3 DEF Step
  <2>2. QED
    BY <2>1 DEF YoungCallsHold
<1>6. QED
  BY <1>1, <1>2, <1>3, <1>4, <1>5 DEF Next

\* The two together are the inductive invariant.
LEMMA Inductive == Spec => [](TypeOK /\ YoungCallsHold)
<1>1. Init => YoungCallsHold
  BY DEF Init, YoungCallsHold, Holding
<1>2. QED
  BY <1>1, TypeCorrect, YoungStep, PTL DEF Spec

\* A call younger than the time to live of its lock holds it.
THEOREM YoungHold == Spec => []YoungCallsHold
BY Inductive, PTL

\* Two executions of a quote overlap only if one of them outlived its lock.
THEOREM OverlapBounded == Spec => []OverlapOnlyAfterTtl
<1>1. TypeOK /\ YoungCallsHold => OverlapOnlyAfterTtl
  <2> SUFFICES ASSUME TypeOK, YoungCallsHold, NEW p \in Holders, NEW o \in Holders,
                      p # o, pc[p] = "execute", pc[o] = "execute", quote[p] = quote[o],
                      ~(elapsed[p] >= LockTtl \/ elapsed[o] >= LockTtl)
               PROVE  FALSE
    BY DEF OverlapOnlyAfterTtl
  <2>1. elapsed[p] < LockTtl /\ elapsed[o] < LockTtl
    BY TtlAssumption, AcceptanceAssumption DEF TypeOK, Horizon
  <2>2. locks[quote[p]].holder = p /\ locks[quote[o]].holder = o
    BY <2>1 DEF YoungCallsHold, Holding
  <2>3. QED
    BY <2>2
<1>2. QED
  BY <1>1, Inductive, PTL

\* With a total timeout no longer than the time to live, every execution starts
\* under the lock of its call.
THEOREM StartsLocked == TotalTimeout <= LockTtl => (Spec => ExecutionStartsLocked)
<1> SUFFICES ASSUME TotalTimeout <= LockTtl PROVE Spec => ExecutionStartsLocked
  OBVIOUS
<1>1. TypeOK /\ YoungCallsHold /\ [Next]_vars =>
        [\A p \in Holders : pc[p] = "start" /\ pc'[p] = "execute" =>
           locks[quote[p]].holder = p]_vars
  <2> SUFFICES ASSUME TypeOK, YoungCallsHold, [Next]_vars,
                      NEW p \in Holders, pc[p] = "start", pc'[p] = "execute"
               PROVE  locks[quote[p]].holder = p
    OBVIOUS
  <2>1. PICK c \in Holders : Step(c)
    BY DEF Next, vars, Tick
  <2>2. InTime(p)
    BY <2>1 DEF TypeOK, Step, Call, Lock, Locked, RequestRisk, RiskApproved, SkipLastLook,
                RequestLastLook, LastLookConfirmed, StartExecution, TimedOut, Refused,
                Executed, Release, Drop
  <2>3. elapsed[p] < LockTtl
    BY <2>2, TtlAssumption, AcceptanceAssumption DEF InTime, TypeOK, Horizon
  <2>4. QED
    BY <2>3 DEF YoungCallsHold, Holding
<1>2. QED
  BY <1>1, Inductive, PTL DEF Spec, ExecutionStartsLocked

\* A lock changes hands only by its holder's release or by expiry.
THEOREM HolderReleases == Spec => OnlyHolderReleases
<1>1. TypeOK /\ [Next]_vars =>
        [\A q \in Quotes, p \in Holders :
           locks[q].holder = p /\ locks'[q].holder # p =>
             locks[q].left <= 1 \/ (pc[p] = "release" /\ pc'[p] = "done")]_vars
  <2> SUFFICES ASSUME TypeOK, [Next]_vars, NEW q \in Quotes, NEW p \in Holders,
                      locks[q].holder = p, locks'[q].holder # p, ~(locks[q].left <= 1)
               PROVE  pc[p] = "release" /\ pc'[p] = "done"
    OBVIOUS
  <2>1. ~Tick
    BY LockFacts, TtlAssumption DEF Tick, TypeOK, Locks
  <2>2. PICK c \in Holders : Step(c)
    BY <2>1 DEF Next, vars
  <2>3. Lock(c) \/ Release(c)
    BY <2>2 DEF Step, Call, Locked, RequestRisk, RiskApproved, SkipLastLook,
                RequestLastLook, LastLookConfirmed, StartExecution, TimedOut, Refused,
                Executed, Drop
  <2>4. quote[c] = q
    BY <2>3 DEF Lock, Release, TypeOK
  <2>5. CASE Lock(c)
    BY <2>4, <2>5, LockFacts, TtlAssumption DEF Lock, OpenTo, TypeOK
  <2>6. CASE Release(c)
    BY <2>4, <2>6 DEF Release, TypeOK
  <2>7. QED
    BY <2>3, <2>5, <2>6
<1>2. QED
  BY <1>1, TypeCorrect, PTL DEF Spec, OnlyHolderReleases
=============================================================================
