-------------------------- MODULE OffBookExecution --------------------------
(***************************************************************************)
(* Block trades from submission to off-book execution: the calls of the       *)
(* parties and the platform on the aggregate, and OffBookExecutor::execute    *)
(* (src/domain/services/off_book_executor.rs), which locks the collateral of  *)
(* both parties, settles on chain, updates positions, schedules the delayed   *)
(* report and releases the collateral.                                       *)
(*                                                                         *)
(* The collateral, settlement, position and report services are traits        *)
(* without an implementation here: each answers Ok or Err, or never, and may  *)
(* have done what it was asked although it answers Err.  execute borrows the  *)
(* trade for itself, and its future may be dropped at any await, when what    *)
(* was asked of a service may still be done.  On-chain settlement is enabled, *)
(* as it is by default.                                                      *)
(***************************************************************************)
EXTENDS BlockTrade

CONSTANT Trades

VARIABLES trade,       \* trade[t]: the aggregate
          pc,          \* pc[t]: the await at which execute is
          collateral,  \* collateral[t]: what the collateral service holds
          settled,     \* settled[t]: settlements on chain
          positions,   \* positions[t]: position updates
          reported,    \* trades whose report is scheduled
          failure,     \* failure[t]: the step whose error ended execute
          stuck,       \* trades whose collateral is held behind an answered error
          outcome      \* outcome[t]: what execute returned

vars == <<trade, pc, collateral, settled, positions, reported, failure, stuck, outcome>>

Awaits    == {"lock", "verify", "settle", "positions", "report", "rollback", "release"}
FailSteps == {"CollateralLock", "Settlement", "PositionUpdate", "ReportScheduling"}

TypeOK == /\ trade \in [Trades -> BlockTrades]
          /\ pc \in [Trades -> Awaits \cup {"idle", "done"}]
          /\ collateral \in [Trades -> {"none", "locked", "released"}]
          /\ settled \in [Trades -> 0 .. 1]
          /\ positions \in [Trades -> 0 .. 1]
          /\ reported \subseteq Trades /\ stuck \subseteq Trades
          /\ failure \in [Trades -> FailSteps \cup {"none"}]
          /\ outcome \in [Trades -> {"none", "ok", "err", "lost"}]

Init == /\ trade = [t \in Trades |-> NewTrade]
        /\ pc = [t \in Trades |-> "idle"]
        /\ collateral = [t \in Trades |-> "none"]
        /\ settled = [t \in Trades |-> 0]
        /\ positions = [t \in Trades |-> 0]
        /\ reported = {} /\ stuck = {}
        /\ failure = [t \in Trades |-> "none"]
        /\ outcome = [t \in Trades |-> "none"]

services == <<collateral, settled, positions, reported, stuck>>
-----------------------------------------------------------------------------
(***************************************************************************)
(* Calls on the aggregate, while execute does not borrow it.                 *)
(***************************************************************************)
Update(t, b) == /\ pc[t] \in {"idle", "done"}
                /\ trade' = [trade EXCEPT ![t] = b]
                /\ UNCHANGED <<pc, services, failure, outcome>>

StartValidation(t) == /\ CanMoveTo(trade[t], "Validating")
                      /\ Update(t, MoveTo(trade[t], "Validating"))

Validate(t, result) == /\ CanRecordValidation(trade[t])
                       /\ Update(t, RecordValidation(trade[t], result))

PartyConfirms(t, role) == /\ CanConfirm(trade[t])
                          /\ Update(t, Confirm(trade[t], role))

Reject(t) == /\ CanMoveTo(trade[t], "Rejected")
             /\ Update(t, MoveTo(trade[t], "Rejected"))
-----------------------------------------------------------------------------
(***************************************************************************)
(* execute.                                                                  *)
(***************************************************************************)
Go(t, here, there) == pc[t] = here /\ pc' = [pc EXCEPT ![t] = there]
Moves(t, s)        == trade' = [trade EXCEPT ![t] = MoveTo(@, s)]
End(t, answer)     == outcome' = [outcome EXCEPT ![t] = answer]
Fails(t, step)     == failure' = [failure EXCEPT ![t] = step]

\* What each service does when it does what it is asked.
Locks(t)   == /\ collateral' = [collateral EXCEPT ![t] = "locked"]
              /\ UNCHANGED <<settled, positions, reported, stuck>>
LocksErring(t) == /\ collateral' = [collateral EXCEPT ![t] = "locked"]
                  /\ stuck' = stuck \cup {t}
                  /\ UNCHANGED <<settled, positions, reported>>
OnChain(t) == /\ settled' = [settled EXCEPT ![t] = @ + 1]
              /\ UNCHANGED <<collateral, positions, reported, stuck>>
Moved(t)   == /\ positions' = [positions EXCEPT ![t] = @ + 1]
              /\ UNCHANGED <<collateral, settled, reported, stuck>>
Reports(t) == /\ reported' = reported \cup {t}
              /\ UNCHANGED <<collateral, settled, positions, stuck>>
Frees(t)   == /\ collateral' = [collateral EXCEPT ![t] = "released"]
              /\ UNCHANGED <<settled, positions, reported, stuck>>

\* Any other state is refused before anything is done.
Execute(t) == /\ trade[t].state = "Approved"
              /\ Go(t, "idle", "lock") /\ Moves(t, "Executing")
              /\ UNCHANGED <<services, failure, outcome>>

CollateralLocked(t) == /\ Go(t, "lock", "verify") /\ Locks(t)
                       /\ UNCHANGED <<trade, failure, outcome>>

\* handle_failure marks the trade failed and releases nothing: a lock behind
\* the error stays.
CollateralRefused(t) == /\ Go(t, "lock", "done") /\ Moves(t, "Failed")
                        /\ Fails(t, "CollateralLock") /\ End(t, "err")
                        /\ \/ UNCHANGED services
                           \/ LocksErring(t)

PriceInBounds(t) == /\ Go(t, "verify", "settle")
                    /\ UNCHANGED <<trade, services, failure, outcome>>

PriceRefused(t) == /\ Go(t, "verify", "rollback") /\ Fails(t, "Settlement")
                   /\ UNCHANGED <<trade, services, outcome>>

\* Mutant: the collateral is released as soon as the trade is on chain.
SettlesReleasing(t) == /\ Go(t, "settle", "positions")
                       /\ settled' = [settled EXCEPT ![t] = @ + 1]
                       /\ collateral' = [collateral EXCEPT ![t] = "released"]
                       /\ UNCHANGED <<trade, positions, reported, stuck, failure, outcome>>

Settles(t) == /\ Go(t, "settle", "positions") /\ OnChain(t)
              /\ UNCHANGED <<trade, failure, outcome>>

\* Mutant: a failed settlement is taken for a position to update.
SettlementErrIgnored(t) == /\ Go(t, "settle", "positions")
                           /\ UNCHANGED <<trade, services, failure, outcome>>

\* An error, also one after which the settlement is on chain all the same.
SettlementErr(t) == /\ Go(t, "settle", "rollback") /\ Fails(t, "Settlement")
                    /\ OnChain(t) \/ UNCHANGED services
                    /\ UNCHANGED <<trade, outcome>>

PositionsUpdated(t) == /\ Go(t, "positions", "report") /\ Moved(t)
                       /\ UNCHANGED <<trade, failure, outcome>>

\* Mutant: the error returns without rollback_collateral.
PositionsErrKeeping(t) == /\ Go(t, "positions", "done") /\ Moves(t, "Failed")
                          /\ Fails(t, "PositionUpdate") /\ End(t, "err")
                          /\ UNCHANGED services

\* An error, also one after which the positions have moved all the same.
PositionsErr(t) == /\ Go(t, "positions", "rollback") /\ Fails(t, "PositionUpdate")
                   /\ Moved(t) \/ UNCHANGED services
                   /\ UNCHANGED <<trade, outcome>>

\* The report is scheduled; mark_executed and the release follow.
ReportScheduled(t) == /\ Go(t, "report", "release") /\ Moves(t, "Executed")
                      /\ Reports(t) /\ UNCHANGED <<failure, outcome>>

\* handle_failure marks the trade failed, so that mark_executed, which is
\* called all the same, returns its error.  The report may be scheduled.
ReportRefused(t) == /\ Go(t, "report", "done") /\ Moves(t, "Failed")
                    /\ Fails(t, "ReportScheduling") /\ End(t, "err")
                    /\ Reports(t) \/ UNCHANGED services

\* The release of t's lock: it is freed, or an error leaves it held.
Freed(t) == \/ Frees(t)
            \/ stuck' = stuck \cup {t} /\ UNCHANGED <<collateral, settled, positions, reported>>

\* rollback_collateral and handle_failure.
Rollback(t) == /\ Go(t, "rollback", "done") /\ Moves(t, "Failed")
               /\ Freed(t) /\ End(t, "err") /\ UNCHANGED failure

Release(t) == /\ Go(t, "release", "done")
              /\ Freed(t) /\ End(t, "ok") /\ UNCHANGED <<trade, failure>>

Drop(t) == /\ pc[t] \in Awaits
           /\ pc' = [pc EXCEPT ![t] = "done"] /\ End(t, "lost")
           /\ \/ UNCHANGED services
              \/ pc[t] = "lock" /\ Locks(t)
              \/ pc[t] = "settle" /\ OnChain(t)
              \/ pc[t] = "positions" /\ Moved(t)
              \/ pc[t] = "report" /\ Reports(t)
              \/ pc[t] \in {"rollback", "release"} /\ Frees(t)
           /\ UNCHANGED <<trade, failure>>

Calls(t) == \/ StartValidation(t) \/ Reject(t)
            \/ \E result \in {"passed", "failed"} : Validate(t, result)
            \/ \E role \in Roles : PartyConfirms(t, role)

Executor(t) == \/ Execute(t) \/ CollateralLocked(t) \/ CollateralRefused(t)
               \/ PriceInBounds(t) \/ PriceRefused(t) \/ Settles(t) \/ SettlementErr(t)
               \/ PositionsUpdated(t) \/ PositionsErr(t)
               \/ ReportScheduled(t) \/ ReportRefused(t)
               \/ Rollback(t) \/ Release(t) \/ Drop(t)

Next == \E t \in Trades : Calls(t) \/ Executor(t)

Spec == Init /\ [][Next]_vars
-----------------------------------------------------------------------------
(***************************************************************************)
(* What holds at each await: how far the trade, the chain and the positions   *)
(* are, and that only an agreed trade gets there.  A dropped execute leaves    *)
(* the trade Executing.  With the properties below it is inductive.          *)
(***************************************************************************)
Agreed(t) == trade[t].validation = "passed" /\ trade[t].confirmed = Roles

InStep(t) ==
  /\ pc[t] = "idle" => trade[t].state \in {"Submitted", "Validating", "Approved", "Rejected"}
  /\ pc[t] = "release" => trade[t].state = "Executed"
  /\ pc[t] \in Awaits \ {"release"} => trade[t].state = "Executing"
  /\ pc[t] = "done" => trade[t].state \in {"Executing", "Executed", "Failed"}
  /\ trade[t].state = "Approved" \/ pc[t] # "idle" => Agreed(t)
  /\ pc[t] \in {"idle", "lock"} => collateral[t] = "none"
  /\ pc[t] \in {"idle", "lock", "verify", "settle"} => settled[t] = 0
  /\ pc[t] \in {"idle", "lock", "verify", "settle", "positions"} => positions[t] = 0
  /\ pc[t] \in {"positions", "report"} => settled[t] = 1
  /\ pc[t] = "report" => positions[t] = 1
  /\ t \in reported => /\ settled[t] = 1 /\ positions[t] = 1
                       /\ pc[t] \in {"release", "done"}
  /\ pc[t] = "rollback" => failure[t] \in {"Settlement", "PositionUpdate"}
  /\ pc[t] # "done" => outcome[t] = "none"

StepsInOrder == \A t \in Trades : InStep(t)

(***************************************************************************)
(* A trade that both parties have not confirmed, or whose last validation     *)
(* did not pass, is never settled: neither by a success nor by a failure that *)
(* settled after all.                                                        *)
(***************************************************************************)
SettledIsAgreed == \A t \in Trades : settled[t] > 0 => Agreed(t)

(***************************************************************************)
(* An executed trade was settled once, moved the positions once and has its   *)
(* report scheduled.                                                         *)
(***************************************************************************)
ExecutedIsComplete ==
  \A t \in Trades :
    trade[t].state = "Executed" => settled[t] = 1 /\ positions[t] = 1 /\ t \in reported

(***************************************************************************)
(* Positions move only for a trade that is on chain.                         *)
(***************************************************************************)
PositionsFollowChain == \A t \in Trades : positions[t] <= settled[t]

(***************************************************************************)
(* When execute returns, with success or with the error of any step but the   *)
(* report, the collateral is locked only if the collateral service itself     *)
(* answered with an error: to the release, or to a lock that it holds.       *)
(***************************************************************************)
ReturnFreesCollateral ==
  \A t \in Trades :
    outcome[t] = "ok" \/ (outcome[t] = "err" /\ failure[t] # "ReportScheduling") =>
      collateral[t] # "locked" \/ t \in stuck

(***************************************************************************)
(* Collateral is not given up while the settlement it secures is under way:   *)
(* it is released only for a trade that has been executed or failed before.   *)
(***************************************************************************)
HeldThroughSettlement ==
  [][\A t \in Trades :
       collateral[t] = "locked" /\ collateral'[t] # "locked" =>
         trade[t].state = "Executed" \/ failure[t] \in {"Settlement", "PositionUpdate"}]_vars
-----------------------------------------------------------------------------
\* off_book_executor.rs, execute: "On failure, any locked collateral is released."
FailureFreesCollateral ==
  \A t \in Trades : outcome[t] = "err" => collateral[t] # "locked" \/ t \in stuck
=============================================================================
