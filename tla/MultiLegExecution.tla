------------------------- MODULE MultiLegExecution -------------------------
(***************************************************************************)
(* MultiLegExecutor::execute (src/domain/services/multi_leg_executor.rs): the *)
(* legs of a package are executed one after the other; when one fails, the    *)
(* executed ones are compensated, last first, each with a bounded number of   *)
(* attempts.  One timeout is around all of it, and the future may be dropped. *)
(*                                                                         *)
(* The venue behind LegExecutor is a trait: it may do what it was asked and   *)
(* answer with an error (a leg's own timeout), and it may still do what it    *)
(* was asked when nobody waits any more.                                     *)
(***************************************************************************)
EXTENDS Integers

CONSTANTS NumLegs,              \* legs of the package quote
          MaxRollbackAttempts   \* MultiLegExecutorConfig::max_rollback_attempts

ASSUME MultiLegAssumption == NumLegs \in Nat /\ MaxRollbackAttempts \in Nat

Legs == 1 .. NumLegs

VARIABLES pc,          \* the await execute is at
          executed,    \* executed_legs.len()
          rolledBack,  \* rolled_back of rollback_all
          attempts,    \* attempts at the current compensation
          position,    \* position[l]: executions minus compensations at the venue
          hidden,      \* legs for which the venue acted without saying so
          result       \* what execute returned

vars == <<pc, executed, rolledBack, attempts, position, hidden, result>>

Results == {"Completed", "RolledBack", "PartialFailure", "Timeout"}

TypeOK == /\ pc \in {"ready", "leg", "rollback", "done"}
          /\ executed \in 0 .. NumLegs /\ rolledBack \in 0 .. executed
          /\ attempts \in 0 .. MaxRollbackAttempts
          /\ position \in [Legs -> -MaxRollbackAttempts .. 1]
          /\ hidden \subseteq Legs
          /\ result \in Results \cup {"none", "lost"}

Init == /\ pc = "ready" /\ result = "none"
        /\ executed = 0 /\ rolledBack = 0 /\ attempts = 0
        /\ position = [l \in Legs |-> 0] /\ hidden = {}
-----------------------------------------------------------------------------
Finish(r) == pc' = "done" /\ result' = r

Trade(l, change)  == position' = [position EXCEPT ![l] = @ + change]
Answered          == UNCHANGED hidden
Unanswered(l, change) ==
  \/ UNCHANGED <<position, hidden>>
  \/ Trade(l, change) /\ hidden' = hidden \cup {l}

\* Mutant: the executed legs are compensated first to last.
CompensatingInOrder == rolledBack + 1

\* The leg that is being compensated: generate_all reverses the executed ones.
Compensating == executed - rolledBack

Start == /\ pc = "ready"
         /\ IF NumLegs = 0 THEN Finish("Completed")
                           ELSE pc' = "leg" /\ UNCHANGED result
         /\ UNCHANGED <<executed, rolledBack, attempts, position, hidden>>

LegExecuted ==
  /\ pc = "leg"
  /\ Trade(executed + 1, 1) /\ Answered
  /\ executed' = executed + 1
  /\ IF executed + 1 = NumLegs THEN Finish("Completed") ELSE UNCHANGED <<pc, result>>
  /\ UNCHANGED <<rolledBack, attempts>>

\* Mutant: the failed leg is rolled back with the others.
LegFailedCounted ==
  /\ pc = "leg"
  /\ Unanswered(executed + 1, 1)
  /\ executed' = executed + 1
  /\ pc' = "rollback"
  /\ UNCHANGED <<rolledBack, attempts, result>>

\* Mutant: a leg that fails is left out of the package.
LegFailedSkipped ==
  /\ pc = "leg"
  /\ Unanswered(executed + 1, 1)
  /\ executed' = executed + 1
  /\ IF executed + 1 = NumLegs THEN Finish("Completed") ELSE UNCHANGED <<pc, result>>
  /\ UNCHANGED <<rolledBack, attempts>>

\* rollback_all attempts nothing, and reports success, when it may attempt nothing.
LegFailed ==
  /\ pc = "leg"
  /\ Unanswered(executed + 1, 1)
  /\ IF executed = 0 \/ MaxRollbackAttempts = 0
       THEN Finish("RolledBack")
       ELSE pc' = "rollback" /\ UNCHANGED result
  /\ UNCHANGED <<executed, rolledBack, attempts>>

Compensated ==
  /\ pc = "rollback"
  /\ Trade(Compensating, -1) /\ Answered
  /\ rolledBack' = rolledBack + 1 /\ attempts' = 0
  /\ IF rolledBack + 1 = executed THEN Finish("RolledBack") ELSE UNCHANGED <<pc, result>>
  /\ UNCHANGED executed

\* Mutant: a compensation that failed for good is counted as done.
CompensationFailedCounted ==
  /\ pc = "rollback"
  /\ Unanswered(Compensating, -1)
  /\ attempts' = attempts + 1
  /\ rolledBack' = IF attempts' = MaxRollbackAttempts THEN rolledBack + 1 ELSE rolledBack
  /\ IF attempts' = MaxRollbackAttempts THEN Finish("PartialFailure")
                                        ELSE UNCHANGED <<pc, result>>
  /\ UNCHANGED executed

\* The legs not reached yet stay as they are.
CompensationFailed ==
  /\ pc = "rollback"
  /\ Unanswered(Compensating, -1)
  /\ attempts' = attempts + 1
  /\ IF attempts' = MaxRollbackAttempts THEN Finish("PartialFailure")
                                        ELSE UNCHANGED <<pc, result>>
  /\ UNCHANGED <<executed, rolledBack>>

\* overall_timeout, or the caller, drops the execution with its records.
CutOff(r) ==
  /\ \/ pc = "leg" /\ Unanswered(executed + 1, 1)
     \/ pc = "rollback" /\ Unanswered(Compensating, -1)
  /\ Finish(r)
  /\ UNCHANGED <<executed, rolledBack, attempts>>

Next == \/ Start \/ LegExecuted \/ LegFailed \/ Compensated \/ CompensationFailed
        \/ \E r \in {"Timeout", "lost"} : CutOff(r)

Spec == Init /\ [][Next]_vars
-----------------------------------------------------------------------------
(***************************************************************************)
(* The executor's counts are the venue's book: a leg is open exactly if it    *)
(* was executed and not compensated, except where the venue acted without     *)
(* saying so.                                                                *)
(***************************************************************************)
CountsAreTheBook ==
  \A l \in Legs \ hidden : position[l] = IF l <= executed - rolledBack THEN 1 ELSE 0

(***************************************************************************)
(* Completed says that every leg is open once; RolledBack says that none is,  *)
(* unless the venue hid it, and only the leg that failed and legs whose       *)
(* compensation was repeated can be hidden.                                  *)
(***************************************************************************)
ResultIsTrue ==
  /\ result = "Completed" => \A l \in Legs : position[l] = 1
  /\ result = "RolledBack" /\ MaxRollbackAttempts > 0 =>
       \A l \in Legs : /\ l > executed + 1 => position[l] = 0
                       /\ position[l] = 1 => l = executed + 1 /\ l \in hidden
                       /\ position[l] < 0 => l <= executed /\ l \in hidden

(***************************************************************************)
(* A failed rollback reports how many legs were executed and how many of them *)
(* were taken back, which says that the first `Compensating` legs are open.   *)
(* How far that can be off: all of them but the last are open.  The last may  *)
(* have been taken back by an attempt that was answered with an error, and    *)
(* the leg whose failure began the rollback may be open although it was never *)
(* counted; no other leg is open.  A leg is open on the other side only if a  *)
(* compensation of it was repeated.                                          *)
(***************************************************************************)
PartialFailureIsBounded ==
  result = "PartialFailure" =>
    /\ rolledBack < executed /\ executed < NumLegs
    /\ \A l \in Legs :
         /\ l < Compensating => position[l] = 1
         /\ position[l] > 0 => l <= Compensating \/ (l = executed + 1 /\ l \in hidden)
         /\ position[l] < 0 => l \in Compensating .. executed /\ l \in hidden

(***************************************************************************)
(* Legs go to the venue in order, each after the one before it was confirmed, *)
(* and none after a failure; compensations take them back last first, each    *)
(* after the ones above it were confirmed.                                   *)
(***************************************************************************)
SagaOrder ==
  [][\A l \in Legs :
       /\ position'[l] > position[l] => /\ \A k \in 1 .. l - 1 : position[k] = 1
                                        /\ \A k \in l .. NumLegs : position[k] = 0
       /\ position'[l] < position[l] => /\ l <= executed
                                        /\ \A k \in l + 1 .. executed : position[k] <= 0]_vars
=============================================================================
