--------------------------- MODULE CapacityManager ---------------------------
(***************************************************************************)
(* The capacity of one market maker: CapacityManager                          *)
(* (src/domain/services/capacity_manager.rs) over the state and limits of     *)
(* src/domain/entities/mm_capacity.rs.  Market makers share nothing, each has *)
(* its own row, configuration and mutex.                                     *)
(*                                                                         *)
(* reserve_capacity and release_capacity hold the mutex from before their     *)
(* first read of the row to their save; the configuration is read and written *)
(* without it.  The repository is a trait: each access is an await, at which  *)
(* the call can be dropped (the guard then frees the mutex), and may fail; a  *)
(* save may be done and answered with an error.                              *)
(***************************************************************************)
EXTENDS Naturals, FiniteSets, FiniteSetsExt

CONSTANTS Calls,
          Rfqs,
          Instruments,
          Notional,       \* Notional[i]: what an RFQ for instrument i reserves
          Configs,        \* configurations an operator or an adjustment may save
          NoCall

None == "none"   \* no reservation

ASSUME CapacityAssumption ==
  /\ IsFiniteSet(Rfqs)
  /\ IsFiniteSet(Instruments) /\ None \notin Instruments
  /\ Notional \in [Instruments -> Nat \ {0}]
  /\ Configs # {}
  /\ Configs \subseteq [quotes : Nat \ {0}, notional : Nat, limit : [Instruments -> Nat]]
  /\ NoCall \notin Calls

VARIABLES row,       \* MmCapacityState in the repository
          config,    \* MmCapacityConfig in the repository
          mutex,     \* the call that holds the market maker's lock
          pc,        \* pc[c]: the await the call c is at
          task,      \* task[c]: what c was called for
          seen,      \* seen[c]: the configuration c has read
          copy       \* copy[c]: the row c is about to save

vars == <<row, config, mutex, pc, task, seen, copy>>

Tasks    == [what : {"reserve", "release"}, rfq : Rfqs, instrument : Instruments]
Awaits   == {"lock", "config", "check", "load", "save"}
CapacityStates ==
  [active : Nat, notional : Nat, usage : [Instruments -> Nat],
   reservations : [Rfqs -> Instruments \cup {None}]]

\* Nothing reserved.
Empty == [active |-> 0, notional |-> 0, usage |-> [i \in Instruments |-> 0],
          reservations |-> [r \in Rfqs |-> None]]

TypeOK == /\ row \in CapacityStates
          /\ config \in Configs
          /\ mutex \in Calls \cup {NoCall}
          /\ pc \in [Calls -> Awaits \cup {"idle", "done"}]
          /\ task \in [Calls -> Tasks]
          /\ seen \in [Calls -> Configs]
          /\ copy \in [Calls -> CapacityStates]

Init == /\ row = Empty
        /\ config \in Configs
        /\ mutex = NoCall
        /\ pc = [c \in Calls |-> "idle"]
        /\ task \in [Calls -> Tasks]
        /\ seen = [c \in Calls |-> config]
        /\ copy = [c \in Calls |-> Empty]
-----------------------------------------------------------------------------
(***************************************************************************)
(* The operations on the state.                                              *)
(***************************************************************************)
\* (a - b).max(ZERO)
Less(a, b) == IF a < b THEN 0 ELSE a - b

\* The counters without r's reservation, which is for instrument i.
Revert(s, i) == [s EXCEPT !.active = @ - 1,
                          !.notional = Less(@, Notional[i]),
                          !.usage[i] = Less(@, Notional[i])]

RemoveReservation(s, r) ==
  IF s.reservations[r] = None THEN s
  ELSE [Revert(s, s.reservations[r]) EXCEPT !.reservations[r] = None]

\* Mutant: a reservation made before is overwritten and stays in the counters.
AddReservationTwice(s, r, i) ==
  [s EXCEPT !.active = @ + 1, !.notional = @ + Notional[i], !.usage[i] = @ + Notional[i],
            !.reservations[r] = i]

\* A reservation made before for the same RFQ is taken out of the counters first.
AddReservation(s, r, i) ==
  LET base == IF s.reservations[r] = None THEN s ELSE Revert(s, s.reservations[r])
  IN  [base EXCEPT !.active = @ + 1, !.notional = @ + Notional[i], !.usage[i] = @ + Notional[i],
                   !.reservations[r] = i]

\* Mutant: the new notional is left out of the comparison.
AvailableBefore(s, k, i) ==
  /\ s.active < k.quotes
  /\ s.notional <= k.notional
  /\ s.usage[i] <= k.limit[i]

\* check_capacity, given the configuration and the state it has read.
Available(s, k, i) ==
  /\ s.active < k.quotes
  /\ s.notional + Notional[i] <= k.notional
  /\ s.usage[i] + Notional[i] <= k.limit[i]
-----------------------------------------------------------------------------
(***************************************************************************)
(* The calls.                                                                *)
(***************************************************************************)
Go(c, here, there) == pc[c] = here /\ pc' = [pc EXCEPT ![c] = there]

\* The call returns, and its guard frees the mutex.
Return(c) == /\ pc' = [pc EXCEPT ![c] = "done"]
             /\ mutex' = IF mutex = c THEN NoCall ELSE mutex

Call(c) == /\ Go(c, "idle", "lock")
           /\ UNCHANGED <<row, config, mutex, task, seen, copy>>

\* Mutant: the mutex is that of another map entry.
LockAnother(c) ==
  /\ Go(c, "lock", IF task[c].what = "reserve" THEN "config" ELSE "load")
  /\ UNCHANGED <<row, config, mutex, task, seen, copy>>

Lock(c) == /\ mutex = NoCall /\ mutex' = c
           /\ Go(c, "lock", IF task[c].what = "reserve" THEN "config" ELSE "load")
           /\ UNCHANGED <<row, config, task, seen, copy>>

ReadConfig(c) == /\ Go(c, "config", "check")
                 /\ seen' = [seen EXCEPT ![c] = config]
                 /\ UNCHANGED <<row, config, mutex, task, copy>>

CheckPasses(c) == /\ Available(row, seen[c], task[c].instrument)
                  /\ Go(c, "check", "load")
                  /\ UNCHANGED <<row, config, mutex, task, seen, copy>>

\* CapacityExceeded.
CheckExceeds(c) == /\ pc[c] = "check"
                   /\ ~Available(row, seen[c], task[c].instrument)
                   /\ Return(c)
                   /\ UNCHANGED <<row, config, task, seen, copy>>

\* The row is read once more and changed in memory; a release of nothing
\* returns None.
Load(c) ==
  LET r == task[c].rfq IN
  /\ pc[c] = "load"
  /\ IF task[c].what = "reserve"
       THEN /\ copy' = [copy EXCEPT ![c] = AddReservation(row, r, task[c].instrument)]
            /\ Go(c, "load", "save") /\ UNCHANGED mutex
       ELSE IF row.reservations[r] = None
              THEN Return(c) /\ UNCHANGED copy
              ELSE /\ copy' = [copy EXCEPT ![c] = RemoveReservation(row, r)]
                   /\ Go(c, "load", "save") /\ UNCHANGED mutex
  /\ UNCHANGED <<row, config, task, seen>>

\* save_state, and the event is returned.
Save(c) == /\ pc[c] = "save"
           /\ row' = copy[c]
           /\ Return(c)
           /\ UNCHANGED <<config, task, seen, copy>>

\* An access fails, or the call is dropped; a save may have been done.
Fails(c) == /\ pc[c] \in Awaits
            /\ row' = row \/ (pc[c] = "save" /\ row' = copy[c])
            /\ Return(c)
            /\ UNCHANGED <<config, task, seen, copy>>

\* update_config, or the save of adjust_capacity, whatever that had read.
SaveConfig == /\ config' \in Configs
              /\ UNCHANGED <<row, mutex, pc, task, seen, copy>>

Step(c) == \/ Call(c) \/ Lock(c) \/ ReadConfig(c) \/ CheckPasses(c) \/ CheckExceeds(c)
           \/ Load(c) \/ Save(c) \/ Fails(c)

Next == SaveConfig \/ \E c \in Calls : Step(c)

Spec == Init /\ [][Next]_vars
-----------------------------------------------------------------------------
(***************************************************************************)
(* The counters are the reservations: their number, their sum and their sums  *)
(* per instrument, after any interleaving of repeated reservations, releases  *)
(* and failed or lost saves.                                                 *)
(***************************************************************************)
Reserved(i) == {r \in Rfqs : row.reservations[r] = i}

CountersAreReservations ==
  /\ row.active = Cardinality({r \in Rfqs : row.reservations[r] # None})
  /\ \A i \in Instruments : row.usage[i] = Notional[i] * Cardinality(Reserved(i))
  /\ row.notional = MapThenSumSet(LAMBDA i : row.usage[i], Instruments)

(***************************************************************************)
(* What a reservation leaves in the row is within the configuration its call   *)
(* has read, although others reserve at the same time, reservations of the    *)
(* same RFQ are replaced, and the limits change before the save.             *)
(***************************************************************************)
ReservesWithinLimits ==
  [][\A c \in Calls :
       pc[c] = "save" /\ row' # row /\ pc'[c] = "done" /\ task[c].what = "reserve" =>
         LET i == task[c].instrument IN
         /\ row'.active <= seen[c].quotes
         /\ row'.notional <= seen[c].notional
         /\ row'.usage[i] <= seen[c].limit[i]]_vars

(***************************************************************************)
(* No update is lost: what a call saves differs from the row by its own        *)
(* reservation only.                                                         *)
(***************************************************************************)
NoLostUpdate ==
  [][\A r \in Rfqs :
       row'.reservations[r] # row.reservations[r] =>
         \E c \in Calls : pc[c] = "save" /\ pc'[c] = "done" /\ task[c].rfq = r]_vars

(***************************************************************************)
(* The calls, with their awaits, repeated reservations, failures and lost      *)
(* answers, implement the ledger that changes in single steps.               *)
(***************************************************************************)
Ledger == INSTANCE CapacityLedger
            WITH Limits <- Configs, book <- row.reservations, active <- row.active,
                 notional <- row.notional, usage <- row.usage

KeepsLedger == Ledger!Spec
=============================================================================
