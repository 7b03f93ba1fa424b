---------------------------- MODULE CapacityLedger ---------------------------
(***************************************************************************)
(* What a market maker's capacity promises: a ledger of reservations that     *)
(* changes by one reservation or one release at a time, whose counters are    *)
(* those of its entries, and in which a reservation is made only within       *)
(* limits that were set.  There are no calls here, no mutex, no second read    *)
(* and no failure.                                                           *)
(***************************************************************************)
EXTENDS Naturals, FiniteSets, FiniteSetsExt

CONSTANTS Rfqs, Instruments, Notional, None,
          Limits      \* the limits an operator may set

VARIABLES book,       \* book[r]: the instrument r has a reservation for, or None
          active, notional, usage

ledgerVars == <<book, active, notional, usage>>

Sum(u) == MapThenSumSet(LAMBDA i : u[i], Instruments)

Derived ==
  /\ active = Cardinality({r \in Rfqs : book[r] # None})
  /\ usage = [i \in Instruments |-> Notional[i] * Cardinality({r \in Rfqs : book[r] = i})]
  /\ notional = Sum(usage)

Init == book = [r \in Rfqs |-> None] /\ Derived

Reserve(r, i) == /\ book' = [book EXCEPT ![r] = i]
                 /\ Derived'
                 /\ \E k \in Limits : /\ active' <= k.quotes
                                      /\ notional' <= k.notional
                                      /\ usage'[i] <= k.limit[i]

Release(r) == /\ book[r] # None
              /\ book' = [book EXCEPT ![r] = None]
              /\ Derived'

Next == \E r \in Rfqs : Release(r) \/ \E i \in Instruments : Reserve(r, i)

Spec == Init /\ [][Next]_ledgerVars
=============================================================================
