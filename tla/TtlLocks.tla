------------------------------ MODULE TtlLocks ------------------------------
(***************************************************************************)
(* Locks that expire: QuoteLock (src/domain/services/quote_lock.rs) and      *)
(* LockInfo (src/domain/services/lock_manager.rs).  Both keep a holder and    *)
(* an expiry time; here the time left is counted down by the clock, and an   *)
(* expired entry is the same as none, because every operation of both         *)
(* services treats it so (cleanup_expired then changes nothing).             *)
(***************************************************************************)
EXTENDS Naturals

CONSTANTS Holders,    \* LockHolderId, one per attempt to lock
          NoHolder,
          LockTtl     \* time to live of a new lock, in ticks

ASSUME TtlAssumption == NoHolder \notin Holders /\ LockTtl \in Nat \ {0}

Locks == [holder : Holders \cup {NoHolder}, left : 0 .. LockTtl]

Free     == [holder |-> NoHolder, left |-> 0]
Taken(h) == [holder |-> h, left |-> LockTtl]

\* Nobody else holds a live lock: the test of both lock operations.
OpenTo(l, h) == l.holder \in {NoHolder, h}

\* One tick later; is_expired holds as soon as no time is left.
Aged(l) == IF l.left <= 1 THEN Free ELSE [l EXCEPT !.left = @ - 1]
=============================================================================
