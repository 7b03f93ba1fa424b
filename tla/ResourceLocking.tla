--------------------------- MODULE ResourceLocking ---------------------------
(***************************************************************************)
(* Locking several resources for one trade: SharedLockManager                *)
(* (src/domain/services/lock_manager.rs) used by AtomicMatcher               *)
(* (src/domain/services/atomic_matcher.rs).  acquire_all takes the locks one  *)
(* by one in the order of ResourceLock, retrying until its deadline;          *)
(* release_all gives them back in reverse; each single step holds the map's   *)
(* write lock, and every await lies between two steps.                        *)
(*                                                                         *)
(* A resource is its rank in that order.  Two entries of a request may have   *)
(* the same key in the lock map: an account named twice (the client is also   *)
(* the market maker), or instruments that differ in more than the symbol.     *)
(***************************************************************************)
EXTENDS TtlLocks

CONSTANTS Resources,   \* ranks
          Keys,
          Key,         \* lock_key: Key[r] is r's key in the map
          Requests,    \* sets of resources a caller may ask for
          Timeout      \* effective_timeout of an acquisition, in ticks

ASSUME ResourcesAssumption == /\ Resources \subseteq Nat
                              /\ Key \in [Resources -> Keys]
                              /\ Requests \subseteq SUBSET Resources
                              /\ Timeout \in Nat

VARIABLES locks,     \* locks[k]
          pc,        \* pc[p]: what the execution p is doing
          todo,      \* todo[p]: resources p has still to lock
          held,      \* held[p]: resources p has locked and not yet given back
          elapsed,   \* elapsed[p]: time since p started, up to Horizon
          outcome    \* outcome[p]: what became of p

vars == <<locks, pc, todo, held, elapsed, outcome>>

Horizon == LockTtl + Timeout
Phases  == {"idle", "acquire", "execute", "release", "rollback", "done"}
Working == Phases \ {"idle", "done"}

TypeOK == /\ locks \in [Keys -> Locks]
          /\ pc \in [Holders -> Phases]
          /\ todo \in [Holders -> SUBSET Resources]
          /\ held \in [Holders -> SUBSET Resources]
          /\ elapsed \in [Holders -> 0 .. Horizon]
          /\ outcome \in [Holders -> {"none", "returned", "refused", "lost"}]

Init == /\ locks = [k \in Keys |-> Free]
        /\ pc = [p \in Holders |-> "idle"]
        /\ todo = [p \in Holders |-> {}]
        /\ held = [p \in Holders |-> {}]
        /\ elapsed = [p \in Holders |-> 0]
        /\ outcome = [p \in Holders |-> "none"]

\* Mutant: the vector is not sorted.
FirstUnsorted(S, r) == r \in S
\* sort_locks: the locks are taken from the first to the last.
First(S, r) == r \in S /\ \A s \in S : r <= s
Last(S, r)  == r \in S /\ \A s \in S : s <= r

Go(p, there)           == pc' = [pc EXCEPT ![p] = there]
End(p, there, result)  == Go(p, there) /\ outcome' = [outcome EXCEPT ![p] = result]
-----------------------------------------------------------------------------
\* execute_with_locks begins; an empty list needs no lock.
Begin(p, want) ==
  /\ pc[p] = "idle"
  /\ todo' = [todo EXCEPT ![p] = want]
  /\ Go(p, IF want = {} THEN "execute" ELSE "acquire")
  /\ UNCHANGED <<locks, held, elapsed, outcome>>

\* Mutant: the holder of a live lock is not compared.
AcquireAnyway(p, r) ==
  /\ pc[p] = "acquire" /\ First(todo[p], r)
  /\ locks' = [locks EXCEPT ![Key[r]] = Taken(p)]
  /\ todo' = [todo EXCEPT ![p] = @ \ {r}]
  /\ held' = [held EXCEPT ![p] = @ \cup {r}]
  /\ Go(p, IF todo[p] = {r} THEN "execute" ELSE "acquire")
  /\ UNCHANGED <<elapsed, outcome>>

\* try_acquire_one succeeds for the next resource; after the last the guard is
\* made and the operation runs.
Acquire(p, r) ==
  /\ pc[p] = "acquire" /\ First(todo[p], r)
  /\ OpenTo(locks[Key[r]], p)
  /\ locks' = [locks EXCEPT ![Key[r]] = Taken(p)]
  /\ todo' = [todo EXCEPT ![p] = @ \ {r}]
  /\ held' = [held EXCEPT ![p] = @ \cup {r}]
  /\ Go(p, IF todo[p] = {r} THEN "execute" ELSE "acquire")
  /\ UNCHANGED <<elapsed, outcome>>

\* Mutant: the error is returned without giving the acquired locks back.
GiveUpKeeping(p, r) ==
  /\ pc[p] = "acquire" /\ First(todo[p], r)
  /\ ~OpenTo(locks[Key[r]], p) /\ elapsed[p] >= Timeout
  /\ End(p, "done", "refused")
  /\ UNCHANGED <<locks, todo, held, elapsed>>

\* The next resource is another's and the deadline has passed (before it, the
\* attempt is repeated after retry_interval).
GiveUp(p, r) ==
  /\ pc[p] = "acquire" /\ First(todo[p], r)
  /\ ~OpenTo(locks[Key[r]], p) /\ elapsed[p] >= Timeout
  /\ End(p, IF held[p] = {} THEN "done" ELSE "rollback", "refused")
  /\ UNCHANGED <<locks, todo, held, elapsed>>

\* release_one on r, the locks of others being left alone.
GiveBack(p, r, there) ==
  /\ locks' = [locks EXCEPT ![Key[r]] = IF @.holder = p THEN Free ELSE @]
  /\ held' = [held EXCEPT ![p] = @ \ {r}]
  /\ Go(p, IF held[p] = {r} THEN "done" ELSE there)
  /\ UNCHANGED <<todo, elapsed, outcome>>

\* A failed acquisition gives back what it took, first to last, errors ignored.
Rollback(p, r) == /\ pc[p] = "rollback" /\ First(held[p], r)
                  /\ GiveBack(p, r, "rollback")

\* The operation ends, with Ok or Err; the guard is released.
OperationEnds(p) ==
  /\ pc[p] = "execute"
  /\ End(p, IF held[p] = {} THEN "done" ELSE "release", "returned")
  /\ UNCHANGED <<locks, todo, held, elapsed>>

\* release_all, last to first.
Release(p, r) == /\ pc[p] = "release" /\ Last(held[p], r)
                 /\ OpenTo(locks[Key[r]], p)
                 /\ GiveBack(p, r, "release")

\* release_one refuses: release_all returns its error and does not go on.
ReleaseStops(p, r) ==
  /\ pc[p] = "release" /\ Last(held[p], r)
  /\ ~OpenTo(locks[Key[r]], p)
  /\ Go(p, "done")
  /\ UNCHANGED <<locks, todo, held, elapsed, outcome>>

\* The future is dropped.  There is no guard before the last lock is taken and
\* none that acts once its release has begun; in between, the guard's Drop
\* spawns the release.
Drop(p) ==
  /\ pc[p] \in Working
  /\ End(p, IF pc[p] = "execute" /\ held[p] # {} THEN "release" ELSE "done", "lost")
  /\ UNCHANGED <<locks, todo, held, elapsed>>

\* Mutant: locks do not expire.
TickForever ==
  /\ elapsed' = [p \in Holders |-> IF pc[p] \in Working /\ elapsed[p] < Horizon
                                     THEN elapsed[p] + 1 ELSE elapsed[p]]
  /\ UNCHANGED <<locks, pc, todo, held, outcome>>

Tick ==
  /\ locks' = [k \in Keys |-> Aged(locks[k])]
  /\ elapsed' = [p \in Holders |-> IF pc[p] \in Working /\ elapsed[p] < Horizon
                                     THEN elapsed[p] + 1 ELSE elapsed[p]]
  /\ UNCHANGED <<pc, todo, held, outcome>>

Step(p) == \/ \E want \in Requests : Begin(p, want)
           \/ \E r \in Resources : \/ Acquire(p, r) \/ GiveUp(p, r) \/ Rollback(p, r)
                                   \/ Release(p, r) \/ ReleaseStops(p, r)
           \/ OperationEnds(p) \/ Drop(p)

Next == Tick \/ \E p \in Holders : Step(p)

Spec == Init /\ [][Next]_vars

\* Time goes on; operations and callers may take for ever.
FairSpec == Spec /\ WF_vars(Tick)
-----------------------------------------------------------------------------
(***************************************************************************)
(* Until the time to live has passed since it began, an execution holds every *)
(* lock it took and has not given back, those it took first included.  (For   *)
(* requests whose resources have different keys.)                             *)
(***************************************************************************)
YoungHoldAll ==
  \A p \in Holders : \A r \in held[p] :
    pc[p] \in Working /\ elapsed[p] < LockTtl =>
      /\ locks[Key[r]].holder = p
      /\ locks[Key[r]].left + elapsed[p] >= LockTtl

\* All the locks a request needs, while its operation runs.
KeysOf(p) == {Key[r] : r \in held[p]}

(***************************************************************************)
(* Two operations on a common resource run at once only if one of them has    *)
(* outlived its locks.                                                       *)
(***************************************************************************)
OverlapOnlyAfterTtl ==
  \A p, o \in Holders :
    /\ p # o /\ pc[p] = "execute" /\ pc[o] = "execute"
    /\ KeysOf(p) \cap KeysOf(o) # {}
    => elapsed[p] >= LockTtl \/ elapsed[o] >= LockTtl

(***************************************************************************)
(* The fixed order prevents deadlock: among any executions, one waits for    *)
(* none of the others, so no group can only be ended by its timeouts.        *)
(***************************************************************************)
WaitsFor(p, o) ==
  /\ pc[p] = "acquire" /\ p # o
  /\ \E r \in todo[p] : First(todo[p], r) /\ locks[Key[r]].holder = o

NoCircularWait ==
  \A S \in (SUBSET Holders) \ {{}} : \E p \in S : \A o \in S : ~WaitsFor(p, o)

(***************************************************************************)
(* An execution that ended leaves no lock behind: neither an acquisition     *)
(* that failed half way ("all acquired locks are released and an error is     *)
(* returned") nor an operation that returned ("locks are always released,    *)
(* even if an error occurs").                                                *)
(***************************************************************************)
EndedHoldNothing ==
  \A p \in Holders, k \in Keys :
    pc[p] = "done" /\ outcome[p] \in {"returned", "refused"} => locks[k].holder # p

(***************************************************************************)
(* A lock is lost only by expiry or by its own holder's release or rollback.  *)
(***************************************************************************)
OnlyHolderReleases ==
  [][\A k \in Keys, p \in Holders :
       locks[k].holder = p /\ locks'[k].holder # p =>
         locks[k].left <= 1 \/ pc[p] \in {"release", "rollback"}]_vars

\* Every lock ends, also one whose owner was dropped before it had a guard.
LocksEnd == \A k \in Keys, p \in Holders : locks[k].holder = p ~> locks[k].holder # p
=============================================================================
