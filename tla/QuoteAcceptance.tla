--------------------------- MODULE QuoteAcceptance ---------------------------
(***************************************************************************)
(* The acceptance of quotes: calls of AcceptanceFlow::accept                 *)
(* (src/domain/services/acceptance_flow.rs) that share the quote locks of     *)
(* InMemoryQuoteLockRepository.  A call locks its quote, asks for a risk      *)
(* check and a last look, executes and releases; the lock expires by itself, *)
(* and the deadline of the call is looked at between the steps only.          *)
(*                                                                         *)
(* A holder is one call (accept draws a fresh LockHolderId).  The risk,       *)
(* last-look and execution services are outside: they answer whenever they   *)
(* like or never.  A call may be dropped at any await.                        *)
(***************************************************************************)
EXTENDS TtlLocks

CONSTANTS Quotes,
          NoQuote,
          TotalTimeout    \* AcceptanceFlowConfig::total_timeout, in ticks

ASSUME AcceptanceAssumption == NoQuote \notin Quotes /\ TotalTimeout \in Nat

VARIABLES locks,     \* locks[q]
          pc,        \* pc[p]: the step call p is at
          quote,     \* quote[p]: the quote p accepts
          elapsed,   \* elapsed[p]: time since p started, up to Horizon
          outcome    \* outcome[p]: what accept returned

vars == <<locks, pc, quote, elapsed, outcome>>

\* Nothing depends on how much longer than this a call has run.
Horizon == LockTtl + TotalTimeout

Holding == {"risk", "riskWait", "lastLook", "lastLookWait", "start", "execute", "release"}
Steps   == Holding \cup {"idle", "lock", "done"}
Dropped == {"lock", "riskWait", "lastLookWait", "execute", "release"}

TypeOK == /\ locks \in [Quotes -> Locks]
          /\ pc \in [Holders -> Steps]
          /\ quote \in [Holders -> Quotes \cup {NoQuote}]
          /\ elapsed \in [Holders -> 0 .. Horizon]
          /\ outcome \in [Holders -> {"none", "trade", "refused", "timeout", "lost"}]
          /\ \A p \in Holders : pc[p] # "idle" => quote[p] \in Quotes

Init == /\ locks = [q \in Quotes |-> Free]
        /\ pc = [p \in Holders |-> "idle"]
        /\ quote = [p \in Holders |-> NoQuote]
        /\ elapsed = [p \in Holders |-> 0]
        /\ outcome = [p \in Holders |-> "none"]

\* is_timed_out
InTime(p) == elapsed[p] < TotalTimeout

Go(p, here, there) == pc[p] = here /\ pc' = [pc EXCEPT ![p] = there]
End(p, there, result) == /\ pc' = [pc EXCEPT ![p] = there]
                         /\ outcome' = [outcome EXCEPT ![p] = result]
-----------------------------------------------------------------------------
Call(p, q) == /\ pc[p] = "idle"
              /\ quote' = [quote EXCEPT ![p] = q]
              /\ IF InTime(p)
                   THEN pc' = [pc EXCEPT ![p] = "lock"] /\ UNCHANGED outcome
                   ELSE End(p, "done", "timeout")
              /\ UNCHANGED <<locks, elapsed>>

Lock(p) == /\ Go(p, "lock", "risk")
           /\ OpenTo(locks[quote[p]], p)
           /\ locks' = [locks EXCEPT ![quote[p]] = Taken(p)]
           /\ UNCHANGED <<quote, elapsed, outcome>>

\* QuoteLocked: accept returns before it holds anything.
Locked(p) == /\ pc[p] = "lock" /\ ~OpenTo(locks[quote[p]], p)
             /\ End(p, "done", "refused")
             /\ UNCHANGED <<locks, quote, elapsed>>

RequestRisk(p) == /\ Go(p, "risk", "riskWait") /\ InTime(p)
                  /\ UNCHANGED <<locks, quote, elapsed, outcome>>

RiskApproved(p) == /\ Go(p, "riskWait", "lastLook")
                   /\ UNCHANGED <<locks, quote, elapsed, outcome>>

\* The market maker requires no last look and the config skips it then.
SkipLastLook(p) == /\ Go(p, "lastLook", "start")
                   /\ UNCHANGED <<locks, quote, elapsed, outcome>>

RequestLastLook(p) == /\ Go(p, "lastLook", "lastLookWait") /\ InTime(p)
                      /\ UNCHANGED <<locks, quote, elapsed, outcome>>

LastLookConfirmed(p) == /\ Go(p, "lastLookWait", "start")
                        /\ UNCHANGED <<locks, quote, elapsed, outcome>>

\* Mutant: no deadline check before the execution.
StartExecutionLate(p) == /\ Go(p, "start", "execute")
                         /\ UNCHANGED <<locks, quote, elapsed, outcome>>

StartExecution(p) == /\ Go(p, "start", "execute") /\ InTime(p)
                     /\ UNCHANGED <<locks, quote, elapsed, outcome>>

\* The check before one of the three steps finds the deadline passed.
TimedOut(p) == /\ pc[p] \in {"risk", "lastLook", "start"} /\ ~InTime(p)
               /\ End(p, "release", "timeout")
               /\ UNCHANGED <<locks, quote, elapsed>>

\* Risk check, last look or executor says no; a last look may also time out.
Refused(p) == /\ pc[p] \in {"riskWait", "lastLookWait", "execute"}
              /\ End(p, "release", "refused")
              /\ UNCHANGED <<locks, quote, elapsed>>

Executed(p) == /\ pc[p] = "execute" /\ End(p, "release", "trade")
               /\ UNCHANGED <<locks, quote, elapsed>>

\* Mutant: the holder of the lock is not compared.
ReleaseAny(p) == /\ Go(p, "release", "done")
                 /\ locks' = [locks EXCEPT ![quote[p]] = Free]
                 /\ UNCHANGED <<quote, elapsed, outcome>>

\* Removes the lock only if it is still this call's; an error is ignored.
Release(p) == /\ Go(p, "release", "done")
              /\ locks' = [locks EXCEPT ![quote[p]] = IF @.holder = p THEN Free ELSE @]
              /\ UNCHANGED <<quote, elapsed, outcome>>

\* The future of the call is dropped at an await; nothing releases the lock.
Drop(p) == /\ pc[p] \in Dropped
           /\ End(p, "done", IF pc[p] = "release" THEN outcome[p] ELSE "lost")
           /\ UNCHANGED <<locks, quote, elapsed>>

\* Mutant: locks do not expire.
TickForever ==
  /\ elapsed' = [p \in Holders |-> IF pc[p] \notin {"idle", "done"} /\ elapsed[p] < Horizon
                                     THEN elapsed[p] + 1 ELSE elapsed[p]]
  /\ UNCHANGED <<locks, pc, quote, outcome>>

Tick ==
  /\ locks' = [q \in Quotes |-> Aged(locks[q])]
  /\ elapsed' = [p \in Holders |-> IF pc[p] \notin {"idle", "done"} /\ elapsed[p] < Horizon
                                     THEN elapsed[p] + 1 ELSE elapsed[p]]
  /\ UNCHANGED <<pc, quote, outcome>>

Step(p) == \/ \E q \in Quotes : Call(p, q)
           \/ Lock(p) \/ Locked(p) \/ RequestRisk(p) \/ RiskApproved(p)
           \/ SkipLastLook(p) \/ RequestLastLook(p) \/ LastLookConfirmed(p)
           \/ StartExecution(p) \/ TimedOut(p) \/ Refused(p) \/ Executed(p)
           \/ Release(p) \/ Drop(p)

Next == Tick \/ \E p \in Holders : Step(p)

Spec == Init /\ [][Next]_vars

\* Time goes on; nothing is assumed of the services or of the callers.
FairSpec == Spec /\ WF_vars(Tick)
-----------------------------------------------------------------------------
(***************************************************************************)
(* A call that has not outlived the time to live of its lock holds it,       *)
(* whatever the other calls did meanwhile: this is what makes the lock a      *)
(* lock, and the inductive invariant behind the properties below.            *)
(***************************************************************************)
YoungCallsHold ==
  \A p \in Holders :
    pc[p] \in Holding /\ elapsed[p] < LockTtl =>
      /\ locks[quote[p]].holder = p
      /\ locks[quote[p]].left + elapsed[p] >= LockTtl

(***************************************************************************)
(* Two calls execute the same quote at once only if one of them has outlived *)
(* its lock.                                                                 *)
(***************************************************************************)
OverlapOnlyAfterTtl ==
  \A p, o \in Holders :
    p # o /\ pc[p] = "execute" /\ pc[o] = "execute" /\ quote[p] = quote[o] =>
      elapsed[p] >= LockTtl \/ elapsed[o] >= LockTtl

(***************************************************************************)
(* When the total timeout is no longer than the time to live, an execution   *)
(* never starts without the lock: the check before the execution is enough.  *)
(***************************************************************************)
ExecutionStartsLocked ==
  [][\A p \in Holders : pc[p] = "start" /\ pc'[p] = "execute" =>
       locks[quote[p]].holder = p]_vars

(***************************************************************************)
(* A lock is lost only by its holder's release or by expiry; a call that     *)
(* comes back after its lock expired does not release its successor's.       *)
(***************************************************************************)
OnlyHolderReleases ==
  [][\A q \in Quotes, p \in Holders :
       locks[q].holder = p /\ locks'[q].holder # p =>
         locks[q].left <= 1 \/ (pc[p] = "release" /\ pc'[p] = "done")]_vars

(***************************************************************************)
(* Every lock ends, even one whose call was dropped or never gets an answer  *)
(* ("automatically expires after its TTL to prevent deadlocks").             *)
(***************************************************************************)
LocksEnd == \A q \in Quotes, p \in Holders : locks[q].holder = p ~> locks[q].holder # p
=============================================================================
