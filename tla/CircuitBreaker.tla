--------------------------- MODULE CircuitBreaker ---------------------------
(***************************************************************************)
(* The circuit breaker of a venue                                            *)
(* (src/application/services/circuit_breaker.rs), shared by the calls to it.  *)
(* A call asks can_execute and, when it is admitted, ends with record_success *)
(* or record_failure.  Each of these reads the state and acts on what it      *)
(* read, in several atomic steps, so calls interleave inside them.            *)
(*                                                                         *)
(* A transition_to_* is one step: it holds the write lock of the state while  *)
(* it sets the counters, and between two reads of the state another call      *)
(* touches only one of the variables it sets, so its access can be moved      *)
(* before or after the transition.                                           *)
(***************************************************************************)
EXTENDS Naturals, FiniteSets

CONSTANTS Callers,              \* threads that call the venue, over and over
          FailureThreshold,     \* CircuitBreakerConfig
          SuccessThreshold,
          HalfOpenMaxRequests

ASSUME ConfigAssumption ==
  /\ {FailureThreshold, SuccessThreshold, HalfOpenMaxRequests} \subseteq Nat \ {0}
  /\ IsFiniteSet(Callers)

VARIABLES state,               \* CircuitState
          failure_count,
          success_count,
          half_open_requests,
          opened_at,           \* "none", or whether reset_timeout has passed since
          at                   \* at[c]: the step the call c is at

counters    == <<failure_count, success_count, half_open_requests>>
breakerVars == <<state, counters, opened_at, at>>

States == {"Closed", "Open", "HalfOpen"}
\* What the caller is at: "lapsed" and "first" are in the Open arm of can_execute,
\* "load" and "count" in its HalfOpen arm, "calling" is the admitted request;
\* the others name the arm of record_success or record_failure it is in.
Steps == {"idle", "lookup", "lapsed", "first", "load", "count", "calling",
          "success", "heal", "close", "failure", "trip"}

BreakerTypeOK ==
  /\ state \in States
  /\ failure_count \in Nat /\ success_count \in Nat /\ half_open_requests \in Nat
  /\ opened_at \in {"none", "recent", "elapsed"}
  /\ at \in [Callers -> Steps]

BreakerInit == /\ state = "Closed"
               /\ failure_count = 0 /\ success_count = 0 /\ half_open_requests = 0
               /\ opened_at = "none"
               /\ at = [c \in Callers |-> "idle"]

Advance(c, here, there) == at[c] = here /\ at' = [at EXCEPT ![c] = there]
-----------------------------------------------------------------------------
(***************************************************************************)
(* The transitions.                                                          *)
(***************************************************************************)
\* Mutant: the instant is not stored.
ToOpenUntimed == /\ state' = "Open"
                 /\ success_count' = 0 /\ half_open_requests' = 0
                 /\ UNCHANGED <<failure_count, opened_at>>

ToOpen == /\ state' = "Open"
          /\ success_count' = 0 /\ half_open_requests' = 0
          /\ opened_at' = "recent"
          /\ UNCHANGED failure_count

\* Mutant: the requests of the previous half-open period count on.
ToHalfOpenKeeping == /\ state' = "HalfOpen"
                     /\ success_count' = 0
                     /\ UNCHANGED <<failure_count, half_open_requests, opened_at>>

ToHalfOpen == /\ state' = "HalfOpen"
              /\ success_count' = 0 /\ half_open_requests' = 0
              /\ UNCHANGED <<failure_count, opened_at>>

ToClosed == /\ state' = "Closed"
            /\ failure_count' = 0 /\ success_count' = 0 /\ half_open_requests' = 0
            /\ opened_at' = "none"
-----------------------------------------------------------------------------
(***************************************************************************)
(* can_execute.                                                              *)
(***************************************************************************)
\* The state is read; a closed breaker admits.
ReadState(c) ==
  /\ Advance(c, "idle", CASE state = "Closed"   -> "calling"
                          [] state = "Open"     -> "lookup"
                          [] state = "HalfOpen" -> "load")
  /\ UNCHANGED <<state, counters, opened_at>>

\* should_transition_to_half_open, on the opened_at of the moment.
CheckElapsed(c) ==
  /\ Advance(c, "lookup", IF opened_at = "elapsed" THEN "lapsed" ELSE "idle")
  /\ UNCHANGED <<state, counters, opened_at>>

BecomeHalfOpen(c) == Advance(c, "lapsed", "first") /\ ToHalfOpen

CountFirst(c) == /\ Advance(c, "first", "calling")
                 /\ half_open_requests' = half_open_requests + 1
                 /\ UNCHANGED <<state, failure_count, success_count, opened_at>>

LoadRequests(c) ==
  /\ Advance(c, "load", IF half_open_requests < HalfOpenMaxRequests THEN "count" ELSE "idle")
  /\ UNCHANGED <<state, counters, opened_at>>

CountRequest(c) == /\ Advance(c, "count", "calling")
                   /\ half_open_requests' = half_open_requests + 1
                   /\ UNCHANGED <<state, failure_count, success_count, opened_at>>
-----------------------------------------------------------------------------
(***************************************************************************)
(* record_success and record_failure: the state is read, then the arm taken. *)
(***************************************************************************)
Succeed(c) ==
  /\ Advance(c, "calling", CASE state = "Closed"   -> "success"
                             [] state = "HalfOpen" -> "heal"
                             [] state = "Open"     -> "idle")
  /\ UNCHANGED <<state, counters, opened_at>>

ResetFailures(c) == /\ Advance(c, "success", "idle")
                    /\ failure_count' = 0
                    /\ UNCHANGED <<state, success_count, half_open_requests, opened_at>>

\* Mutant: the success is added and the threshold compared with the old count.
CountSuccessLate(c) ==
  /\ Advance(c, "heal", IF success_count >= SuccessThreshold THEN "close" ELSE "idle")
  /\ success_count' = success_count + 1
  /\ UNCHANGED <<state, failure_count, half_open_requests, opened_at>>

CountSuccess(c) ==
  /\ Advance(c, "heal", IF success_count + 1 >= SuccessThreshold THEN "close" ELSE "idle")
  /\ success_count' = success_count + 1
  /\ UNCHANGED <<state, failure_count, half_open_requests, opened_at>>

BecomeClosed(c) == Advance(c, "close", "idle") /\ ToClosed

Fail(c) ==
  /\ Advance(c, "calling", CASE state = "Closed"   -> "failure"
                             [] state = "HalfOpen" -> "trip"
                             [] state = "Open"     -> "idle")
  /\ UNCHANGED <<state, counters, opened_at>>

CountFailure(c) ==
  /\ Advance(c, "failure", IF failure_count + 1 >= FailureThreshold THEN "trip" ELSE "idle")
  /\ failure_count' = failure_count + 1
  /\ UNCHANGED <<state, success_count, half_open_requests, opened_at>>

BecomeOpen(c) == Advance(c, "trip", "idle") /\ ToOpen
-----------------------------------------------------------------------------
\* reset(), called by an operator.
Reset == ToClosed /\ UNCHANGED at

\* reset_timeout passes.
TimeoutPasses == /\ opened_at = "recent" /\ opened_at' = "elapsed"
                 /\ UNCHANGED <<state, counters, at>>

BreakerStep(c) ==
  \/ ReadState(c) \/ CheckElapsed(c) \/ BecomeHalfOpen(c) \/ CountFirst(c)
  \/ LoadRequests(c) \/ CountRequest(c)
  \/ Succeed(c) \/ ResetFailures(c) \/ CountSuccess(c) \/ BecomeClosed(c)
  \/ Fail(c) \/ CountFailure(c) \/ BecomeOpen(c)

BreakerNext == TimeoutPasses \/ Reset \/ \E c \in Callers : BreakerStep(c)

BreakerSpec == BreakerInit /\ [][BreakerNext]_breakerVars

\* Callers keep coming and every admitted call records how it ended; time passes.
FairBreakerSpec == /\ BreakerSpec
                   /\ WF_breakerVars(TimeoutPasses)
                   /\ \A c \in Callers : WF_breakerVars(BreakerStep(c))
-----------------------------------------------------------------------------
(***************************************************************************)
(* The counters of a half-open period overshoot by concurrent calls only:     *)
(* the comparison and the addition are separate, and the first request is     *)
(* admitted without one, but every thread is between them at most once.       *)
(***************************************************************************)
HalfOpenOvershoot ==
  /\ half_open_requests < HalfOpenMaxRequests + Cardinality(Callers)
  /\ success_count < SuccessThreshold + Cardinality(Callers)
  /\ failure_count < FailureThreshold + Cardinality(Callers)

(***************************************************************************)
(* The breaker never stays open or half-open for ever, whichever answers were *)
(* counted in another period than they belong to: the requests a half-open    *)
(* period admits suffice to end it.  This needs as many of them as successes  *)
(* to close; aggressive(), with one and two, does not satisfy it.            *)
(***************************************************************************)
Recovers == \A s \in {"Open", "HalfOpen"} : state = s ~> state # s
=============================================================================
