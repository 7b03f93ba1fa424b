--------------------------- MODULE AdmissionProofs ---------------------------
(***************************************************************************)
(* Theorems about the two components that admit a call by comparing a counter *)
(* with a limit: CircuitBreaker, for any callers and thresholds, and          *)
(* CapacityManager, for any calls, RFQs, instruments and configurations.     *)
(***************************************************************************)
EXTENDS CircuitBreaker, CapacityManager, FiniteSetTheorems, WellFoundedInduction, TLAPS

(***************************************************************************)
(* 1. How many elements of D are mapped into S.                              *)
(***************************************************************************)
Among(D, f, S) == {d \in D : f[d] \in S}
HowMany(D, f, S) == Cardinality(Among(D, f, S))

LEMMA HowManyType ==
  ASSUME NEW D, IsFiniteSet(D), NEW f, NEW S
  PROVE  /\ IsFiniteSet(Among(D, f, S))
         /\ HowMany(D, f, S) \in Nat
         /\ Cardinality(D) \in Nat /\ HowMany(D, f, S) <= Cardinality(D)
<1>1. Among(D, f, S) \in SUBSET D
  BY DEF Among
<1>2. QED
  BY <1>1, FS_Subset, FS_CardinalityType DEF HowMany

LEMMA HowManyNone ==
  ASSUME NEW D, NEW f, NEW S, \A d \in D : f[d] \notin S
  PROVE  HowMany(D, f, S) = 0
<1>1. Among(D, f, S) = {}
  BY DEF Among
<1>2. QED
  BY <1>1, FS_EmptySet DEF HowMany

\* f and g differ at d only: what that does to the number.
LEMMA HowManyGains ==
  ASSUME NEW D, IsFiniteSet(D), NEW f, NEW g, NEW d \in D,
         \A e \in D \ {d} : g[e] = f[e], NEW S, g[d] \in S, f[d] \notin S
  PROVE  HowMany(D, g, S) = HowMany(D, f, S) + 1
<1>1. Among(D, g, S) = Among(D, f, S) \cup {d} /\ d \notin Among(D, f, S)
  BY DEF Among
<1>2. IsFiniteSet(Among(D, f, S))
  BY HowManyType
<1>3. QED
  BY <1>1, <1>2, FS_AddElement DEF HowMany

LEMMA HowManyKeeps ==
  ASSUME NEW D, NEW f, NEW g, NEW d \in D,
         \A e \in D \ {d} : g[e] = f[e], NEW S, g[d] \in S <=> f[d] \in S
  PROVE  HowMany(D, g, S) = HowMany(D, f, S)
<1>1. Among(D, g, S) = Among(D, f, S)
  BY DEF Among
<1>2. QED
  BY <1>1 DEF HowMany

LEMMA HowManyMoved ==
  ASSUME NEW D, IsFiniteSet(D), NEW f, NEW g, NEW d \in D,
         \A e \in D \ {d} : g[e] = f[e], NEW S
  PROVE  /\ g[d] \in S /\ f[d] \notin S => HowMany(D, g, S) = HowMany(D, f, S) + 1
         /\ g[d] \notin S /\ f[d] \in S => HowMany(D, g, S) = HowMany(D, f, S) - 1
         /\ (g[d] \in S <=> f[d] \in S) => HowMany(D, g, S) = HowMany(D, f, S)
<1>1. CASE g[d] \in S /\ f[d] \notin S
  BY <1>1, HowManyGains
<1>2. CASE g[d] \notin S /\ f[d] \in S
  <2>1. \A e \in D \ {d} : f[e] = g[e]
    OBVIOUS
  <2>2. HowMany(D, f, S) = HowMany(D, g, S) + 1
    BY <1>2, <2>1, HowManyGains
  <2>3. HowMany(D, g, S) \in Nat
    BY HowManyType
  <2>4. QED
    BY <1>2, <2>2, <2>3
<1>3. CASE g[d] \in S <=> f[d] \in S
  BY <1>3, HowManyKeeps
<1>4. QED
  BY <1>1, <1>2, <1>3

\* An element is mapped into at most one of two disjoint sets.
LEMMA HowManyApart ==
  ASSUME NEW D, IsFiniteSet(D), NEW f, NEW S, NEW T, S \cap T = {}
  PROVE  HowMany(D, f, S) + HowMany(D, f, T) <= Cardinality(D)
<1>1. IsFiniteSet(Among(D, f, S)) /\ IsFiniteSet(Among(D, f, T))
  BY HowManyType
<1>2. Among(D, f, S) \cap Among(D, f, T) = {}
  BY DEF Among
<1>3. Among(D, f, S) \cup Among(D, f, T) \in SUBSET D
  BY DEF Among
<1>4. Cardinality(Among(D, f, S) \cup Among(D, f, T)) = HowMany(D, f, S) + HowMany(D, f, T)
  <2>1. Cardinality(Among(D, f, S) \cup Among(D, f, T)) =
          Cardinality(Among(D, f, S)) + Cardinality(Among(D, f, T)) - Cardinality({})
    BY <1>1, <1>2, FS_Union
  <2>2. QED
    BY <2>1, FS_EmptySet, HowManyType DEF HowMany
<1>5. QED
  BY <1>3, <1>4, FS_Subset

-----------------------------------------------------------------------------
(***************************************************************************)
(* 2. The circuit breaker.  A counter exceeds its limit by the callers that   *)
(* are past the comparison, or past the read of the state that led them to an *)
(* addition without one.  failure_count outlives the transition that a full   *)
(* counter causes, so there the callers still to add are counted in every     *)
(* state, and those still to open the breaker while it is closed.            *)
(***************************************************************************)
CallersAt(S) == HowMany(Callers, at, S)

Admitting == half_open_requests + CallersAt({"first", "count"})
               < HalfOpenMaxRequests + Cardinality(Callers)
Healing   == success_count < SuccessThreshold + CallersAt({"close"})
Failing   == /\ failure_count + CallersAt({"failure"}) < FailureThreshold + Cardinality(Callers)
             /\ state = "Closed" => failure_count < FailureThreshold + CallersAt({"trip"})

BreakerInv == BreakerTypeOK /\ Admitting /\ Healing /\ Failing

LEMMA CallersAtType ==
  /\ Cardinality(Callers) \in Nat
  /\ \A S : /\ CallersAt(S) \in Nat /\ CallersAt(S) <= Cardinality(Callers)
            /\ CallersAt(S)' \in Nat /\ CallersAt(S)' <= Cardinality(Callers)
BY HowManyType, ConfigAssumption DEF CallersAt

\* A step of c moves c alone.
LEMMA Moved ==
  ASSUME BreakerTypeOK, NEW c \in Callers, NEW here \in Steps, NEW there \in Steps,
         Advance(c, here, there)
  PROVE  /\ at' \in [Callers -> Steps]
         /\ \A S : /\ there \in S /\ here \notin S => CallersAt(S)' = CallersAt(S) + 1
                   /\ there \notin S /\ here \in S => CallersAt(S)' = CallersAt(S) - 1
                   /\ (there \in S <=> here \in S) => CallersAt(S)' = CallersAt(S)
<1>1. at \in [Callers -> Steps] /\ at[c] = here /\ at' = [at EXCEPT ![c] = there]
  BY DEF BreakerTypeOK, Advance
<1>2. IsFiniteSet(Callers)
  BY ConfigAssumption
<1>3. ASSUME NEW S
      PROVE  /\ there \in S /\ here \notin S => CallersAt(S)' = CallersAt(S) + 1
             /\ there \notin S /\ here \in S => CallersAt(S)' = CallersAt(S) - 1
             /\ (there \in S <=> here \in S) => CallersAt(S)' = CallersAt(S)
  <2>1. at'[c] = there /\ \A e \in Callers \ {c} : at'[e] = at[e]
    BY <1>1
  <2>2. /\ at'[c] \in S /\ at[c] \notin S => HowMany(Callers, at', S) = HowMany(Callers, at, S) + 1
        /\ at'[c] \notin S /\ at[c] \in S => HowMany(Callers, at', S) = HowMany(Callers, at, S) - 1
        /\ (at'[c] \in S <=> at[c] \in S) => HowMany(Callers, at', S) = HowMany(Callers, at, S)
    BY <1>2, <2>1, HowManyMoved
  <2>3. QED
    BY <1>1, <2>1, <2>2 DEF CallersAt
<1>4. QED
  BY <1>1, <1>3

LEMMA BreakerInitHolds == BreakerInit => BreakerInv
<1> SUFFICES ASSUME BreakerInit PROVE BreakerInv
  OBVIOUS
<1>1. BreakerTypeOK
  BY DEF BreakerInit, BreakerTypeOK, States, Steps
<1>2. \A S : "idle" \notin S => CallersAt(S) = 0
  BY HowManyNone DEF BreakerInit, CallersAt
<1>3. CallersAt({"first", "count"}) = 0 /\ CallersAt({"close"}) = 0
      /\ CallersAt({"failure"}) = 0 /\ CallersAt({"trip"}) = 0
  BY <1>2
<1>4. QED
  BY <1>1, <1>3, CallersAtType, ConfigAssumption
     DEF BreakerInit, BreakerInv, Admitting, Healing, Failing

\* Counters that were set to zero are within their bounds.
LEMMA ZeroBounds ==
  /\ CallersAt({"first", "count"})' < HalfOpenMaxRequests + Cardinality(Callers)
  /\ 0 < SuccessThreshold + CallersAt({"close"})'
  /\ CallersAt({"failure"})' < FailureThreshold + Cardinality(Callers)
  /\ 0 < FailureThreshold + CallersAt({"trip"})'
BY CallersAtType, ConfigAssumption

\* A step that leaves the counters and the state alone.
LEMMA QuietStep ==
  ASSUME BreakerInv, NEW c \in Callers,
         \/ ReadState(c) \/ CheckElapsed(c) \/ LoadRequests(c) \/ Succeed(c) \/ Fail(c)
  PROVE  BreakerInv'
<1> USE DEF BreakerInv
<1>1. UNCHANGED <<state, counters, opened_at>>
  BY DEF ReadState, CheckElapsed, LoadRequests, Succeed, Fail
<1>2. PICK here \in Steps, there \in Steps :
        /\ Advance(c, here, there)
        /\ here \in {"idle", "lookup", "load", "calling"}
        /\ there \in {"idle", "calling", "lookup", "load", "lapsed", "count",
                      "success", "heal", "failure", "trip"}
        /\ there = "count" => half_open_requests < HalfOpenMaxRequests
        /\ there = "failure" => state = "Closed"
  <2>1. state \in {"Closed", "Open", "HalfOpen"}
    BY DEF BreakerTypeOK, States
  <2>2. CASE ReadState(c)
    BY <2>1, <2>2 DEF ReadState, Steps
  <2>3. CASE CheckElapsed(c)
    BY <2>3 DEF CheckElapsed, Steps
  <2>4. CASE LoadRequests(c)
    BY <2>4 DEF LoadRequests, Steps
  <2>5. CASE Succeed(c)
    BY <2>1, <2>5 DEF Succeed, Steps
  <2>6. CASE Fail(c)
    BY <2>1, <2>6 DEF Fail, Steps
  <2>7. QED
    BY <2>2, <2>3, <2>4, <2>5, <2>6
<1>3. BreakerTypeOK'
  BY <1>1, <1>2, Moved DEF BreakerTypeOK, counters
<1>4. Admitting'
  <2>1. CASE there = "count"
    BY <1>1, <1>2, <2>1, CallersAtType, ConfigAssumption DEF Admitting, counters, BreakerTypeOK
  <2>2. CASE there # "count"
    BY <1>1, <1>2, <2>2, Moved DEF Admitting, counters
  <2>3. QED
    BY <2>1, <2>2
<1>5. Healing'
  BY <1>1, <1>2, Moved DEF Healing, counters
<1>6. CallersAt({"trip"})' >= CallersAt({"trip"})
  BY <1>2, Moved, CallersAtType
<1>7. Failing'
  <2>1. state' = "Closed" => failure_count' < FailureThreshold + CallersAt({"trip"})'
    BY <1>1, <1>6, CallersAtType, ConfigAssumption DEF Failing, counters, BreakerTypeOK
  <2>2. CASE there = "failure"
    <3>1. CallersAt({"failure"})' + CallersAt({"trip"})' <= Cardinality(Callers)
      BY HowManyApart, ConfigAssumption DEF CallersAt
    <3>2. failure_count' < FailureThreshold + CallersAt({"trip"})'
      BY <1>1, <1>2, <2>1, <2>2
    <3>3. QED
      BY <1>3, <2>1, <3>1, <3>2, CallersAtType, ConfigAssumption DEF Failing, BreakerTypeOK
  <2>3. CASE there # "failure"
    BY <1>1, <1>2, <2>1, <2>3, Moved DEF Failing, counters
  <2>4. QED
    BY <2>2, <2>3
<1>8. QED
  BY <1>3, <1>4, <1>5, <1>7

\* A transition sets the half-open counters to zero, and failure_count with
\* them when the breaker closes.
LEMMA TransitionStep ==
  ASSUME BreakerInv, BreakerTypeOK',
         \/ \E c \in Callers : BecomeHalfOpen(c) \/ BecomeClosed(c) \/ BecomeOpen(c)
         \/ Reset
  PROVE  BreakerInv'
<1> USE DEF BreakerInv
<1>1. success_count' = 0 /\ half_open_requests' = 0
  BY DEF BecomeHalfOpen, BecomeClosed, BecomeOpen, Reset, ToHalfOpen, ToClosed, ToOpen
<1>2. Admitting' /\ Healing'
  BY <1>1, ZeroBounds, CallersAtType DEF Admitting, Healing
<1>3. Failing'
  <2>1. CASE failure_count' = 0
    BY <2>1, ZeroBounds, CallersAtType DEF Failing
  <2>2. CASE failure_count' # 0
    <3>1. /\ failure_count' = failure_count /\ state' # "Closed"
          /\ \E c \in Callers : BecomeHalfOpen(c) \/ BecomeOpen(c)
      BY <2>2 DEF BecomeHalfOpen, BecomeClosed, BecomeOpen, Reset, ToHalfOpen, ToClosed, ToOpen
    <3>2. PICK c \in Callers : Advance(c, "lapsed", "first") \/ Advance(c, "trip", "idle")
      BY <3>1 DEF BecomeHalfOpen, BecomeOpen
    <3>3. {"lapsed", "first", "trip", "idle"} \subseteq Steps
      BY DEF Steps
    <3>4. CallersAt({"failure"})' = CallersAt({"failure"})
      BY <3>2, <3>3, Moved
    <3>5. QED
      BY <3>1, <3>4 DEF Failing
  <2>3. QED
    BY <2>1, <2>2
<1>4. QED
  BY <1>2, <1>3

\* A caller adds to a counter.
LEMMA CountStep ==
  ASSUME BreakerInv, NEW c \in Callers,
         \/ CountFirst(c) \/ CountRequest(c) \/ ResetFailures(c)
         \/ CountSuccess(c) \/ CountFailure(c)
  PROVE  BreakerInv'
<1> USE DEF BreakerInv
<1>1. /\ {failure_count, success_count, half_open_requests} \subseteq Nat
      /\ {FailureThreshold, SuccessThreshold, HalfOpenMaxRequests} \subseteq Nat
      /\ {"first", "count", "calling", "success", "idle", "heal", "close",
          "failure", "trip"} \subseteq Steps
  BY ConfigAssumption DEF BreakerTypeOK, Steps
<1>2. CASE CountFirst(c) \/ CountRequest(c)
  <2>1. PICK here \in {"first", "count"} : Advance(c, here, "calling")
    BY <1>2 DEF CountFirst, CountRequest
  <2>2. /\ half_open_requests' = half_open_requests + 1
        /\ UNCHANGED <<state, failure_count, success_count, opened_at>>
    BY <1>2 DEF CountFirst, CountRequest
  <2>3. /\ CallersAt({"first", "count"})' = CallersAt({"first", "count"}) - 1
        /\ \A p \in {"close", "failure", "trip"} : CallersAt({p})' = CallersAt({p})
        /\ at' \in [Callers -> Steps]
    BY <1>1, <2>1, Moved
  <2>4. BreakerTypeOK'
    BY <1>1, <2>2, <2>3 DEF BreakerTypeOK
  <2>5. Admitting' /\ Healing' /\ Failing'
    BY <1>1, <2>2, <2>3, CallersAtType DEF Admitting, Healing, Failing
  <2>6. QED
    BY <2>4, <2>5
<1>3. CASE ResetFailures(c)
  <2>1. Advance(c, "success", "idle")
    BY <1>3 DEF ResetFailures
  <2>2. /\ failure_count' = 0
        /\ UNCHANGED <<state, success_count, half_open_requests, opened_at>>
    BY <1>3 DEF ResetFailures
  <2>3. /\ CallersAt({"first", "count"})' = CallersAt({"first", "count"})
        /\ CallersAt({"close"})' = CallersAt({"close"})
        /\ at' \in [Callers -> Steps]
    BY <1>1, <2>1, Moved
  <2>4. BreakerTypeOK'
    BY <1>1, <2>2, <2>3 DEF BreakerTypeOK
  <2>5. Admitting' /\ Healing' /\ Failing'
    BY <1>1, <2>2, <2>3, CallersAtType, ZeroBounds DEF Admitting, Healing, Failing
  <2>6. QED
    BY <2>4, <2>5
<1>4. CASE CountSuccess(c)
  <2>1. PICK there \in {"close", "idle"} :
          /\ Advance(c, "heal", there)
          /\ there = "idle" => success_count + 1 < SuccessThreshold
    BY <1>1, <1>4 DEF CountSuccess
  <2>2. /\ success_count' = success_count + 1
        /\ UNCHANGED <<state, failure_count, half_open_requests, opened_at>>
    BY <1>4 DEF CountSuccess
  <2>3. /\ CallersAt({"first", "count"})' = CallersAt({"first", "count"})
        /\ \A p \in {"failure", "trip"} : CallersAt({p})' = CallersAt({p})
        /\ there = "close" => CallersAt({"close"})' = CallersAt({"close"}) + 1
        /\ at' \in [Callers -> Steps]
    BY <1>1, <2>1, Moved
  <2>4. BreakerTypeOK'
    BY <1>1, <2>2, <2>3 DEF BreakerTypeOK
  <2>5. Healing'
    BY <1>1, <2>1, <2>2, <2>3, CallersAtType DEF Healing
  <2>6. Admitting' /\ Failing'
    BY <2>2, <2>3 DEF Admitting, Failing
  <2>7. QED
    BY <2>4, <2>5, <2>6
<1>5. CASE CountFailure(c)
  <2>1. PICK there \in {"trip", "idle"} :
          /\ Advance(c, "failure", there)
          /\ there = "idle" => failure_count + 1 < FailureThreshold
    BY <1>1, <1>5 DEF CountFailure
  <2>2. /\ failure_count' = failure_count + 1
        /\ UNCHANGED <<state, success_count, half_open_requests, opened_at>>
    BY <1>5 DEF CountFailure
  <2>3. /\ CallersAt({"first", "count"})' = CallersAt({"first", "count"})
        /\ CallersAt({"close"})' = CallersAt({"close"})
        /\ CallersAt({"failure"})' = CallersAt({"failure"}) - 1
        /\ there = "trip" => CallersAt({"trip"})' = CallersAt({"trip"}) + 1
        /\ at' \in [Callers -> Steps]
    BY <1>1, <2>1, Moved
  <2>4. BreakerTypeOK'
    BY <1>1, <2>2, <2>3 DEF BreakerTypeOK
  <2>5. Failing'
    BY <1>1, <2>1, <2>2, <2>3, CallersAtType DEF Failing
  <2>6. Admitting' /\ Healing'
    BY <2>2, <2>3 DEF Admitting, Healing
  <2>7. QED
    BY <2>4, <2>5, <2>6
<1>6. QED
  BY <1>2, <1>3, <1>4, <1>5

LEMMA BreakerStepHolds == BreakerInv /\ [BreakerNext]_breakerVars => BreakerInv'
<1> SUFFICES ASSUME BreakerInv, [BreakerNext]_breakerVars PROVE BreakerInv'
  OBVIOUS
<1>1. CASE UNCHANGED breakerVars
  <2>1. UNCHANGED <<state, failure_count, success_count, half_open_requests, opened_at, at>>
    BY <1>1 DEF breakerVars, counters
  <2>2. QED
    BY <2>1 DEF BreakerInv, BreakerTypeOK, Admitting, Healing, Failing, CallersAt
<1>2. CASE TimeoutPasses
  <2>1. UNCHANGED <<state, failure_count, success_count, half_open_requests, at>>
        /\ opened_at' = "elapsed"
    BY <1>2 DEF TimeoutPasses, counters
  <2>2. QED
    BY <2>1 DEF BreakerInv, BreakerTypeOK, Admitting, Healing, Failing, CallersAt
<1>3. CASE \/ \E c \in Callers : BecomeHalfOpen(c) \/ BecomeClosed(c) \/ BecomeOpen(c)
           \/ Reset
  <2>1. /\ state' \in States /\ opened_at' \in {"none", "recent", "elapsed"}
        /\ failure_count' \in Nat /\ success_count' = 0 /\ half_open_requests' = 0
    BY <1>3 DEF BreakerInv, BreakerTypeOK, States, BecomeHalfOpen, BecomeClosed, BecomeOpen,
                Reset, ToHalfOpen, ToClosed, ToOpen
  <2>2. at' \in [Callers -> Steps]
    <3>1. {"lapsed", "first", "close", "trip", "idle"} \subseteq Steps
      BY DEF Steps
    <3>2. QED
      BY <1>3, <3>1, Moved
         DEF BreakerInv, BreakerTypeOK, BecomeHalfOpen, BecomeClosed, BecomeOpen, Reset
  <2>3. QED
    BY <1>3, <2>1, <2>2, TransitionStep DEF BreakerTypeOK
<1>4. QED
  BY <1>1, <1>2, <1>3, QuietStep, CountStep DEF BreakerNext, BreakerStep

LEMMA BreakerInductive == BreakerSpec => []BreakerInv
BY BreakerInitHolds, BreakerStepHolds, PTL DEF BreakerSpec

\* The breaker's state, counters and callers stay well formed.
THEOREM BreakerTypeCorrect == BreakerSpec => []BreakerTypeOK
BY BreakerInductive, PTL DEF BreakerInv

\* However many threads share a breaker and wherever they interleave, a counter
\* exceeds its limit by less than their number.
THEOREM OvershootBounded == BreakerSpec => []HalfOpenOvershoot
<1>1. BreakerInv => HalfOpenOvershoot
  BY CallersAtType, ConfigAssumption
     DEF BreakerInv, BreakerTypeOK, Admitting, Healing, Failing, HalfOpenOvershoot
<1>2. QED
  BY <1>1, BreakerInductive, PTL
-----------------------------------------------------------------------------
(***************************************************************************)
(* 3. Induction as a statement about sets, and the sum over the instruments:  *)
(* that its recursive definition defines something, its type, and what a      *)
(* change of one summand does to it.                                         *)
(***************************************************************************)
LEMMA NatSets ==
  ASSUME NEW B, 0 \in B, \A n \in Nat : n \in B => n + 1 \in B
  PROVE  Nat \subseteq B
<1> SUFFICES ASSUME Nat \ B # {} PROVE FALSE
  OBVIOUS
<1>1. PICK m \in Nat \ B : \A n \in Nat \ B : ~(<<n, m>> \in OpToRel(<, Nat))
  <2> DEFINE T == Nat \ B
  <2>1. T \subseteq Nat /\ T # {}
    OBVIOUS
  <2> HIDE DEF T
  <2>2. \E m \in T : \A n \in T : ~(<<n, m>> \in OpToRel(<, Nat))
    BY <2>1, NatLessThanWellFounded, WFMin
  <2>3. QED
    BY <2>2 DEF T
<1>2. m # 0 /\ m - 1 \in Nat /\ m - 1 < m
  OBVIOUS
<1>3. m - 1 \in B
  BY <1>1, <1>2 DEF OpToRel
<1>4. QED
  BY <1>2, <1>3

LEMMA SubsetSets ==
  ASSUME NEW S, IsFiniteSet(S), NEW B, {} \in B,
         \A s \in SUBSET S : s # {} => \E x \in s : s \ {x} \in B => s \in B
  PROVE  SUBSET S \subseteq B
<1> DEFINE Of(n) == {s \in SUBSET S : Cardinality(s) = n}
           N == {n \in Nat : Of(n) \subseteq B}
<1>1. \A s \in SUBSET S : IsFiniteSet(s) /\ Cardinality(s) \in Nat
  BY FS_Subset, FS_CardinalityType
<1>2. 0 \in N
  BY <1>1, FS_EmptySet
<1>3. ASSUME NEW n \in Nat, n \in N, NEW s \in Of(n + 1) PROVE s \in B
  <2>1. s \in SUBSET S /\ IsFiniteSet(s) /\ Cardinality(s) = n + 1
    BY <1>1
  <2>2. s # {}
    BY <2>1, FS_EmptySet
  <2>3. PICK x \in s : s \ {x} \in B => s \in B
    BY <2>1, <2>2
  <2>4. Cardinality(s \ {x}) = n
    <3>1. Cardinality(s \ {x}) = Cardinality(s) - 1
      BY <2>1, FS_RemoveElement
    <3>2. QED
      BY <2>1, <3>1
  <2>5. s \ {x} \in Of(n)
    BY <2>1, <2>4
  <2>6. QED
    BY <1>3, <2>3, <2>5
<1>4. Nat \subseteq N
  <2>1. \A n \in Nat : n \in N => n + 1 \in N
    BY <1>3
  <2> HIDE DEF N
  <2>2. QED
    BY <1>2, <2>1, NatSets
<1>5. QED
  BY <1>1, <1>4

-----------------------------------------------------------------------------
Pick(s) == CHOOSE x \in s : TRUE

\* The sums over all subsets, as the fold of the community modules makes them.
Sums(u) == LET iter[s \in SUBSET Instruments] ==
                 IF s = {} THEN 0 ELSE u[Pick(s)] + iter[s \ {Pick(s)}]
           IN  iter

Total(u) == MapThenSumSet(LAMBDA i : u[i], Instruments)

LEMMA TotalIsSum == \A u : Total(u) = Sums(u)[Instruments]
BY DEF Total, Sums, MapThenSumSet, MapThenFoldSet, Pick

LEMMA SumsUnfold ==
  ASSUME NEW u
  PROVE  \A s \in SUBSET Instruments :
           Sums(u)[s] = IF s = {} THEN 0 ELSE u[Pick(s)] + Sums(u)[s \ {Pick(s)}]
<1> DEFINE Body(g, s) == IF s = {} THEN 0 ELSE u[Pick(s)] + g[s \ {Pick(s)}]
           Of(n) == {s \in SUBSET Instruments : Cardinality(s) <= n}
           Known(n) == \E g : g = [s \in Of(n) |-> Body(g, s)]
           N == {n \in Nat : Known(n)}
<1>1. \A s \in SUBSET Instruments :
        /\ Cardinality(s) \in Nat /\ Cardinality(s) <= Cardinality(Instruments)
        /\ Cardinality(s) = 0 <=> s = {}
        /\ s # {} => /\ s \ {Pick(s)} \in SUBSET Instruments
                     /\ Cardinality(s \ {Pick(s)}) = Cardinality(s) - 1
  <2>1. \A s : s # {} => Pick(s) \in s
    BY DEF Pick
  <2>2. QED
    BY <2>1, CapacityAssumption, FS_Subset, FS_CardinalityType, FS_EmptySet, FS_RemoveElement
<1>2. 0 \in N
  <2> DEFINE g == [s \in Of(0) |-> 0]
  <2>1. \A s \in Of(0) : Body(g, s) = 0
    BY <1>1
  <2>2. g = [s \in Of(0) |-> Body(g, s)]
    BY <2>1
  <2>3. QED
    BY <2>2
<1>3. ASSUME NEW n \in Nat, n \in N PROVE n + 1 \in N
  <2>1. PICK g : g = [s \in Of(n) |-> Body(g, s)]
    BY <1>3
  <2> DEFINE h == [s \in Of(n + 1) |-> Body(g, s)]
  <2>2. ASSUME NEW s \in Of(n + 1), s # {} PROVE h[s \ {Pick(s)}] = g[s \ {Pick(s)}]
    <3> DEFINE t == s \ {Pick(s)}
    <3>1. t \in Of(n) /\ t \in Of(n + 1)
      BY <1>1, <2>2
    <3>2. QED
      BY <2>1, <3>1
  <2>3. \A s \in Of(n + 1) : Body(g, s) = Body(h, s)
    <3> HIDE DEF h, Of
    <3>1. QED
      BY <2>2
  <2>4. h = [s \in Of(n + 1) |-> Body(h, s)]
    <3>1. h = [s \in Of(n + 1) |-> Body(g, s)]
      OBVIOUS
    <3> HIDE DEF h, Of, Body
    <3>2. QED
      BY <2>3, <3>1
  <2>5. Known(n + 1)
    <3> HIDE DEF h, Of, Body
    <3>1. QED
      BY <2>4
  <2>6. QED
    <3> HIDE DEF h, Of, Body, Known
    <3>1. QED
      BY <2>5
<1>4. Nat \subseteq N
  <2> HIDE DEF N
  <2>1. QED
    BY <1>2, <1>3, NatSets
<1>5. PICK g : g = [s \in SUBSET Instruments |-> Body(g, s)]
  <2>1. Cardinality(Instruments) \in Nat
    BY <1>1
  <2>2. Of(Cardinality(Instruments)) = SUBSET Instruments
    BY <1>1
  <2>3. QED
    BY <1>4, <2>1, <2>2
<1>6. Sums(u) = [s \in SUBSET Instruments |-> Body(Sums(u), s)]
  BY <1>5 DEF Sums
<1>7. QED
  BY <1>6

LEMMA SubsetsOfInstruments ==
  ASSUME NEW B, {} \in B,
         \A s \in SUBSET Instruments : (s # {} /\ s \ {Pick(s)} \in B) => s \in B
  PROVE  SUBSET Instruments \subseteq B
<1>1. \A s : s # {} => Pick(s) \in s
  BY DEF Pick
<1>2. \A s \in SUBSET Instruments : s # {} => \E x \in s : s \ {x} \in B => s \in B
  BY <1>1
<1>3. QED
  BY <1>2, SubsetSets, CapacityAssumption

LEMMA SumsType ==
  ASSUME NEW u \in [Instruments -> Nat]
  PROVE  \A s \in SUBSET Instruments : Sums(u)[s] \in Nat
<1> DEFINE B == {s \in SUBSET Instruments : Sums(u)[s] \in Nat}
<1>1. {} \in B
  <2>1. Sums(u)[{}] = 0
    BY SumsUnfold
  <2>2. QED
    BY <2>1
<1>2. ASSUME NEW s \in SUBSET Instruments, s # {}, s \ {Pick(s)} \in B PROVE s \in B
  <2>1. Pick(s) \in Instruments
    BY <1>2 DEF Pick
  <2>2. Sums(u)[s] = u[Pick(s)] + Sums(u)[s \ {Pick(s)}]
    BY <1>2, SumsUnfold
  <2>3. QED
    BY <1>2, <2>1, <2>2
<1>3. SUBSET Instruments \subseteq B
  <2> HIDE DEF B
  <2>1. QED
    BY <1>1, <1>2, SubsetsOfInstruments
<1>4. QED
  BY <1>3

\* u and v differ at i only.
LEMMA SumsChange ==
  ASSUME NEW u \in [Instruments -> Nat], NEW v \in [Instruments -> Nat],
         NEW i \in Instruments, \A j \in Instruments \ {i} : v[j] = u[j]
  PROVE  \A s \in SUBSET Instruments :
           Sums(v)[s] + (IF i \in s THEN u[i] ELSE 0) = Sums(u)[s] + (IF i \in s THEN v[i] ELSE 0)
<1> DEFINE In(s, w) == IF i \in s THEN w[i] ELSE 0
           B == {s \in SUBSET Instruments : Sums(v)[s] + In(s, u) = Sums(u)[s] + In(s, v)}
<1>1. {} \in B
  <2>1. Sums(u)[{}] = 0 /\ Sums(v)[{}] = 0
    BY SumsUnfold
  <2>2. QED
    BY <2>1
<1>2. ASSUME NEW s \in SUBSET Instruments, s # {}, s \ {Pick(s)} \in B PROVE s \in B
  <2> DEFINE p == Pick(s)
             t == s \ {p}
  <2>1. p \in s /\ p \in Instruments /\ t \in SUBSET Instruments
    BY <1>2 DEF Pick
  <2>2. Sums(u)[s] = u[p] + Sums(u)[t] /\ Sums(v)[s] = v[p] + Sums(v)[t]
    BY <1>2, SumsUnfold
  <2>3. /\ Sums(u)[t] \in Nat /\ Sums(v)[t] \in Nat
        /\ u[p] \in Nat /\ v[p] \in Nat /\ u[i] \in Nat /\ v[i] \in Nat
    BY <2>1, SumsType
  <2>4. Sums(v)[t] + In(t, u) = Sums(u)[t] + In(t, v)
    BY <1>2
  <2>5. (p # i => v[p] = u[p]) /\ (i \in t <=> i \in s /\ i # p)
    BY <2>1
  <2> HIDE DEF p, t
  <2>6. Sums(v)[s] + In(s, u) = Sums(u)[s] + In(s, v)
    BY <2>1, <2>2, <2>3, <2>4, <2>5
  <2>7. QED
    BY <2>6
<1>3. SUBSET Instruments \subseteq B
  <2> HIDE DEF B
  <2>1. QED
    BY <1>1, <1>2, SubsetsOfInstruments
<1>4. QED
  BY <1>3

LEMMA TotalChange ==
  ASSUME NEW u \in [Instruments -> Nat], NEW v \in [Instruments -> Nat],
         NEW i \in Instruments, \A j \in Instruments \ {i} : v[j] = u[j]
  PROVE  Total(v) \in Nat /\ Total(u) \in Nat /\ Total(v) + u[i] = Total(u) + v[i]
<1>1. Sums(u)[Instruments] \in Nat /\ Sums(v)[Instruments] \in Nat
  BY SumsType
<1>2. Sums(v)[Instruments] + u[i] = Sums(u)[Instruments] + v[i]
  BY SumsChange
<1>3. QED
  BY <1>1, <1>2, TotalIsSum

LEMMA TotalCovers ==
  ASSUME NEW u \in [Instruments -> Nat], NEW i \in Instruments
  PROVE  Total(u) \in Nat /\ u[i] <= Total(u)
<1> DEFINE v == [j \in Instruments |-> IF j = i THEN 0 ELSE u[j]]
<1>1. v \in [Instruments -> Nat] /\ v[i] = 0 /\ \A j \in Instruments \ {i} : v[j] = u[j]
  OBVIOUS
<1> HIDE DEF v
<1>2. Total(v) \in Nat /\ Total(u) \in Nat /\ Total(v) + u[i] = Total(u) + v[i]
  BY <1>1, TotalChange
<1>3. u[i] \in Nat
  OBVIOUS
<1>4. QED
  BY <1>1, <1>2, <1>3
-----------------------------------------------------------------------------
(***************************************************************************)
(* 4. The operations on a market maker's row.  Counts(b, f): the counters of  *)
(* b are those of the reservations f.  In a row the code saves, f is its own  *)
(* reservations field; between the revert of a replaced reservation and the   *)
(* addition of the new one it is not.                                        *)
(***************************************************************************)
Reservations == [Rfqs -> Instruments \cup {None}]

Counts(b, f) ==
  /\ b.active = HowMany(Rfqs, f, Instruments)
  /\ \A i \in Instruments : b.usage[i] = Notional[i] * HowMany(Rfqs, f, {i})
  /\ b.notional = Total(b.usage)

Counted(s) == Counts(s, s.reservations)

LEMMA Times ==
  ASSUME NEW a \in Nat, NEW b \in Nat
  PROVE  /\ a * b \in Nat
         /\ a * (b + 1) = a * b + a
         /\ b # 0 => a * (b - 1) = a * b - a /\ a <= a * b
<1>1. a * b \in Nat /\ a * (b + 1) = a * b + a
  OBVIOUS
<1>2. ASSUME b # 0 PROVE a * (b - 1) = a * b - a /\ a <= a * b
  <2>1. b - 1 \in Nat
    BY <1>2
  <2>2. a * (b - 1) = a * b - a /\ a * (b - 1) \in Nat
    BY <2>1
  <2>3. QED
    BY <1>1, <2>2
<1>3. QED
  BY <1>1, <1>2

LEMMA EmptyCounted == Empty \in CapacityStates /\ Counted(Empty)
<1> DEFINE u == [i \in Instruments |-> 0]
<1>1. Empty \in CapacityStates
  BY DEF Empty, CapacityStates
<1>2. /\ HowMany(Rfqs, Empty.reservations, Instruments) = 0
      /\ \A i \in Instruments : HowMany(Rfqs, Empty.reservations, {i}) = 0
  BY CapacityAssumption, HowManyNone DEF Empty
<1>3. Total(u) = 0
  <2> DEFINE B == {s \in SUBSET Instruments : Sums(u)[s] = 0}
  <2>1. {} \in B
    <3>1. Sums(u)[{}] = 0
      BY SumsUnfold
    <3>2. QED
      BY <3>1
  <2>2. ASSUME NEW s \in SUBSET Instruments, s # {}, s \ {Pick(s)} \in B PROVE s \in B
    <3>1. Pick(s) \in Instruments
      BY <2>2 DEF Pick
    <3>2. Sums(u)[s] = u[Pick(s)] + Sums(u)[s \ {Pick(s)}]
      BY <2>2, SumsUnfold
    <3>3. QED
      BY <2>2, <3>1, <3>2
  <2>3. SUBSET Instruments \subseteq B
    <3> HIDE DEF B
    <3>1. QED
      BY <2>1, <2>2, SubsetsOfInstruments
  <2>4. Sums(u)[Instruments] = 0
    BY <2>3
  <2>5. QED
    BY <2>4, TotalIsSum
<1>4. Empty.active = 0 /\ Empty.notional = 0 /\ Empty.usage = u
  BY DEF Empty
<1>5. \A i \in Instruments : Notional[i] * 0 = 0
  BY CapacityAssumption
<1>6. QED
  BY <1>1, <1>2, <1>3, <1>4, <1>5 DEF Counts, Counted

\* h has one reservation more than f.
LEMMA ReservationMade ==
  ASSUME NEW f, NEW h, NEW r \in Rfqs, \A q \in Rfqs \ {r} : h[q] = f[q],
         NEW i \in Instruments, h[r] = i, f[r] = None
  PROVE  /\ HowMany(Rfqs, h, Instruments) = HowMany(Rfqs, f, Instruments) + 1
         /\ HowMany(Rfqs, f, Instruments) \in Nat
         /\ \A j \in Instruments :
              /\ HowMany(Rfqs, f, {j}) \in Nat
              /\ HowMany(Rfqs, h, {j}) =
                   IF j = i THEN HowMany(Rfqs, f, {j}) + 1 ELSE HowMany(Rfqs, f, {j})
<1>1. None \notin Instruments /\ IsFiniteSet(Rfqs)
  BY CapacityAssumption
<1>2. HowMany(Rfqs, h, Instruments) = HowMany(Rfqs, f, Instruments) + 1
  <2>1. h[r] \in Instruments /\ f[r] \notin Instruments
    BY <1>1
  <2>2. QED
    BY <1>1, <2>1, HowManyGains
<1>3. \A S : HowMany(Rfqs, f, S) \in Nat
  BY <1>1, HowManyType
<1>4. ASSUME NEW j \in Instruments
      PROVE  HowMany(Rfqs, h, {j}) =
               IF j = i THEN HowMany(Rfqs, f, {j}) + 1 ELSE HowMany(Rfqs, f, {j})
  <2>1. CASE j = i
    <3>1. h[r] \in {i} /\ f[r] \notin {i}
      BY <1>1
    <3>2. HowMany(Rfqs, h, {i}) = HowMany(Rfqs, f, {i}) + 1
      BY <1>1, <3>1, HowManyGains
    <3>3. QED
      BY <2>1, <3>2
  <2>2. CASE j # i
    <3>1. h[r] \in {j} <=> f[r] \in {j}
      BY <1>1, <2>2
    <3>2. HowMany(Rfqs, h, {j}) = HowMany(Rfqs, f, {j})
      BY <1>1, <3>1, HowManyKeeps
    <3>3. QED
      BY <2>2, <3>2
  <2>3. QED
    BY <2>1, <2>2
<1>5. QED
  BY <1>2, <1>3, <1>4

LEMMA ReservationCounts ==
  ASSUME NEW f, NEW r \in Rfqs, NEW S, f[r] \in S
  PROVE  HowMany(Rfqs, f, S) \in Nat \ {0}
<1>1. r \in Among(Rfqs, f, S)
  BY DEF Among
<1>2. IsFiniteSet(Among(Rfqs, f, S)) /\ HowMany(Rfqs, f, S) \in Nat
  BY CapacityAssumption, HowManyType
<1>3. QED
  BY <1>1, <1>2, FS_EmptySet DEF HowMany

\* The fields of a reverted row, where no subtraction is cut off at zero.
LEMMA RevertFields ==
  ASSUME NEW s \in CapacityStates, NEW i \in Instruments,
         Notional[i] <= s.usage[i], Notional[i] <= s.notional
  PROVE  Revert(s, i) = [active |-> s.active - 1, notional |-> s.notional - Notional[i],
                         usage |-> [s.usage EXCEPT ![i] = s.usage[i] - Notional[i]],
                         reservations |-> s.reservations]
<1>1. Notional[i] \in Nat /\ s.usage[i] \in Nat /\ s.notional \in Nat
  BY CapacityAssumption DEF CapacityStates
<1>2. Less(s.notional, Notional[i]) = s.notional - Notional[i]
      /\ Less(s.usage[i], Notional[i]) = s.usage[i] - Notional[i]
  BY <1>1 DEF Less
<1> DEFINE m == Less(s.notional, Notional[i])
           n == Less(s.usage[i], Notional[i])
<1>3. Revert(s, i) = [active |-> s.active - 1, notional |-> m,
                      usage |-> [s.usage EXCEPT ![i] = n], reservations |-> s.reservations]
  <2> DEFINE w == [s.usage EXCEPT ![i] = n]
  <2>1. Revert(s, i) = [s EXCEPT !.active = s.active - 1, !.notional = m, !.usage = w]
    BY DEF Revert
  <2> HIDE DEF m, n, w
  <2>2. s \in [active : Nat, notional : Nat, usage : [Instruments -> Nat],
               reservations : [Rfqs -> Instruments \cup {None}]]
    BY DEF CapacityStates
  <2>3. Revert(s, i) = [active |-> s.active - 1, notional |-> m, usage |-> w,
                        reservations |-> s.reservations]
    BY <2>1, <2>2
  <2>4. QED
    BY <2>3 DEF w
<1>4. QED
  BY <1>2, <1>3

\* A reservation made is counted, so that reverting it cuts nothing off.
LEMMA HeldIsCounted ==
  ASSUME NEW s \in CapacityStates, Counted(s), NEW r \in Rfqs, NEW i \in Instruments,
         s.reservations[r] = i
  PROVE  s.active # 0 /\ Notional[i] <= s.usage[i] /\ Notional[i] <= s.notional
<1>1. s.usage \in [Instruments -> Nat] /\ Notional[i] \in Nat
  BY CapacityAssumption DEF CapacityStates
<1>2. /\ HowMany(Rfqs, s.reservations, Instruments) \in Nat \ {0}
      /\ HowMany(Rfqs, s.reservations, {i}) \in Nat \ {0}
  BY ReservationCounts
<1>3. Notional[i] <= s.usage[i]
  BY <1>1, <1>2, Times DEF Counted, Counts
<1>4. s.usage[i] <= s.notional /\ s.notional \in Nat
  BY <1>1, TotalCovers DEF Counted, Counts
<1>5. QED
  BY <1>1, <1>2, <1>3, <1>4 DEF Counted, Counts

\* The counters without r's reservation count the reservations without r's.
LEMMA RevertCounts ==
  ASSUME NEW s \in CapacityStates, Counted(s), NEW r \in Rfqs, NEW i \in Instruments,
         s.reservations[r] = i, NEW f, f[r] = None,
         \A q \in Rfqs \ {r} : f[q] = s.reservations[q]
  PROVE  /\ Revert(s, i) \in CapacityStates /\ Counts(Revert(s, i), f)
         /\ Revert(s, i).reservations = s.reservations
         /\ Revert(s, i).active <= s.active /\ Revert(s, i).notional <= s.notional
         /\ \A j \in Instruments : Revert(s, i).usage[j] <= s.usage[j]
<1> DEFINE u == s.usage
           v == [u EXCEPT ![i] = u[i] - Notional[i]]
<1>1. /\ s.active # 0 /\ s.active \in Nat /\ s.notional \in Nat
      /\ u \in [Instruments -> Nat] /\ Notional[i] \in Nat /\ s.reservations \in Reservations
      /\ Notional[i] <= u[i] /\ Notional[i] <= s.notional
  BY HeldIsCounted, CapacityAssumption DEF CapacityStates, Reservations
<1>2. /\ v \in [Instruments -> Nat] /\ v[i] = u[i] - Notional[i]
      /\ \A j \in Instruments \ {i} : v[j] = u[j]
  BY <1>1
<1>3. Revert(s, i) = [active |-> s.active - 1, notional |-> s.notional - Notional[i],
                      usage |-> v, reservations |-> s.reservations]
  BY <1>1, RevertFields
<1> HIDE DEF u, v
<1>4. s.notional - Notional[i] = Total(v)
  <2>1. Total(v) \in Nat /\ Total(u) \in Nat /\ Total(v) + u[i] = Total(u) + v[i]
    BY <1>1, <1>2, TotalChange
  <2>2. s.notional = Total(u)
    BY DEF Counted, Counts, u
  <2>3. u[i] \in Nat
    BY <1>1
  <2>4. QED
    BY <1>1, <1>2, <2>1, <2>2, <2>3
<1>5. /\ HowMany(Rfqs, s.reservations, Instruments) = HowMany(Rfqs, f, Instruments) + 1
      /\ HowMany(Rfqs, f, Instruments) \in Nat
      /\ \A j \in Instruments :
           /\ HowMany(Rfqs, f, {j}) \in Nat
           /\ HowMany(Rfqs, s.reservations, {j}) =
                IF j = i THEN HowMany(Rfqs, f, {j}) + 1 ELSE HowMany(Rfqs, f, {j})
  BY ReservationMade
<1>6. s.active - 1 = HowMany(Rfqs, f, Instruments)
  BY <1>5 DEF Counted, Counts
<1>7. ASSUME NEW j \in Instruments PROVE v[j] = Notional[j] * HowMany(Rfqs, f, {j})
  <2>1. u[j] = Notional[j] * HowMany(Rfqs, s.reservations, {j})
    BY DEF Counted, Counts, u
  <2>2. CASE j = i
    <3>1. HowMany(Rfqs, s.reservations, {j}) = HowMany(Rfqs, f, {j}) + 1
          /\ HowMany(Rfqs, f, {j}) \in Nat
      BY <1>5, <2>2
    <3>2. Notional[j] * HowMany(Rfqs, f, {j}) \in Nat
          /\ Notional[j] * (HowMany(Rfqs, f, {j}) + 1)
               = Notional[j] * HowMany(Rfqs, f, {j}) + Notional[j]
      BY <1>1, <2>2, <3>1, Times
    <3>3. QED
      BY <1>1, <1>2, <2>1, <2>2, <3>1, <3>2
  <2>3. CASE j # i
    BY <1>2, <1>5, <2>1, <2>3
  <2>4. QED
    BY <2>2, <2>3
<1>8. /\ Revert(s, i).active = s.active - 1 /\ Revert(s, i).usage = v
      /\ Revert(s, i).notional = s.notional - Notional[i]
      /\ Revert(s, i).reservations = s.reservations
  BY <1>3
<1>9. Revert(s, i) \in CapacityStates
  BY <1>1, <1>2, <1>3 DEF CapacityStates, Reservations
<1>10. Counts(Revert(s, i), f)
  BY <1>4, <1>6, <1>7, <1>8 DEF Counts
<1>11. \A j \in Instruments : v[j] <= u[j]
  BY <1>1, <1>2
<1>12. QED
  BY <1>1, <1>8, <1>9, <1>10, <1>11 DEF u

\* The row with a reservation of r for i added, where b has none that counts.
Charged(b, r, i) == [active |-> b.active + 1, notional |-> b.notional + Notional[i],
                     usage |-> [b.usage EXCEPT ![i] = b.usage[i] + Notional[i]],
                     reservations |-> [b.reservations EXCEPT ![r] = i]]

LEMMA ChargeCounts ==
  ASSUME NEW b \in CapacityStates, NEW r \in Rfqs, NEW i \in Instruments,
         NEW f, Counts(b, f), f[r] = None, \A q \in Rfqs \ {r} : f[q] = b.reservations[q]
  PROVE  Charged(b, r, i) \in CapacityStates /\ Counted(Charged(b, r, i))
<1> DEFINE u == b.usage
           v == [u EXCEPT ![i] = u[i] + Notional[i]]
           t == Charged(b, r, i)
<1>1. /\ b.active \in Nat /\ b.notional \in Nat /\ u \in [Instruments -> Nat]
      /\ Notional[i] \in Nat /\ b.reservations \in Reservations
  BY CapacityAssumption DEF CapacityStates, Reservations
<1>2. /\ v \in [Instruments -> Nat] /\ v[i] = u[i] + Notional[i]
      /\ \A j \in Instruments \ {i} : v[j] = u[j]
  BY <1>1
<1>3. /\ t.active = b.active + 1 /\ t.notional = b.notional + Notional[i] /\ t.usage = v
      /\ t.reservations = [b.reservations EXCEPT ![r] = i]
  BY DEF Charged
<1>4. t.reservations[r] = i /\ \A q \in Rfqs \ {r} : t.reservations[q] = f[q]
  BY <1>1, <1>3 DEF Reservations
<1>5. t \in CapacityStates
  BY <1>1, <1>2 DEF Charged, CapacityStates, Reservations
<1> HIDE DEF u, v
<1>6. b.notional + Notional[i] = Total(v)
  <2>1. Total(v) \in Nat /\ Total(u) \in Nat /\ Total(v) + u[i] = Total(u) + v[i]
    BY <1>1, <1>2, TotalChange
  <2>2. b.notional = Total(u)
    BY DEF Counts, u
  <2>3. u[i] \in Nat
    BY <1>1
  <2>4. QED
    BY <1>1, <1>2, <2>1, <2>2, <2>3
<1>7. /\ HowMany(Rfqs, t.reservations, Instruments) = HowMany(Rfqs, f, Instruments) + 1
      /\ \A j \in Instruments :
           /\ HowMany(Rfqs, f, {j}) \in Nat
           /\ HowMany(Rfqs, t.reservations, {j}) =
                IF j = i THEN HowMany(Rfqs, f, {j}) + 1 ELSE HowMany(Rfqs, f, {j})
  <2>1. PICK h : h = t.reservations
    OBVIOUS
  <2>2. h[r] = i /\ \A q \in Rfqs \ {r} : h[q] = f[q]
    BY <1>4, <2>1
  <2>3. /\ HowMany(Rfqs, h, Instruments) = HowMany(Rfqs, f, Instruments) + 1
        /\ \A j \in Instruments :
             /\ HowMany(Rfqs, f, {j}) \in Nat
             /\ HowMany(Rfqs, h, {j}) =
                  IF j = i THEN HowMany(Rfqs, f, {j}) + 1 ELSE HowMany(Rfqs, f, {j})
    BY <2>2, ReservationMade
  <2>4. QED
    BY <2>1, <2>3
<1> HIDE DEF t
<1>8. t.active = HowMany(Rfqs, t.reservations, Instruments)
  BY <1>3, <1>7 DEF Counts
<1>9. ASSUME NEW j \in Instruments PROVE v[j] = Notional[j] * HowMany(Rfqs, t.reservations, {j})
  <2>1. u[j] = Notional[j] * HowMany(Rfqs, f, {j})
    BY DEF Counts, u
  <2>2. CASE j = i
    <3>1. HowMany(Rfqs, t.reservations, {j}) = HowMany(Rfqs, f, {j}) + 1
          /\ HowMany(Rfqs, f, {j}) \in Nat
      BY <1>7, <2>2
    <3>2. Notional[j] * (HowMany(Rfqs, f, {j}) + 1)
            = Notional[j] * HowMany(Rfqs, f, {j}) + Notional[j]
      BY <1>1, <2>2, <3>1, Times
    <3>3. QED
      BY <1>2, <2>1, <2>2, <3>1, <3>2
  <2>3. CASE j # i
    BY <1>2, <1>7, <2>1, <2>3
  <2>4. QED
    BY <2>2, <2>3
<1>10. Counted(t)
  BY <1>3, <1>6, <1>8, <1>9 DEF Counts, Counted
<1>11. QED
  BY <1>5, <1>10 DEF t

\* Adding a reservation keeps the counters right; it adds one at most, and at
\* most its notional.
LEMMA Added ==
  ASSUME NEW s \in CapacityStates, Counted(s), NEW r \in Rfqs, NEW i \in Instruments
  PROVE  /\ AddReservation(s, r, i) \in CapacityStates /\ Counted(AddReservation(s, r, i))
         /\ AddReservation(s, r, i).reservations = [s.reservations EXCEPT ![r] = i]
         /\ AddReservation(s, r, i).active <= s.active + 1
         /\ AddReservation(s, r, i).notional <= s.notional + Notional[i]
         /\ AddReservation(s, r, i).usage[i] <= s.usage[i] + Notional[i]
<1>1. /\ s.active \in Nat /\ s.notional \in Nat /\ s.usage \in [Instruments -> Nat]
      /\ Notional[i] \in Nat /\ s.reservations \in Reservations
  BY CapacityAssumption DEF CapacityStates, Reservations
<1>2. PICK b : b = IF s.reservations[r] = None THEN s ELSE Revert(s, s.reservations[r])
  OBVIOUS
<1>3. PICK f : f = [s.reservations EXCEPT ![r] = None]
  OBVIOUS
<1>4. f[r] = None /\ \A q \in Rfqs \ {r} : f[q] = s.reservations[q]
  BY <1>1, <1>3 DEF Reservations
<1>5. /\ b \in CapacityStates /\ Counts(b, f) /\ b.reservations = s.reservations
      /\ b.active <= s.active /\ b.notional <= s.notional /\ b.usage[i] <= s.usage[i]
  <2>1. CASE s.reservations[r] = None
    <3>1. f = s.reservations
      BY <1>1, <1>3, <2>1 DEF Reservations
    <3>2. b = s
      BY <1>2, <2>1
    <3>3. s.usage[i] \in Nat
      BY <1>1
    <3>4. QED
      BY <1>1, <3>1, <3>2, <3>3 DEF Counted
  <2>2. CASE s.reservations[r] # None
    <3>1. PICK k \in Instruments : s.reservations[r] = k
      BY <1>1, <2>2 DEF Reservations
    <3>2. b = Revert(s, k)
      BY <1>2, <2>2, <3>1
    <3>3. /\ Revert(s, k) \in CapacityStates /\ Counts(Revert(s, k), f)
          /\ Revert(s, k).reservations = s.reservations
          /\ Revert(s, k).active <= s.active /\ Revert(s, k).notional <= s.notional
          /\ \A j \in Instruments : Revert(s, k).usage[j] <= s.usage[j]
      BY <1>4, <3>1, RevertCounts
    <3>4. QED
      BY <3>2, <3>3
  <2>3. QED
    BY <2>1, <2>2
<1>6. AddReservation(s, r, i) = Charged(b, r, i)
  <2>1. b \in [active : Nat, notional : Nat, usage : [Instruments -> Nat],
               reservations : [Rfqs -> Instruments \cup {None}]]
    BY <1>5 DEF CapacityStates
  <2> DEFINE w == [b.usage EXCEPT ![i] = b.usage[i] + Notional[i]]
             h == [b.reservations EXCEPT ![r] = i]
             m == b.active + 1
             n == b.notional + Notional[i]
  <2>2. AddReservation(s, r, i) =
          [b EXCEPT !.active = m, !.notional = n, !.usage = w, !.reservations = h]
    BY <1>2 DEF AddReservation
  <2>3. Charged(b, r, i) = [active |-> m, notional |-> n, usage |-> w, reservations |-> h]
    BY DEF Charged
  <2> HIDE DEF w, h, m, n
  <2>4. QED
    BY <2>1, <2>2, <2>3
<1>7. Charged(b, r, i) \in CapacityStates /\ Counted(Charged(b, r, i))
  BY <1>4, <1>5, ChargeCounts
<1>8. /\ b.active \in Nat /\ b.notional \in Nat /\ b.usage \in [Instruments -> Nat]
  BY <1>5 DEF CapacityStates
<1>9. /\ Charged(b, r, i).reservations = [s.reservations EXCEPT ![r] = i]
      /\ Charged(b, r, i).active <= s.active + 1
      /\ Charged(b, r, i).notional <= s.notional + Notional[i]
      /\ Charged(b, r, i).usage[i] <= s.usage[i] + Notional[i]
  <2>1. s.usage[i] \in Nat /\ b.usage[i] \in Nat
    BY <1>1, <1>8
  <2>2. /\ Charged(b, r, i).active = b.active + 1
        /\ Charged(b, r, i).notional = b.notional + Notional[i]
        /\ Charged(b, r, i).usage[i] = b.usage[i] + Notional[i]
        /\ Charged(b, r, i).reservations = [b.reservations EXCEPT ![r] = i]
    BY <1>8 DEF Charged
  <2>3. QED
    BY <1>1, <1>5, <1>8, <2>1, <2>2
<1>10. QED
  BY <1>6, <1>7, <1>9

\* Removing a reservation keeps the counters right.
LEMMA Removed ==
  ASSUME NEW s \in CapacityStates, Counted(s), NEW r \in Rfqs, s.reservations[r] # None
  PROVE  /\ RemoveReservation(s, r) \in CapacityStates /\ Counted(RemoveReservation(s, r))
         /\ RemoveReservation(s, r).reservations = [s.reservations EXCEPT ![r] = None]
<1>1. s.reservations \in Reservations
  BY DEF CapacityStates, Reservations
<1>2. PICK k \in Instruments : s.reservations[r] = k
  BY <1>1 DEF Reservations
<1>3. PICK f : f = [s.reservations EXCEPT ![r] = None]
  OBVIOUS
<1>4. f \in Reservations /\ f[r] = None /\ \A q \in Rfqs \ {r} : f[q] = s.reservations[q]
  BY <1>1, <1>3 DEF Reservations
<1>5. PICK b : b = Revert(s, k)
  OBVIOUS
<1>6. b \in CapacityStates /\ Counts(b, f) /\ b.reservations = s.reservations
  BY <1>2, <1>4, <1>5, RevertCounts
<1>7. RemoveReservation(s, r) = [b EXCEPT !.reservations = f]
  BY <1>2, <1>3, <1>5, <1>6 DEF RemoveReservation
<1>8. b \in [active : Nat, notional : Nat, usage : [Instruments -> Nat],
             reservations : [Rfqs -> Instruments \cup {None}]]
  BY <1>6 DEF CapacityStates
<1>9. RemoveReservation(s, r) = [active |-> b.active, notional |-> b.notional,
                                 usage |-> b.usage, reservations |-> f]
  BY <1>7, <1>8
<1>10. RemoveReservation(s, r) \in CapacityStates
  BY <1>4, <1>8, <1>9 DEF CapacityStates, Reservations
<1>11. Counted(RemoveReservation(s, r))
  BY <1>6, <1>9 DEF Counted, Counts
<1>12. QED
  BY <1>3, <1>9, <1>10, <1>11
-----------------------------------------------------------------------------
(***************************************************************************)
(* 5. The calls.  A call past the lock holds the mutex, so that no other       *)
(* changes the row between its check, its second read and its save: what it    *)
(* is about to save is still the row with its own change, and still passes the *)
(* comparison it made.                                                       *)
(***************************************************************************)
Inside == {"config", "check", "load", "save"}

Exclusive == \A c \in Calls : pc[c] \in Inside => mutex = c

Prepared ==
  \A c \in Calls : pc[c] = "save" =>
    \/ /\ task[c].what = "reserve"
       /\ copy[c] = AddReservation(row, task[c].rfq, task[c].instrument)
    \/ /\ task[c].what = "release" /\ row.reservations[task[c].rfq] # None
       /\ copy[c] = RemoveReservation(row, task[c].rfq)

Compared ==
  \A c \in Calls : pc[c] \in {"load", "save"} /\ task[c].what = "reserve" =>
    Available(row, seen[c], task[c].instrument)

CapacityInv == TypeOK /\ Counted(row) /\ Exclusive /\ Prepared /\ Compared

LEMMA CountersAreCounted == TypeOK => (CountersAreReservations <=> Counted(row))
<1> SUFFICES ASSUME TypeOK PROVE CountersAreReservations <=> Counted(row)
  OBVIOUS
<1>1. row.reservations \in [Rfqs -> Instruments \cup {None}]
  BY DEF TypeOK, CapacityStates
<1>2. HowMany(Rfqs, row.reservations, Instruments)
        = Cardinality({r \in Rfqs : row.reservations[r] # None})
  <2>1. Among(Rfqs, row.reservations, Instruments) = {r \in Rfqs : row.reservations[r] # None}
    BY <1>1, CapacityAssumption DEF Among
  <2>2. QED
    BY <2>1 DEF HowMany
<1>3. \A i \in Instruments : HowMany(Rfqs, row.reservations, {i}) = Cardinality(Reserved(i))
  <2>1. \A i \in Instruments : Among(Rfqs, row.reservations, {i}) = Reserved(i)
    BY DEF Among, Reserved
  <2>2. QED
    BY <2>1 DEF HowMany
<1>4. Total(row.usage) = MapThenSumSet(LAMBDA i : row.usage[i], Instruments)
  BY DEF Total
<1>5. QED
  BY <1>2, <1>3, <1>4 DEF CountersAreReservations, Counted, Counts

LEMMA CapacityInitHolds == Init => CapacityInv
<1> SUFFICES ASSUME Init PROVE CapacityInv
  OBVIOUS
<1>1. Empty \in CapacityStates /\ Counted(Empty)
  BY EmptyCounted
<1>2. TypeOK
  BY <1>1, Zenon DEF Init, TypeOK
<1>3. \A c \in Calls : pc[c] = "idle"
  BY DEF Init
<1>4. QED
  BY <1>1, <1>2, <1>3 DEF Init, CapacityInv, Exclusive, Prepared, Compared, Inside

\* What a call is about to save.
LEMMA PreparedCounted ==
  ASSUME CapacityInv, NEW c \in Calls, pc[c] = "save"
  PROVE  /\ copy[c] \in CapacityStates /\ Counted(copy[c])
         /\ \/ /\ task[c].what = "reserve"
               /\ copy[c].reservations
                    = [row.reservations EXCEPT ![task[c].rfq] = task[c].instrument]
            \/ /\ task[c].what = "release" /\ row.reservations[task[c].rfq] # None
               /\ copy[c].reservations = [row.reservations EXCEPT ![task[c].rfq] = None]
         /\ task[c].what = "reserve" =>
              /\ copy[c].active <= seen[c].quotes /\ copy[c].notional <= seen[c].notional
              /\ copy[c].usage[task[c].instrument] <= seen[c].limit[task[c].instrument]
<1> DEFINE r == task[c].rfq
           i == task[c].instrument
<1>1. r \in Rfqs /\ i \in Instruments /\ row \in CapacityStates /\ Counted(row)
  BY DEF CapacityInv, TypeOK, Tasks
<1>2. CASE task[c].what = "reserve" /\ copy[c] = AddReservation(row, r, i)
  <2> DEFINE t == AddReservation(row, r, i)
  <2>1. /\ t \in CapacityStates /\ Counted(t)
        /\ t.reservations = [row.reservations EXCEPT ![r] = i]
        /\ t.active <= row.active + 1 /\ t.notional <= row.notional + Notional[i]
        /\ t.usage[i] <= row.usage[i] + Notional[i]
    BY <1>1, Added
  <2>2. Available(row, seen[c], i)
    BY <1>2 DEF CapacityInv, Compared
  <2>3. /\ seen[c].quotes \in Nat /\ seen[c].notional \in Nat /\ seen[c].limit[i] \in Nat
        /\ row.active \in Nat /\ row.notional \in Nat /\ row.usage[i] \in Nat /\ Notional[i] \in Nat
        /\ t.active \in Nat /\ t.notional \in Nat /\ t.usage[i] \in Nat
    <3>1. seen[c] \in [quotes : Nat \ {0}, notional : Nat, limit : [Instruments -> Nat]]
      BY CapacityAssumption DEF CapacityInv, TypeOK
    <3>2. Notional[i] \in Nat
      BY <1>1, CapacityAssumption
    <3> HIDE DEF t
    <3>3. QED
      BY <1>1, <2>1, <3>1, <3>2 DEF CapacityStates
  <2> HIDE DEF t, i
  <2>4. /\ t.active <= seen[c].quotes /\ t.notional <= seen[c].notional
        /\ t.usage[i] <= seen[c].limit[i]
    BY <2>1, <2>2, <2>3 DEF Available
  <2>5. copy[c] = t
    BY <1>2 DEF t, i
  <2>6. t.reservations = [row.reservations EXCEPT ![task[c].rfq] = task[c].instrument]
    BY <2>1 DEF i
  <2>7. QED
    BY <1>2, <2>1, <2>4, <2>5, <2>6 DEF i
<1>3. CASE task[c].what = "release" /\ row.reservations[r] # None
           /\ copy[c] = RemoveReservation(row, r)
  BY <1>1, <1>3, Removed
<1>4. QED
  BY <1>2, <1>3 DEF CapacityInv, Prepared

\* The call returns; what it saved, if anything, is the row now.
LEMMA ReturnHolds ==
  ASSUME CapacityInv, NEW c \in Calls, Return(c),
         row' = row \/ (pc[c] = "save" /\ row' = copy[c]),
         UNCHANGED <<config, task, seen, copy>>
  PROVE  CapacityInv'
<1>1. /\ pc' \in [Calls -> Awaits \cup {"idle", "done"}] /\ pc'[c] = "done"
      /\ \A d \in Calls \ {c} : pc'[d] = pc[d]
  BY DEF CapacityInv, TypeOK, Return
<1>2. /\ mutex' \in Calls \cup {NoCall}
      /\ \A d \in Calls \ {c} : mutex = d => mutex' = d
  BY DEF CapacityInv, TypeOK, Return
<1>3. row' \in CapacityStates /\ Counted(row')
  BY PreparedCounted DEF CapacityInv, TypeOK
<1>4. TypeOK'
  BY <1>1, <1>2, <1>3 DEF CapacityInv, TypeOK
<1>5. Exclusive'
  BY <1>1, <1>2 DEF CapacityInv, Exclusive, Inside
<1>6. ASSUME NEW d \in Calls, pc'[d] \in {"load", "save"}
      PROVE  d # c /\ pc'[d] = pc[d] /\ row' = row
  <2>1. d # c /\ pc'[d] = pc[d]
    BY <1>1, <1>6
  <2>2. mutex = d
    BY <1>6, <2>1 DEF CapacityInv, Exclusive, Inside
  <2>3. pc[c] # "save"
    BY <2>1, <2>2 DEF CapacityInv, Exclusive, Inside
  <2>4. QED
    BY <2>1, <2>3
<1>7. Prepared'
  BY <1>6 DEF CapacityInv, Prepared
<1>8. Compared'
  BY <1>6 DEF CapacityInv, Compared
<1>9. QED
  BY <1>3, <1>4, <1>5, <1>7, <1>8 DEF CapacityInv

\* The call goes on to its next await, and the row stays.
LEMMA GoHolds ==
  ASSUME CapacityInv, NEW c \in Calls, NEW here, NEW there \in Awaits, Go(c, here, there),
         there \in Inside => mutex' = c,
         here \in Inside => mutex' = mutex,
         here \notin Inside => mutex' = mutex \/ mutex = NoCall,
         seen' \in [Calls -> Configs], copy' \in [Calls -> CapacityStates],
         \A d \in Calls \ {c} : seen'[d] = seen[d] /\ copy'[d] = copy[d],
         there = "save" =>
           \/ /\ task[c].what = "reserve"
              /\ copy'[c] = AddReservation(row, task[c].rfq, task[c].instrument)
           \/ /\ task[c].what = "release" /\ row.reservations[task[c].rfq] # None
              /\ copy'[c] = RemoveReservation(row, task[c].rfq),
         there \in {"load", "save"} /\ task[c].what = "reserve" =>
           Available(row, seen'[c], task[c].instrument),
         mutex' \in Calls \cup {NoCall},
         UNCHANGED <<row, config, task>>
  PROVE  CapacityInv'
<1>1. /\ pc' \in [Calls -> Awaits \cup {"idle", "done"}] /\ pc[c] = here /\ pc'[c] = there
      /\ \A d \in Calls \ {c} : pc'[d] = pc[d]
  BY DEF CapacityInv, TypeOK, Go
<1>2. TypeOK'
  BY <1>1 DEF CapacityInv, TypeOK
<1>3. Exclusive'
  <2> SUFFICES ASSUME NEW d \in Calls, pc'[d] \in Inside PROVE mutex' = d
    BY DEF Exclusive
  <2>1. CASE d = c
    BY <1>1, <2>1
  <2>2. CASE d # c
    <3>1. pc[d] \in Inside /\ mutex = d /\ mutex # NoCall
      BY <1>1, <2>2, CapacityAssumption DEF CapacityInv, Exclusive
    <3>2. QED
      BY <3>1
  <2>3. QED
    BY <2>1, <2>2
<1>4. Prepared'
  <2> SUFFICES ASSUME NEW d \in Calls, pc'[d] = "save"
               PROVE  \/ /\ task[d].what = "reserve"
                         /\ copy'[d] = AddReservation(row, task[d].rfq, task[d].instrument)
                      \/ /\ task[d].what = "release" /\ row.reservations[task[d].rfq] # None
                         /\ copy'[d] = RemoveReservation(row, task[d].rfq)
    BY DEF Prepared
  <2>1. CASE d = c
    BY <1>1, <2>1
  <2>2. CASE d # c
    BY <1>1, <2>2 DEF CapacityInv, Prepared
  <2>3. QED
    BY <2>1, <2>2
<1>5. Compared'
  <2> SUFFICES ASSUME NEW d \in Calls, pc'[d] \in {"load", "save"}, task[d].what = "reserve"
               PROVE  Available(row, seen'[d], task[d].instrument)
    BY DEF Compared
  <2>1. CASE d = c
    BY <1>1, <2>1
  <2>2. CASE d # c
    BY <1>1, <2>2 DEF CapacityInv, Compared
  <2>3. QED
    BY <2>1, <2>2
<1>6. QED
  BY <1>2, <1>3, <1>4, <1>5 DEF CapacityInv

LEMMA StepHolds == ASSUME CapacityInv, NEW c \in Calls, Step(c) PROVE CapacityInv'
<1>1. /\ mutex \in Calls \cup {NoCall} /\ seen \in [Calls -> Configs] /\ config \in Configs
      /\ copy \in [Calls -> CapacityStates] /\ task[c] \in Tasks
      /\ row \in CapacityStates /\ Counted(row)
      /\ pc[c] \in Inside => mutex = c
  BY DEF CapacityInv, TypeOK, Exclusive
<1>2. {"lock", "config", "check", "load", "save"} \subseteq Awaits
  BY DEF Awaits
<1>3. CASE Call(c)
  BY <1>1, <1>2, <1>3, GoHolds DEF Call, Inside
<1>4. CASE Lock(c)
  <2>1. CASE task[c].what = "reserve"
    <3>1. Go(c, "lock", "config")
      BY <1>4, <2>1 DEF Lock
    <3>2. QED
      BY <1>1, <1>2, <1>4, <3>1, GoHolds DEF Lock, Inside
  <2>2. CASE task[c].what # "reserve"
    <3>1. Go(c, "lock", "load")
      BY <1>4, <2>2 DEF Lock
    <3>2. QED
      BY <1>1, <1>2, <1>4, <2>2, <3>1, GoHolds DEF Lock, Inside
  <2>3. QED
    BY <2>1, <2>2
<1>5. CASE ReadConfig(c)
  <2>1. /\ Go(c, "config", "check") /\ pc[c] = "config"
        /\ seen' \in [Calls -> Configs] /\ \A d \in Calls \ {c} : seen'[d] = seen[d]
    BY <1>1, <1>5 DEF ReadConfig, Go
  <2>2. QED
    BY <1>1, <1>2, <1>5, <2>1, GoHolds DEF ReadConfig, Inside
<1>6. CASE CheckPasses(c)
  <2>1. Go(c, "check", "load") /\ pc[c] = "check"
    BY <1>6 DEF CheckPasses, Go
  <2>2. QED
    BY <1>1, <1>2, <1>6, <2>1, GoHolds DEF CheckPasses, Inside
<1>7. CASE Load(c)
  <2> DEFINE r == task[c].rfq
             i == task[c].instrument
  <2>1. r \in Rfqs /\ i \in Instruments /\ task[c].what \in {"reserve", "release"}
    BY <1>1 DEF Tasks
  <2>2. pc[c] = "load" /\ UNCHANGED <<row, config, task, seen>>
    BY <1>7 DEF Load
  <2>3. CASE task[c].what = "reserve"
    <3>1. /\ copy' = [copy EXCEPT ![c] = AddReservation(row, r, i)]
          /\ Go(c, "load", "save") /\ UNCHANGED mutex
      BY <1>7, <2>3 DEF Load
    <3>2. AddReservation(row, r, i) \in CapacityStates
      BY <1>1, <2>1, Added
    <3>3. /\ copy' \in [Calls -> CapacityStates] /\ copy'[c] = AddReservation(row, r, i)
          /\ \A d \in Calls \ {c} : copy'[d] = copy[d]
      BY <1>1, <3>1, <3>2
    <3>4. Available(row, seen[c], i)
      BY <2>2, <2>3 DEF CapacityInv, Compared
    <3>5. QED
      BY <1>1, <1>2, <2>2, <2>3, <3>1, <3>3, <3>4, GoHolds DEF Inside
  <2>4. CASE task[c].what = "release" /\ row.reservations[r] # None
    <3>1. /\ copy' = [copy EXCEPT ![c] = RemoveReservation(row, r)]
          /\ Go(c, "load", "save") /\ UNCHANGED mutex
      BY <1>7, <2>4 DEF Load
    <3>2. RemoveReservation(row, r) \in CapacityStates
      BY <1>1, <2>1, <2>4, Removed
    <3>3. /\ copy' \in [Calls -> CapacityStates] /\ copy'[c] = RemoveReservation(row, r)
          /\ \A d \in Calls \ {c} : copy'[d] = copy[d]
      BY <1>1, <3>1, <3>2
    <3>4. QED
      BY <1>1, <1>2, <2>2, <2>4, <3>1, <3>3, GoHolds DEF Inside
  <2>5. CASE task[c].what = "release" /\ row.reservations[r] = None
    BY <1>7, <2>2, <2>5, ReturnHolds DEF Load
  <2>6. QED
    BY <2>1, <2>3, <2>4, <2>5
<1>8. CASE CheckExceeds(c) \/ Save(c) \/ Fails(c)
  BY <1>8, ReturnHolds DEF CheckExceeds, Save, Fails
<1>9. QED
  BY <1>3, <1>4, <1>5, <1>6, <1>7, <1>8 DEF Step

LEMMA CapacityStepHolds == CapacityInv /\ [Next]_vars => CapacityInv'
<1> SUFFICES ASSUME CapacityInv, [Next]_vars PROVE CapacityInv'
  OBVIOUS
<1>1. CASE SaveConfig \/ UNCHANGED vars
  <2>1. UNCHANGED <<row, mutex, pc, task, seen, copy>> /\ config' \in Configs
    BY <1>1 DEF SaveConfig, vars, CapacityInv, TypeOK
  <2>2. QED
    BY <2>1 DEF CapacityInv, TypeOK, Exclusive, Prepared, Compared
<1>2. QED
  BY <1>1, StepHolds DEF Next

LEMMA CapacityInductive == Spec => []CapacityInv
BY CapacityInitHolds, CapacityStepHolds, PTL DEF Spec

\* The row, the configuration, the mutex and what the calls hold stay well formed.
THEOREM TypeCorrect == Spec => []TypeOK
BY CapacityInductive, PTL DEF CapacityInv

\* Whatever calls interleave, fail or are dropped, the counters of a market
\* maker's row are the number and the sums of its reservations.
THEOREM CountersRight == Spec => []CountersAreReservations
<1>1. CapacityInv => CountersAreReservations
  BY CountersAreCounted DEF CapacityInv
<1>2. QED
  BY <1>1, CapacityInductive, PTL

\* Only a save changes the row, to what its call has prepared.
LEMMA WhoSaves ==
  ASSUME CapacityInv, Next, row' # row
  PROVE  \E c \in Calls : /\ pc[c] = "save" /\ pc'[c] = "done" /\ row' = copy[c]
                          /\ \A d \in Calls \ {c} : pc'[d] = pc[d]
<1>1. PICK c \in Calls : Save(c) \/ Fails(c)
  BY DEF Next, SaveConfig, Step, Call, Lock, ReadConfig, CheckPasses, CheckExceeds, Load
<1>2. pc[c] = "save" /\ row' = copy[c] /\ Return(c)
  BY <1>1 DEF Save, Fails
<1>3. pc'[c] = "done" /\ \A d \in Calls \ {c} : pc'[d] = pc[d]
  BY <1>2 DEF Return, CapacityInv, TypeOK
<1>4. QED
  BY <1>2, <1>3

\* A reservation is saved within the limits its call has read.
THEOREM WithinLimits == Spec => ReservesWithinLimits
<1> DEFINE Within(c) ==
      LET i == task[c].instrument IN
      /\ row'.active <= seen[c].quotes
      /\ row'.notional <= seen[c].notional
      /\ row'.usage[i] <= seen[c].limit[i]
    Act == \A c \in Calls :
             pc[c] = "save" /\ row' # row /\ pc'[c] = "done" /\ task[c].what = "reserve" => Within(c)
<1>1. ASSUME CapacityInv, [Next]_vars PROVE [Act]_vars
  <2> SUFFICES ASSUME Next, NEW c \in Calls, pc[c] = "save", row' # row, pc'[c] = "done",
                      task[c].what = "reserve"
               PROVE  Within(c)
    BY <1>1
  <2>1. PICK d \in Calls : row' = copy[d] /\ \A e \in Calls \ {d} : pc'[e] = pc[e]
    BY <1>1, WhoSaves
  <2>2. d = c
    BY <2>1
  <2>3. QED
    BY <1>1, <2>1, <2>2, PreparedCounted
<1>2. QED
  BY <1>1, CapacityInductive, PTL DEF Spec, ReservesWithinLimits

\* A reservation in the row changes only by the save of a call for its RFQ.
THEOREM UpdatesKept == Spec => NoLostUpdate
<1> DEFINE Act == \A r \in Rfqs :
                    row'.reservations[r] # row.reservations[r] =>
                      \E c \in Calls : pc[c] = "save" /\ pc'[c] = "done" /\ task[c].rfq = r
<1>1. ASSUME CapacityInv, [Next]_vars PROVE [Act]_vars
  <2> SUFFICES ASSUME Next, NEW r \in Rfqs, row'.reservations[r] # row.reservations[r]
               PROVE  \E c \in Calls : pc[c] = "save" /\ pc'[c] = "done" /\ task[c].rfq = r
    BY <1>1
  <2>1. PICK c \in Calls : pc[c] = "save" /\ pc'[c] = "done" /\ row' = copy[c]
    BY <1>1, WhoSaves
  <2>2. PICK x \in Instruments \cup {None} :
          row'.reservations = [row.reservations EXCEPT ![task[c].rfq] = x]
    <3>1. task[c].instrument \in Instruments
      BY <1>1 DEF CapacityInv, TypeOK, Tasks
    <3>2. QED
      BY <1>1, <2>1, <3>1, PreparedCounted
  <2>3. row.reservations \in [Rfqs -> Instruments \cup {None}]
    BY <1>1 DEF CapacityInv, TypeOK, CapacityStates
  <2>4. QED
    BY <2>1, <2>2, <2>3
<1>2. QED
  BY <1>1, CapacityInductive, PTL DEF Spec, NoLostUpdate

LEMMA LedgerCounts ==
  /\ \A S : Ledger!Cardinality(S) = Cardinality(S)
  /\ \A u : Ledger!Sum(u) = Total(u)
<1>1. \A S : Ledger!Cardinality(S) = Cardinality(S)
  BY DEF Ledger!Cardinality, Cardinality
<1>2. \A u : Ledger!Sum(u) = Total(u)
  BY DEF Ledger!Sum, Ledger!MapThenSumSet, Ledger!MapThenFoldSet, MapThenSumSet, MapThenFoldSet, Total
<1>3. QED
  BY <1>1, <1>2

LEMMA CountedIsDerived ==
  /\ row \in CapacityStates /\ Counted(row) => Ledger!Derived
  /\ row' \in CapacityStates /\ Counted(row') => Ledger!Derived'
<1>1. ASSUME NEW s \in CapacityStates, Counted(s)
      PROVE  /\ s.active = Cardinality({r \in Rfqs : s.reservations[r] # None})
             /\ s.usage = [i \in Instruments |->
                            Notional[i] * Cardinality({r \in Rfqs : s.reservations[r] = i})]
             /\ s.notional = Total(s.usage)
  <2>1. Among(Rfqs, s.reservations, Instruments) = {r \in Rfqs : s.reservations[r] # None}
    BY CapacityAssumption DEF Among, CapacityStates
  <2>2. \A i \in Instruments : Among(Rfqs, s.reservations, {i}) = {r \in Rfqs : s.reservations[r] = i}
    BY DEF Among
  <2>3. \A i \in Instruments : s.usage[i] =
          Notional[i] * Cardinality({r \in Rfqs : s.reservations[r] = i})
    BY <1>1, <2>2 DEF Counted, Counts, HowMany
  <2>4. s.usage \in [Instruments -> Nat]
    BY DEF CapacityStates
  <2>5. s.usage = [i \in Instruments |->
                     Notional[i] * Cardinality({r \in Rfqs : s.reservations[r] = i})]
    BY <2>3, <2>4
  <2>6. QED
    BY <1>1, <2>1, <2>5 DEF Counted, Counts, HowMany
<1>2. row \in CapacityStates /\ Counted(row) => Ledger!Derived
  <2> SUFFICES ASSUME row \in CapacityStates, Counted(row) PROVE Ledger!Derived
    OBVIOUS
  <2>1. /\ row.active = Cardinality({r \in Rfqs : row.reservations[r] # None})
        /\ row.usage = [i \in Instruments |->
                         Notional[i] * Cardinality({r \in Rfqs : row.reservations[r] = i})]
        /\ row.notional = Total(row.usage)
    BY <1>1
  <2>2. QED
    BY <2>1, LedgerCounts DEF Ledger!Derived
<1>3. row' \in CapacityStates /\ Counted(row') => Ledger!Derived'
  <2> SUFFICES ASSUME row' \in CapacityStates, Counted(row') PROVE Ledger!Derived'
    OBVIOUS
  <2>1. /\ row'.active = Cardinality({r \in Rfqs : row'.reservations[r] # None})
        /\ row'.usage = [i \in Instruments |->
                          Notional[i] * Cardinality({r \in Rfqs : row'.reservations[r] = i})]
        /\ row'.notional = Total(row'.usage)
    BY <1>1
  <2>2. QED
    BY <2>1, LedgerCounts DEF Ledger!Derived
<1>4. QED
  BY <1>2, <1>3

LEMMA SaveStep ==
  ASSUME CapacityInv, NEW c \in Calls, pc[c] = "save", row' = copy[c]
  PROVE  Ledger!Next
<1>1. task[c].rfq \in Rfqs /\ task[c].instrument \in Instruments /\ seen[c] \in Configs
  BY DEF CapacityInv, TypeOK, Tasks
<1>2. Ledger!Derived'
  BY PreparedCounted, CountedIsDerived
<1>3. CASE /\ task[c].what = "reserve"
           /\ row'.reservations = [row.reservations EXCEPT ![task[c].rfq] = task[c].instrument]
  <2>1. /\ row'.active <= seen[c].quotes /\ row'.notional <= seen[c].notional
        /\ row'.usage[task[c].instrument] <= seen[c].limit[task[c].instrument]
    BY <1>3, PreparedCounted
  <2>2. Ledger!Reserve(task[c].rfq, task[c].instrument)
    BY <1>1, <1>2, <1>3, <2>1 DEF Ledger!Reserve
  <2>3. QED
    BY <1>1, <2>2 DEF Ledger!Next
<1>4. CASE /\ row.reservations[task[c].rfq] # None
           /\ row'.reservations = [row.reservations EXCEPT ![task[c].rfq] = None]
  <2>1. Ledger!Release(task[c].rfq)
    BY <1>2, <1>4 DEF Ledger!Release
  <2>2. QED
    BY <1>1, <2>1 DEF Ledger!Next
<1>5. QED
  BY <1>3, <1>4, PreparedCounted

\* The calls of a market maker, whatever fails, is answered late or is dropped,
\* change its row like a ledger that takes single reservations and releases.
THEOREM LedgerKept == Spec => KeepsLedger
<1>1. Init => Ledger!Init
  <2> SUFFICES ASSUME Init PROVE Ledger!Init
    OBVIOUS
  <2>1. row \in CapacityStates /\ Counted(row)
    BY EmptyCounted DEF Init
  <2>2. row.reservations = [r \in Rfqs |-> None]
    BY DEF Init, Empty
  <2>3. QED
    BY <2>1, <2>2, CountedIsDerived DEF Ledger!Init
<1>2. CapacityInv /\ [Next]_vars => [Ledger!Next]_(Ledger!ledgerVars)
  <2> SUFFICES ASSUME CapacityInv, [Next]_vars
               PROVE  Ledger!Next \/ UNCHANGED Ledger!ledgerVars
    OBVIOUS
  <2>1. CASE row' = row
    BY <2>1 DEF Ledger!ledgerVars
  <2>2. CASE row' # row
    <3>1. Next
      BY <2>2 DEF vars
    <3>2. PICK c \in Calls : pc[c] = "save" /\ row' = copy[c]
      BY <2>2, <3>1, WhoSaves
    <3>3. QED
      BY <3>2, SaveStep
  <2>3. QED
    BY <2>1, <2>2
<1>3. QED
  BY <1>1, <1>2, CapacityInductive, PTL DEF Spec, KeepsLedger, Ledger!Spec
=============================================================================
