---------------------- MODULE MultiLegExecutionProofs ----------------------
(***************************************************************************)
(* Proofs about MultiLegExecution, for packages of any length and any number *)
(* of rollback attempts.                                                     *)
(***************************************************************************)
EXTENDS MultiLegExecution, TLAPS

\* What execute knows at each await and of each result.
InStep ==
  /\ pc = "ready" => executed = 0
  /\ pc \in {"ready", "leg"} => rolledBack = 0 /\ attempts = 0 /\ hidden = {}
  /\ pc \in {"leg", "rollback"} => executed < NumLegs
  /\ pc = "rollback" => rolledBack < executed /\ attempts < MaxRollbackAttempts
  /\ pc # "done" => result = "none"
  /\ result = "Completed" => executed = NumLegs /\ rolledBack = 0 /\ hidden = {}
  /\ result = "RolledBack" /\ MaxRollbackAttempts > 0 => rolledBack = executed
  /\ result = "PartialFailure" => rolledBack < executed /\ executed < NumLegs

\* Only the leg that failed and those whose compensation was tried are in doubt.
DoubtIsLocal == \A l \in hidden : Compensating <= l /\ l <= executed + 1

\* What the legs in doubt can be at.
DoubtIsBounded ==
  \A l \in Legs :
    /\ l = executed + 1 => position[l] \in {0, 1}
    /\ l = Compensating =>
         /\ position[l] <= 1 /\ position[l] >= 1 - MaxRollbackAttempts
         /\ pc # "done" => position[l] >= 1 - attempts
    /\ Compensating < l /\ l <= executed =>
         position[l] <= 0 /\ position[l] >= 1 - MaxRollbackAttempts

\* TypeOK without the bounds on position, which follow.
Typed == /\ pc \in {"ready", "leg", "rollback", "done"}
         /\ executed \in 0 .. NumLegs /\ rolledBack \in 0 .. executed
         /\ attempts \in 0 .. MaxRollbackAttempts
         /\ position \in [Legs -> Int]
         /\ hidden \subseteq Legs
         /\ result \in Results \cup {"none", "lost"}

IInv == Typed /\ InStep /\ CountsAreTheBook /\ DoubtIsLocal /\ DoubtIsBounded

USE MultiLegAssumption DEF Legs, Compensating, Finish, Answered
-----------------------------------------------------------------------------
LEMMA TradeFacts ==
  ASSUME position \in [Legs -> Int], NEW l \in Legs, NEW c \in Int, Trade(l, c)
  PROVE  /\ position' \in [Legs -> Int]
         /\ position'[l] = position[l] + c
         /\ \A k \in Legs \ {l} : position'[k] = position[k]
BY DEF Trade

\* Whatever the venue did with a request that was not answered, only its leg
\* can have changed, and if it did the leg is in doubt.
LEMMA UnansweredFacts ==
  ASSUME Typed, NEW l \in Legs, NEW c \in Int, Unanswered(l, c)
  PROVE  /\ position' \in [Legs -> Int] /\ hidden' \subseteq Legs
         /\ \A k \in Legs \ {l} : position'[k] = position[k]
         /\ hidden' \subseteq hidden \cup {l} /\ hidden \subseteq hidden'
         /\ position'[l] = position[l] \/ (position'[l] = position[l] + c /\ l \in hidden')
<1>1. CASE UNCHANGED <<position, hidden>>
  BY <1>1 DEF Typed
<1>2. CASE Trade(l, c) /\ hidden' = hidden \cup {l}
  BY <1>2, TradeFacts DEF Typed
<1>3. QED
  BY <1>1, <1>2 DEF Unanswered

\* While legs are executed nothing is in doubt: those behind are open, the
\* others are not.
LEMMA LegFacts ==
  ASSUME IInv, pc = "leg"
  PROVE  /\ executed + 1 \in Legs /\ hidden = {}
         /\ \A k \in 1 .. executed : position[k] = 1
         /\ \A k \in executed + 1 .. NumLegs : position[k] = 0
BY DEF IInv, Typed, InStep, CountsAreTheBook

\* During the rollback the legs below the current one are open.
LEMMA RollbackFacts ==
  ASSUME IInv, pc = "rollback"
  PROVE  /\ Compensating \in Legs /\ Compensating <= executed /\ executed < NumLegs
         /\ attempts < MaxRollbackAttempts
         /\ \A k \in 1 .. Compensating - 1 : position[k] = 1 /\ k \notin hidden
         /\ \A k \in Compensating + 1 .. executed : position[k] <= 0
BY DEF IInv, Typed, InStep, CountsAreTheBook, DoubtIsLocal, DoubtIsBounded
-----------------------------------------------------------------------------
LEMMA StartStep == ASSUME IInv, Start PROVE IInv'
BY DEF IInv, Start, Typed, InStep, CountsAreTheBook, DoubtIsLocal, DoubtIsBounded, Results

LEMMA LegExecutedStep == ASSUME IInv, LegExecuted PROVE IInv'
<1>1. /\ pc = "leg" /\ executed' = executed + 1 /\ hidden' = {}
      /\ UNCHANGED <<rolledBack, attempts>> /\ rolledBack = 0 /\ attempts = 0
      /\ IF executed + 1 = NumLegs THEN pc' = "done" /\ result' = "Completed"
                                   ELSE pc' = pc /\ result' = result
  BY LegFacts DEF LegExecuted, IInv, InStep
<1>2. /\ position' \in [Legs -> Int] /\ position'[executed + 1] = 1
      /\ \A k \in Legs \ {executed + 1} : position'[k] = position[k]
  BY LegFacts, TradeFacts DEF LegExecuted, IInv, Typed
<1>3. Typed' /\ InStep'
  BY <1>1, <1>2, LegFacts DEF IInv, Typed, InStep, Results
<1>4. \A k \in Legs : position'[k] = IF k <= executed' THEN 1 ELSE 0
  BY <1>1, <1>2, LegFacts DEF IInv, Typed
<1>5. CountsAreTheBook' /\ DoubtIsLocal' /\ DoubtIsBounded'
  BY <1>1, <1>3, <1>4 DEF Typed, CountsAreTheBook, DoubtIsLocal, DoubtIsBounded
<1>6. QED
  BY <1>3, <1>5 DEF IInv

\* A leg that failed, or was cut off, may be open without being counted.
LEMMA LegFailedStep ==
  ASSUME IInv, LegFailed \/ (pc = "leg" /\ \E r \in {"Timeout", "lost"} : CutOff(r))
  PROVE  IInv'
<1>1. /\ pc = "leg" /\ rolledBack = 0 /\ attempts = 0 /\ hidden = {}
      /\ Unanswered(executed + 1, 1) /\ UNCHANGED <<executed, rolledBack, attempts>>
      /\ \/ pc' = "done" /\ result' \in {"Timeout", "lost"}
         \/ /\ pc' = "done" /\ result' = "RolledBack"
            /\ executed = 0 \/ MaxRollbackAttempts = 0
         \/ /\ pc' = "rollback" /\ result' = "none"
            /\ executed # 0 /\ MaxRollbackAttempts # 0
  BY LegFacts DEF LegFailed, CutOff, IInv, InStep
<1>2. /\ position' \in [Legs -> Int] /\ hidden' \subseteq {executed + 1} /\ hidden' \subseteq Legs
      /\ \A k \in Legs \ {executed + 1} : position'[k] = position[k]
      /\ position'[executed + 1] \in {0, 1}
      /\ position'[executed + 1] = 1 => executed + 1 \in hidden'
  BY <1>1, LegFacts, UnansweredFacts DEF IInv
<1>3. Typed' /\ InStep'
  BY <1>1, <1>2, LegFacts DEF IInv, Typed, InStep, Results
<1>4. \A k \in Legs : /\ k <= executed => position'[k] = 1
                      /\ k > executed + 1 => position'[k] = 0
  BY <1>1, <1>2, LegFacts DEF IInv, Typed
<1>5. CountsAreTheBook' /\ DoubtIsLocal' /\ DoubtIsBounded'
  BY <1>1, <1>2, <1>3, <1>4 DEF Typed, CountsAreTheBook, DoubtIsLocal, DoubtIsBounded
<1>6. QED
  BY <1>3, <1>5 DEF IInv

LEMMA CompensatedStep == ASSUME IInv, Compensated PROVE IInv'
<1> DEFINE c == Compensating
<1>1. /\ pc = "rollback" /\ UNCHANGED <<executed, hidden>>
      /\ rolledBack' = rolledBack + 1 /\ attempts' = 0
      /\ IF rolledBack + 1 = executed THEN pc' = "done" /\ result' = "RolledBack"
                                      ELSE pc' = pc /\ result' = result
  BY DEF Compensated
<1>2. /\ position' \in [Legs -> Int] /\ position'[c] = position[c] - 1
      /\ \A k \in Legs \ {c} : position'[k] = position[k]
  BY RollbackFacts, TradeFacts DEF Compensated, IInv, Typed
<1>3. Typed' /\ InStep'
  BY <1>1, <1>2, RollbackFacts DEF IInv, Typed, InStep, Results
<1>4. c \in Legs /\ c' = c - 1
  BY <1>1, RollbackFacts DEF IInv, Typed
<1>5. CountsAreTheBook'
  BY <1>1, <1>2, <1>4, RollbackFacts DEF IInv, Typed, CountsAreTheBook
<1>6. DoubtIsLocal'
  BY <1>1, <1>4 DEF IInv, Typed, DoubtIsLocal
<1>7. DoubtIsBounded'
  <2> SUFFICES ASSUME NEW l \in Legs
               PROVE  /\ l = executed + 1 => position'[l] \in {0, 1}
                      /\ l = c - 1 =>
                           /\ position'[l] <= 1 /\ position'[l] >= 1 - MaxRollbackAttempts
                           /\ pc' # "done" => position'[l] >= 1 - attempts'
                      /\ c - 1 < l /\ l <= executed =>
                           position'[l] <= 0 /\ position'[l] >= 1 - MaxRollbackAttempts
    BY <1>1, <1>4 DEF DoubtIsBounded
  <2>1. CASE l = c
    <3>1. position[l] <= 1 /\ position[l] >= 1 - attempts /\ attempts < MaxRollbackAttempts
      BY <1>1, <2>1, RollbackFacts DEF IInv, DoubtIsBounded
    <3>2. QED
      BY <1>1, <1>2, <2>1, <3>1, RollbackFacts DEF IInv, Typed
  <2>2. CASE l < c
    BY <1>1, <1>2, <2>2, RollbackFacts DEF IInv, Typed
  <2>3. CASE l > c
    BY <1>2, <2>3 DEF IInv, Typed, DoubtIsBounded
  <2>4. QED
    BY <1>4, <2>1, <2>2, <2>3 DEF IInv, Typed
<1>8. QED
  BY <1>3, <1>5, <1>6, <1>7 DEF IInv

\* An attempt that was not confirmed puts the current leg in doubt.
LEMMA CompensationFailedStep ==
  ASSUME IInv,
         CompensationFailed \/ (pc = "rollback" /\ \E r \in {"Timeout", "lost"} : CutOff(r))
  PROVE  IInv'
<1> DEFINE c == Compensating
<1>1. /\ pc = "rollback" /\ UNCHANGED <<executed, rolledBack>>
      /\ Unanswered(c, -1)
      /\ \/ /\ attempts' = attempts /\ pc' = "done" /\ result' \in {"Timeout", "lost"}
         \/ /\ attempts' = attempts + 1 /\ pc' = "done" /\ result' = "PartialFailure"
            /\ attempts' = MaxRollbackAttempts
         \/ /\ attempts' = attempts + 1 /\ pc' = pc /\ result' = result
            /\ attempts' # MaxRollbackAttempts
  BY DEF CompensationFailed, CutOff
<1>2. /\ position' \in [Legs -> Int] /\ hidden' \subseteq hidden \cup {c} /\ hidden' \subseteq Legs
      /\ \A k \in Legs \ {c} : position'[k] = position[k]
      /\ position'[c] = position[c] \/ (position'[c] = position[c] - 1 /\ c \in hidden')
      /\ hidden \subseteq hidden'
  <2>1. c \in Legs /\ -1 \in Int /\ Typed /\ Unanswered(c, -1)
    BY <1>1, RollbackFacts DEF IInv
  <2>2. position[c] \in Int /\ position[c] + (-1) = position[c] - 1
    BY <2>1 DEF Typed
  <2>3. QED
    BY <2>1, <2>2, UnansweredFacts DEF Typed
<1>3. Typed' /\ InStep'
  BY <1>1, <1>2, RollbackFacts DEF IInv, Typed, InStep, Results
<1>4. c \in Legs /\ c' = c
  BY <1>1, RollbackFacts
<1>5. CountsAreTheBook'
  BY <1>1, <1>2, <1>4, RollbackFacts DEF IInv, Typed, CountsAreTheBook
<1>6. DoubtIsLocal'
  BY <1>1, <1>2, <1>4, RollbackFacts DEF IInv, Typed, DoubtIsLocal
<1>7. DoubtIsBounded'
  BY <1>1, <1>2, <1>4, RollbackFacts DEF IInv, Typed, DoubtIsBounded
<1>8. QED
  BY <1>3, <1>5, <1>6, <1>7 DEF IInv

LEMMA Inductive == Spec => []IInv
<1>1. Init => IInv
  BY DEF Init, IInv, Typed, InStep, CountsAreTheBook, DoubtIsLocal, DoubtIsBounded
<1>2. IInv /\ [Next]_vars => IInv'
  <2> SUFFICES ASSUME IInv, [Next]_vars PROVE IInv'
    OBVIOUS
  <2>1. CASE UNCHANGED vars
    BY <2>1 DEF vars, IInv, Typed, InStep, CountsAreTheBook, DoubtIsLocal, DoubtIsBounded
  <2>2. CASE \E r \in {"Timeout", "lost"} : CutOff(r)
    <3>1. pc = "leg" \/ pc = "rollback"
      BY <2>2 DEF CutOff
    <3>2. QED
      BY <2>2, <3>1, LegFailedStep, CompensationFailedStep
  <2>3. QED
    BY <2>1, <2>2, StartStep, LegExecutedStep, LegFailedStep, CompensatedStep,
       CompensationFailedStep DEF Next
<1>3. QED
  BY <1>1, <1>2, PTL DEF Spec
-----------------------------------------------------------------------------
\* The state stays well typed: no leg is compensated more often than attempts
\* allow, whatever the venue hides.
THEOREM TypeCorrect == Spec => []TypeOK
<1>1. IInv => TypeOK
  <2> SUFFICES ASSUME IInv PROVE TypeOK
    OBVIOUS
  <2>1. ASSUME NEW l \in Legs PROVE position[l] \in -MaxRollbackAttempts .. 1
    <3>1. CASE l > executed + 1
      BY <3>1 DEF IInv, Typed, CountsAreTheBook, DoubtIsLocal
    <3>2. CASE l < Compensating
      BY <3>2 DEF IInv, Typed, CountsAreTheBook, DoubtIsLocal
    <3>3. CASE l \in Compensating .. executed + 1
      BY <3>3 DEF IInv, Typed, DoubtIsBounded
    <3>4. QED
      BY <3>1, <3>2, <3>3 DEF IInv, Typed
  <2>2. QED
    BY <2>1 DEF IInv, Typed, TypeOK
<1>2. QED
  BY <1>1, Inductive, PTL

\* The executor's counts say what is open at the venue, but for what it hid.
THEOREM BookCounted == Spec => []CountsAreTheBook
BY Inductive, PTL DEF IInv

\* Completed and RolledBack say what became of every leg.
THEOREM ResultTrue == Spec => []ResultIsTrue
<1>1. IInv => ResultIsTrue
  BY DEF IInv, Typed, InStep, CountsAreTheBook, DoubtIsLocal, DoubtIsBounded, ResultIsTrue
<1>2. QED
  BY <1>1, Inductive, PTL

\* What PartialFailure says of every leg, the one that failed included.
THEOREM PartialBounded == Spec => []PartialFailureIsBounded
<1>1. IInv => PartialFailureIsBounded
  <2> SUFFICES ASSUME IInv, result = "PartialFailure", NEW l \in Legs
               PROVE  /\ rolledBack < executed /\ executed < NumLegs
                      /\ l < Compensating => position[l] = 1
                      /\ position[l] > 0 =>
                           l <= Compensating \/ (l = executed + 1 /\ l \in hidden)
                      /\ position[l] < 0 => l \in Compensating .. executed /\ l \in hidden
    BY DEF IInv, InStep, PartialFailureIsBounded
  <2>1. rolledBack < executed /\ executed < NumLegs
    BY DEF IInv, InStep
  <2>2. l < Compensating => position[l] = 1
    BY DEF IInv, Typed, CountsAreTheBook, DoubtIsLocal
  <2>3. position[l] > 0 => l <= Compensating \/ (l = executed + 1 /\ l \in hidden)
    BY DEF IInv, Typed, CountsAreTheBook, DoubtIsLocal, DoubtIsBounded
  <2>4. position[l] < 0 => l \in Compensating .. executed /\ l \in hidden
    BY DEF IInv, Typed, CountsAreTheBook, DoubtIsLocal, DoubtIsBounded
  <2>5. QED
    BY <2>1, <2>2, <2>3, <2>4
<1>2. QED
  BY <1>1, Inductive, PTL

\* Legs are opened in order and unwound in reverse.
THEOREM InOrder == Spec => SagaOrder
<1>1. IInv /\ [Next]_vars =>
        [\A l \in Legs :
           /\ position'[l] > position[l] => /\ \A k \in 1 .. l - 1 : position[k] = 1
                                            /\ \A k \in l .. NumLegs : position[k] = 0
           /\ position'[l] < position[l] => /\ l <= executed
                                            /\ \A k \in l + 1 .. executed : position[k] <= 0]_vars
  <2> SUFFICES ASSUME IInv, Next, NEW l \in Legs, position'[l] # position[l]
               PROVE  /\ position'[l] > position[l] => /\ \A k \in 1 .. l - 1 : position[k] = 1
                                                      /\ \A k \in l .. NumLegs : position[k] = 0
                      /\ position'[l] < position[l] => /\ l <= executed
                                                      /\ \A k \in l + 1 .. executed : position[k] <= 0
    BY DEF IInv, Typed
  <2>1. CASE pc = "leg" /\ (Trade(executed + 1, 1) \/ Unanswered(executed + 1, 1))
    <3>1. l = executed + 1 /\ position'[l] = position[l] + 1
      BY <2>1, LegFacts, TradeFacts, UnansweredFacts DEF IInv, Typed
    <3>2. QED
      BY <3>1, <2>1, LegFacts DEF IInv, Typed
  <2>2. CASE pc = "rollback" /\ (Trade(Compensating, -1) \/ Unanswered(Compensating, -1))
    <3>1. l = Compensating /\ position'[l] = position[l] - 1
      BY <2>2, RollbackFacts, TradeFacts, UnansweredFacts DEF IInv, Typed
    <3>2. QED
      BY <3>1, <2>2, RollbackFacts DEF IInv, Typed
  <2>3. QED
    BY <2>1, <2>2 DEF Next, Start, LegExecuted, LegFailed, Compensated, CompensationFailed, CutOff
<1>2. QED
  BY <1>1, Inductive, PTL DEF Spec, SagaOrder
=============================================================================
