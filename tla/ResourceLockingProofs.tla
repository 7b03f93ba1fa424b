------------------------ MODULE ResourceLockingProofs ------------------------
(***************************************************************************)
(* Proofs about ResourceLocking, for any executions, resources and times.    *)
(* What is said of the locks of one request needs KeysDistinct: without it   *)
(* EndedHoldNothing is false.                                               *)
(***************************************************************************)
EXTENDS ResourceLocking, WellFoundedInduction, TLAPS

USE DEF Go, End

KeysDistinct == \A r, s \in Resources : Key[r] = Key[s] => r = s

\* What the operations on a lock return.
LEMMA LockFacts ==
  /\ Free \in Locks /\ Free.holder = NoHolder
  /\ \A p \in Holders : Taken(p) \in Locks /\ Taken(p).holder = p /\ Taken(p).left = LockTtl
  /\ \A l \in Locks :
       /\ Aged(l) \in Locks
       /\ l.left > 1 => Aged(l).holder = l.holder /\ Aged(l).left = l.left - 1
       /\ l.left <= 1 => Aged(l) = Free
BY TtlAssumption DEF Free, Taken, Locks, Aged

\* TypeOK is inductive.
LEMMA TypeStep == TypeOK /\ [Next]_vars => TypeOK'
<1> SUFFICES ASSUME TypeOK, [Next]_vars PROVE TypeOK'
  OBVIOUS
<1> USE LockFacts, TtlAssumption, ResourcesAssumption DEF TypeOK, Phases, Working
<1>1. CASE UNCHANGED vars
  BY <1>1 DEF vars
<1>2. CASE Tick
  <2>1. elapsed' \in [Holders -> 0 .. Horizon]
    BY <1>2 DEF Tick, Horizon
  <2>2. QED
    BY <1>2, <2>1 DEF Tick
<1>3. ASSUME NEW p \in Holders, Step(p) PROVE TypeOK'
  <2>1. CASE \E want \in Requests : Begin(p, want)
    BY <2>1 DEF Begin
  <2>2. ASSUME NEW r \in Resources, Acquire(p, r) PROVE TypeOK'
    BY <2>2 DEF Acquire
  <2>3. ASSUME NEW r \in Resources, Rollback(p, r) \/ Release(p, r) PROVE TypeOK'
    BY <2>3 DEF Rollback, Release, GiveBack
  <2>4. ASSUME NEW r \in Resources, GiveUp(p, r) \/ ReleaseStops(p, r) PROVE TypeOK'
    BY <2>4 DEF GiveUp, ReleaseStops
  <2>5. CASE OperationEnds(p) \/ Drop(p)
    BY <2>5 DEF OperationEnds, Drop
  <2>6. QED
    BY <1>3, <2>1, <2>2, <2>3, <2>4, <2>5 DEF Step
<1>4. QED
  BY <1>1, <1>2, <1>3 DEF Next

\* The state stays well typed.
THEOREM TypeCorrect == Spec => []TypeOK
<1>1. Init => TypeOK
  BY LockFacts, TtlAssumption, ResourcesAssumption DEF Init, TypeOK, Phases, Horizon
<1>2. QED
  BY <1>1, TypeStep, PTL DEF Spec

\* A lock changes hands only by its holder's release or rollback, or by expiry.
THEOREM HolderReleases == Spec => OnlyHolderReleases
<1>1. TypeOK /\ [Next]_vars =>
        [\A k \in Keys, p \in Holders :
           locks[k].holder = p /\ locks'[k].holder # p =>
             locks[k].left <= 1 \/ pc[p] \in {"release", "rollback"}]_vars
  <2> SUFFICES ASSUME TypeOK, [Next]_vars, NEW k \in Keys, NEW p \in Holders,
                      locks[k].holder = p, locks'[k].holder # p, ~(locks[k].left <= 1)
               PROVE  pc[p] \in {"release", "rollback"}
    OBVIOUS
  <2>1. ~Tick
    <3> SUFFICES ASSUME Tick PROVE FALSE
      OBVIOUS
    <3>1. locks'[k] = Aged(locks[k]) /\ locks[k] \in Locks
      BY DEF Tick, TypeOK
    <3>2. QED
      BY <3>1, LockFacts DEF Locks
  <2>2. PICK c \in Holders : Step(c)
    BY <2>1 DEF Next, vars
  <2>3. PICK r \in Resources : Acquire(c, r) \/ Rollback(c, r) \/ Release(c, r)
    BY <2>2 DEF Step, Begin, GiveUp, ReleaseStops, OperationEnds, Drop
  <2>4. CASE Acquire(c, r)
    BY <2>4, LockFacts, TtlAssumption, ResourcesAssumption DEF Acquire, OpenTo, TypeOK
  <2>5. CASE Rollback(c, r) \/ Release(c, r)
    BY <2>5, ResourcesAssumption DEF Rollback, Release, GiveBack, TypeOK
  <2>6. QED
    BY <2>3, <2>4, <2>5
<1>2. QED
  BY <1>1, TypeCorrect, PTL DEF Spec, OnlyHolderReleases
-----------------------------------------------------------------------------
(***************************************************************************)
(* The inductive invariant of the rest: what each phase has locked, that a   *)
(* lock belongs to an execution that knows of it or was dropped, and that     *)
(* the locks of one execution expire in the order they were taken.           *)
(***************************************************************************)
Progress == \A p \in Holders :
              /\ pc[p] = "idle" => held[p] = {}
              /\ pc[p] = "acquire" => \A r \in held[p], t \in todo[p] : r < t
              /\ pc[p] \in {"idle", "acquire", "execute"} => outcome[p] = "none"

LocksAccounted ==
  \A k \in Keys, p \in Holders :
    locks[k].holder = p => /\ pc[p] # "idle"
                           /\ \/ outcome[p] = "lost"
                              \/ pc[p] \in Working /\ \E r \in held[p] : Key[r] = k

ExpireInOrder ==
  \A p \in Holders : pc[p] \in Working =>
    \A r, s \in held[p] :
      r < s /\ locks[Key[r]].holder = p =>
        locks[Key[s]].holder = p /\ locks[Key[r]].left <= locks[Key[s]].left

IInv == TypeOK /\ Progress /\ LocksAccounted /\ ExpireInOrder /\ YoungHoldAll

LEMMA ProgressStep == TypeOK /\ Progress /\ [Next]_vars => Progress'
<1> SUFFICES ASSUME TypeOK, Progress, [Next]_vars PROVE Progress'
  OBVIOUS
<1> USE ResourcesAssumption DEF TypeOK, Progress
<1>1. CASE UNCHANGED vars \/ Tick
  BY <1>1 DEF vars, Tick
<1>2. ASSUME NEW p \in Holders, Step(p) PROVE Progress'
  <2>1. CASE \E want \in Requests : Begin(p, want)
    BY <2>1 DEF Begin
  <2>2. ASSUME NEW r \in Resources, Acquire(p, r) PROVE Progress'
    <3>1. \A t \in todo[p] \ {r} : r < t
      BY <2>2 DEF Acquire, First
    <3>2. QED
      BY <2>2, <3>1 DEF Acquire
  <2>3. ASSUME NEW r \in Resources, Rollback(p, r) \/ Release(p, r) PROVE Progress'
    BY <2>3 DEF Rollback, Release, GiveBack
  <2>4. ASSUME NEW r \in Resources, GiveUp(p, r) \/ ReleaseStops(p, r) PROVE Progress'
    BY <2>4 DEF GiveUp, ReleaseStops
  <2>5. CASE OperationEnds(p) \/ Drop(p)
    BY <2>5 DEF OperationEnds, Drop, Working, Phases
  <2>6. QED
    BY <1>2, <2>1, <2>2, <2>3, <2>4, <2>5 DEF Step
<1>3. QED
  BY <1>1, <1>2 DEF Next

\* What each action does to the locks, held and pc of every execution.
LEMMA Moves ==
  ASSUME TypeOK, Progress, NEW c \in Holders, Step(c)
  PROVE  \/ /\ UNCHANGED <<locks, held>>
            /\ \A p \in Holders \ {c} : pc'[p] = pc[p] /\ outcome'[p] = outcome[p]
            /\ pc[c] \in Working \/ held[c] = {}
         \/ \E r \in Resources : Acquire(c, r)
         \/ \E r \in Resources : Rollback(c, r) \/ Release(c, r)
<1> USE DEF TypeOK, Progress, Working, Phases
<1>1. CASE \E want \in Requests : Begin(c, want)
  BY <1>1 DEF Begin
<1>2. ASSUME NEW r \in Resources, GiveUp(c, r) \/ ReleaseStops(c, r)
      PROVE  /\ UNCHANGED <<locks, held>> /\ pc[c] \in Working
             /\ \A p \in Holders \ {c} : pc'[p] = pc[p] /\ outcome'[p] = outcome[p]
  BY <1>2 DEF GiveUp, ReleaseStops
<1>3. CASE OperationEnds(c) \/ Drop(c)
  BY <1>3 DEF OperationEnds, Drop
<1>4. QED
  BY <1>1, <1>2, <1>3 DEF Step

\* The locks of an execution keep the order of their expiry.
LEMMA OrderStep ==
  ASSUME KeysDistinct, TypeOK, Progress, LocksAccounted, ExpireInOrder, [Next]_vars
  PROVE  ExpireInOrder'
<1> SUFFICES ASSUME NEW p \in Holders, pc'[p] \in Working,
                    NEW r \in held'[p], NEW s \in held'[p],
                    r < s, locks'[Key[r]].holder = p
             PROVE  /\ locks'[Key[s]].holder = p
                    /\ locks'[Key[r]].left <= locks'[Key[s]].left
  BY DEF ExpireInOrder
<1> DEFINE Ordered == /\ locks[Key[s]].holder = p
                      /\ locks[Key[r]].left <= locks[Key[s]].left
<1> USE LockFacts, ResourcesAssumption DEF TypeOK
<1>1. CASE UNCHANGED vars
  BY <1>1 DEF vars, ExpireInOrder
<1>2. CASE Tick
  <2>1. /\ r \in Resources /\ s \in Resources /\ r \in held[p] /\ s \in held[p]
        /\ pc[p] \in Working
    BY <1>2 DEF Tick
  <2>2. /\ locks'[Key[r]] = Aged(locks[Key[r]]) /\ locks[Key[r]] \in Locks
        /\ locks'[Key[s]] = Aged(locks[Key[s]]) /\ locks[Key[s]] \in Locks
    BY <1>2, <2>1 DEF Tick
  <2>3. locks[Key[r]].left > 1 /\ locks[Key[r]].holder = p
    BY <2>2, TtlAssumption DEF Locks
  <2>4. Ordered
    BY <2>1, <2>3 DEF ExpireInOrder
  <2>5. QED
    BY <2>2, <2>3, <2>4 DEF Locks
<1>3. ASSUME NEW c \in Holders, Step(c)
      PROVE  /\ locks'[Key[s]].holder = p
             /\ locks'[Key[r]].left <= locks'[Key[s]].left
  <2>1. ASSUME UNCHANGED <<locks, held>>,
               \A o \in Holders \ {c} : pc'[o] = pc[o] /\ outcome'[o] = outcome[o],
               pc[c] \in Working \/ held[c] = {}
        PROVE  Ordered /\ UNCHANGED locks
    BY <2>1 DEF ExpireInOrder
  <2>2. ASSUME NEW t \in Resources, Acquire(c, t)
        PROVE  /\ locks'[Key[s]].holder = p
               /\ locks'[Key[r]].left <= locks'[Key[s]].left
    <3>0. /\ r \in Resources /\ s \in Resources /\ c # NoHolder /\ p # NoHolder
          /\ locks' = [locks EXCEPT ![Key[t]] = Taken(c)]
          /\ Key[t] \in Keys /\ locks[Key[t]].holder \in {NoHolder, c}
      BY <2>2, TtlAssumption DEF Acquire, OpenTo
    <3>1. CASE p = c
      <4>1. r \in held[p] \cup {t} /\ s \in held[p] \cup {t} /\ pc[p] = "acquire" /\ t \in todo[p]
        BY <2>2, <3>1 DEF Acquire, First
      <4>2. r \in held[p] /\ r # t
        <5>1. \A h \in held[p] : h < t
          BY <4>1 DEF Progress
        <5>2. r \in Nat /\ s \in Nat /\ t \in Nat
          BY <3>0
        <5>3. r # t
          BY <4>1, <5>1, <5>2
        <5>4. QED
          BY <4>1, <5>3
      <4>3. Key[r] # Key[t] /\ locks'[Key[r]] = locks[Key[r]] /\ locks[Key[r]] \in Locks
        BY <3>0, <4>2 DEF KeysDistinct
      <4>4. CASE s = t
        BY <3>0, <3>1, <4>3, <4>4 DEF Locks
      <4>5. CASE s # t
        <5>1. Ordered
          BY <4>1, <4>2, <4>3, <4>5 DEF ExpireInOrder, Working, Phases
        <5>2. locks'[Key[s]] = locks[Key[s]]
          BY <3>0, <4>5 DEF KeysDistinct
        <5>3. QED
          BY <4>3, <5>1, <5>2
      <4>6. QED
        BY <4>4, <4>5
    <3>2. CASE p # c
      <4>1. r \in held[p] /\ s \in held[p] /\ pc[p] \in Working
        BY <2>2, <3>2 DEF Acquire
      <4>2. Key[r] # Key[t] /\ locks'[Key[r]] = locks[Key[r]]
        BY <3>0, <3>2
      <4>3. Ordered
        BY <4>1, <4>2 DEF ExpireInOrder
      <4>4. Key[s] # Key[t] /\ locks'[Key[s]] = locks[Key[s]]
        BY <3>0, <3>2, <4>3
      <4>5. QED
        BY <4>2, <4>3, <4>4
    <3>3. QED
      BY <3>1, <3>2
  <2>3. ASSUME NEW t \in Resources, Rollback(c, t) \/ Release(c, t)
        PROVE  /\ locks'[Key[s]].holder = p
               /\ locks'[Key[r]].left <= locks'[Key[s]].left
    <3>1. /\ r \in held[p] /\ s \in held[p] /\ pc[p] \in Working
          /\ r \in Resources /\ s \in Resources
          /\ locks' = [locks EXCEPT ![Key[t]] = IF @.holder = c THEN Free ELSE @]
          /\ p = c => r # t /\ s # t
      BY <2>3 DEF Rollback, Release, GiveBack, Working, Phases
    <3>2. p # NoHolder
      BY TtlAssumption
    <3>3. locks'[Key[r]] = locks[Key[r]]
      BY <3>1, <3>2
    <3>4. Ordered
      BY <3>1, <3>3 DEF ExpireInOrder
    <3>5. locks'[Key[s]] = locks[Key[s]]
      BY <3>1, <3>4 DEF KeysDistinct
    <3>6. QED
      BY <3>3, <3>4, <3>5
  <2>4. QED
    BY <1>3, Moves, <2>1, <2>2, <2>3
<1>4. QED
  BY <1>1, <1>2, <1>3 DEF Next

\* A lock is held by an execution that still has it to give back, or was dropped.
LEMMA AccountStep ==
  ASSUME TypeOK, Progress, LocksAccounted, ExpireInOrder, [Next]_vars
  PROVE  LocksAccounted'
<1> SUFFICES ASSUME NEW k \in Keys, NEW p \in Holders, locks'[k].holder = p
             PROVE  /\ pc'[p] # "idle"
                    /\ \/ outcome'[p] = "lost"
                       \/ pc'[p] \in Working /\ \E r \in held'[p] : Key[r] = k
  BY DEF LocksAccounted
<1> DEFINE Goal == /\ pc'[p] # "idle"
                   /\ \/ outcome'[p] = "lost"
                      \/ pc'[p] \in Working /\ \E r \in held'[p] : Key[r] = k
<1> USE LockFacts, ResourcesAssumption, TtlAssumption DEF TypeOK, Working, Phases
<1>1. CASE UNCHANGED vars
  BY <1>1 DEF vars, LocksAccounted
<1>2. CASE Tick
  <2>1. locks'[k] = Aged(locks[k]) /\ locks[k] \in Locks
    BY <1>2 DEF Tick
  <2>2. locks[k].holder = p
    BY <2>1 DEF Locks
  <2>3. QED
    BY <1>2, <2>2 DEF Tick, LocksAccounted
<1>3. ASSUME NEW c \in Holders, Step(c) PROVE Goal
  <2>1. CASE \E want \in Requests : Begin(c, want)
    BY <2>1 DEF Begin, LocksAccounted
  <2>2. ASSUME NEW t \in Resources, Acquire(c, t) PROVE Goal
    <3>1. CASE k = Key[t]
      <4>1. p = c
        BY <2>2, <3>1 DEF Acquire
      <4>2. t \in held'[p] /\ pc'[p] \in {"acquire", "execute"}
        BY <2>2, <4>1 DEF Acquire
      <4>3. QED
        BY <3>1, <4>2
    <3>2. CASE k # Key[t]
      <4>1. locks[k].holder = p /\ held[p] \subseteq held'[p]
            /\ outcome' = outcome /\ pc'[p] \in {pc[p], "acquire", "execute"}
        BY <2>2, <3>2 DEF Acquire
      <4>2. QED
        BY <4>1 DEF LocksAccounted
    <3>3. QED
      BY <3>1, <3>2
  <2>3. ASSUME NEW t \in Resources, Rollback(c, t) \/ Release(c, t) PROVE Goal
    <3>1. /\ locks' = [locks EXCEPT ![Key[t]] = IF @.holder = c THEN Free ELSE @]
          /\ held' = [held EXCEPT ![c] = @ \ {t}] /\ outcome' = outcome
          /\ pc[c] \in {"rollback", "release"}
          /\ pc' = [pc EXCEPT ![c] = IF held[c] = {t} THEN "done" ELSE pc[c]]
      BY <2>3 DEF Rollback, Release, GiveBack
    <3>2. locks[k].holder = p /\ (p = c => k # Key[t])
      BY <3>1
    <3>3. CASE p = c
      BY <3>1, <3>2, <3>3 DEF LocksAccounted
    <3>4. CASE p # c
      BY <3>1, <3>2, <3>4 DEF LocksAccounted
    <3>5. QED
      BY <3>3, <3>4
  <2>4. ASSUME NEW t \in Resources, GiveUp(c, t) PROVE Goal
    BY <2>4 DEF GiveUp, LocksAccounted, Progress
  <2>5. ASSUME NEW t \in Resources, ReleaseStops(c, t) PROVE Goal
    <3>1. /\ UNCHANGED <<locks, held, outcome>> /\ pc' = [pc EXCEPT ![c] = "done"]
          /\ t \in held[c] /\ \A r \in held[c] : r <= t
          /\ locks[Key[t]].holder # c /\ pc[c] \in Working
      BY <2>5 DEF ReleaseStops, Last, OpenTo
    <3>2. CASE p # c
      BY <3>1, <3>2 DEF LocksAccounted
    <3>3. CASE p = c
      <4>1. ASSUME NEW r \in held[c], Key[r] = k PROVE FALSE
        <5>1. r \in Nat /\ t \in Nat /\ r <= t /\ r # t /\ locks[Key[r]].holder = c
          BY <3>1, <3>3, <4>1
        <5>2. r < t
          BY <5>1
        <5>3. QED
          BY <3>1, <5>1, <5>2 DEF ExpireInOrder
      <4>2. QED
        BY <3>1, <3>3, <4>1 DEF LocksAccounted
    <3>4. QED
      BY <3>2, <3>3
  <2>6. CASE OperationEnds(c)
    BY <2>6 DEF OperationEnds, LocksAccounted, Progress
  <2>7. CASE Drop(c)
    BY <2>7 DEF Drop, LocksAccounted
  <2>8. QED
    BY <1>3, <2>1, <2>2, <2>3, <2>4, <2>5, <2>6, <2>7 DEF Step
<1>4. QED
  BY <1>1, <1>2, <1>3 DEF Next

\* No step of another execution takes a young lock away.
LEMMA YoungStep ==
  ASSUME KeysDistinct, TypeOK, Progress, YoungHoldAll, [Next]_vars
  PROVE  YoungHoldAll'
<1> SUFFICES ASSUME NEW p \in Holders, NEW r \in held'[p],
                    pc'[p] \in Working, elapsed'[p] < LockTtl
             PROVE  /\ locks'[Key[r]].holder = p
                    /\ locks'[Key[r]].left + elapsed'[p] >= LockTtl
  BY DEF YoungHoldAll
<1> DEFINE Held == /\ locks[Key[r]].holder = p
                   /\ locks[Key[r]].left + elapsed[p] >= LockTtl
           Goal == /\ locks'[Key[r]].holder = p
                   /\ locks'[Key[r]].left + elapsed'[p] >= LockTtl
<1> USE LockFacts, ResourcesAssumption, TtlAssumption DEF TypeOK
<1>1. CASE UNCHANGED vars
  BY <1>1 DEF vars, YoungHoldAll
<1>2. CASE Tick
  <2>1. pc[p] \in Working /\ r \in held[p] /\ r \in Resources /\ elapsed[p] \in Nat
    BY <1>2 DEF Tick, Horizon
  <2>2. elapsed'[p] = elapsed[p] + 1
    <3>1. elapsed[p] < Horizon
      BY <1>2, <2>1 DEF Tick, Horizon
    <3>2. QED
      BY <1>2, <2>1, <3>1 DEF Tick
  <2>3. Held /\ locks[Key[r]] \in Locks
    <3>1. elapsed[p] < LockTtl
      BY <2>1, <2>2
    <3>2. QED
      BY <2>1, <3>1 DEF YoungHoldAll
  <2>4. locks[Key[r]].left > 1
    BY <2>1, <2>2, <2>3 DEF Locks
  <2>5. locks'[Key[r]] = Aged(locks[Key[r]])
    BY <1>2, <2>1 DEF Tick
  <2>6. QED
    BY <2>1, <2>2, <2>3, <2>4, <2>5 DEF Locks
<1>3. ASSUME NEW c \in Holders, Step(c) PROVE Goal
  <2>0. elapsed' = elapsed /\ elapsed[p] \in Nat
    BY <1>3 DEF Step, Begin, Acquire, GiveUp, Rollback, Release, GiveBack, ReleaseStops,
                OperationEnds, Drop, Horizon
  <2>1. ASSUME UNCHANGED <<locks, held>>,
               \A o \in Holders \ {c} : pc'[o] = pc[o] /\ outcome'[o] = outcome[o],
               pc[c] \in Working \/ held[c] = {}
        PROVE  Goal
    <3>1. pc[p] \in Working /\ r \in held[p]
      BY <2>1
    <3>2. Held
      BY <2>0, <3>1 DEF YoungHoldAll
    <3>3. QED
      BY <2>0, <2>1, <3>2
  <2>2. ASSUME NEW t \in Resources, Acquire(c, t) PROVE Goal
    <3>0. /\ r \in Resources /\ c # NoHolder /\ p # NoHolder /\ Key[t] \in Keys
          /\ locks' = [locks EXCEPT ![Key[t]] = Taken(c)]
          /\ locks[Key[t]].holder \in {NoHolder, c}
      BY <2>2 DEF Acquire, OpenTo
    <3>1. CASE p = c /\ r = t
      BY <2>0, <3>0, <3>1
    <3>2. CASE ~(p = c /\ r = t)
      <4>1. pc[p] \in Working /\ r \in held[p]
        BY <2>2, <3>2 DEF Acquire, Working, Phases
      <4>2. Held
        BY <2>0, <4>1 DEF YoungHoldAll
      <4>3. Key[r] # Key[t]
        BY <3>0, <3>2, <4>2 DEF KeysDistinct
      <4>4. QED
        BY <2>0, <3>0, <4>2, <4>3
    <3>3. QED
      BY <3>1, <3>2
  <2>3. ASSUME NEW t \in Resources, Rollback(c, t) \/ Release(c, t) PROVE Goal
    <3>1. /\ r \in held[p] /\ pc[p] \in Working /\ r \in Resources
          /\ locks' = [locks EXCEPT ![Key[t]] = IF @.holder = c THEN Free ELSE @]
          /\ p = c => r # t
      BY <2>3 DEF Rollback, Release, GiveBack, Working, Phases
    <3>2. Held
      BY <2>0, <3>1 DEF YoungHoldAll
    <3>3. locks'[Key[r]] = locks[Key[r]]
      BY <3>1, <3>2 DEF KeysDistinct
    <3>4. QED
      BY <2>0, <3>2, <3>3
  <2>4. QED
    BY <1>3, Moves, <2>1, <2>2, <2>3
<1>4. QED
  BY <1>1, <1>2, <1>3 DEF Next

\* The strengthening is an invariant.
LEMMA Inductive == KeysDistinct => (Spec => []IInv)
<1> SUFFICES ASSUME KeysDistinct PROVE Spec => []IInv
  OBVIOUS
<1>1. Init => Progress /\ LocksAccounted /\ ExpireInOrder /\ YoungHoldAll
  BY LockFacts, TtlAssumption
     DEF Init, Progress, LocksAccounted, ExpireInOrder, YoungHoldAll, Working
<1>2. IInv /\ [Next]_vars => IInv'
  BY TypeStep, ProgressStep, OrderStep, AccountStep, YoungStep DEF IInv
<1>3. QED
  BY <1>1, <1>2, TypeCorrect, PTL DEF Spec, IInv

\* Until the time to live is over an execution holds every lock it took.
THEOREM YoungHold == KeysDistinct => (Spec => []YoungHoldAll)
<1>1. IInv => YoungHoldAll
  BY DEF IInv
<1>2. QED
  BY <1>1, Inductive, PTL

\* Two operations on a common resource overlap only after a lock expired.
THEOREM OverlapBounded == KeysDistinct => (Spec => []OverlapOnlyAfterTtl)
<1>1. IInv => OverlapOnlyAfterTtl
  <2> SUFFICES ASSUME TypeOK, YoungHoldAll, NEW p \in Holders, NEW o \in Holders,
                      p # o, pc[p] = "execute", pc[o] = "execute",
                      KeysOf(p) \cap KeysOf(o) # {},
                      ~(elapsed[p] >= LockTtl \/ elapsed[o] >= LockTtl)
               PROVE  FALSE
    BY DEF OverlapOnlyAfterTtl, IInv
  <2>1. elapsed[p] < LockTtl /\ elapsed[o] < LockTtl
    BY TtlAssumption, ResourcesAssumption DEF TypeOK, Horizon
  <2>2. PICK r \in held[p], s \in held[o] : Key[r] = Key[s]
    BY DEF KeysOf
  <2>3. locks[Key[r]].holder = p /\ locks[Key[s]].holder = o
    BY <2>1 DEF YoungHoldAll, Working, Phases
  <2>4. QED
    BY <2>2, <2>3
<1>2. QED
  BY <1>1, Inductive, PTL

\* An acquisition or an operation that returned left no lock behind.
THEOREM EndedHold == KeysDistinct => (Spec => []EndedHoldNothing)
<1>1. IInv => EndedHoldNothing
  BY DEF IInv, LocksAccounted, EndedHoldNothing, Working
<1>2. QED
  BY <1>1, Inductive, PTL

\* Along a chain of waiting executions the rank of the awaited resource grows,
\* so that when the ranks are bounded no chain closes.
THEOREM OrderPreventsDeadlock ==
  KeysDistinct /\ (\E n \in Nat : \A r \in Resources : r <= n) =>
    (Spec => []NoCircularWait)
<1> SUFFICES ASSUME KeysDistinct, NEW n \in Nat, \A r \in Resources : r <= n
             PROVE  Spec => []NoCircularWait
  OBVIOUS
<1>1. IInv => NoCircularWait
  <2> SUFFICES ASSUME IInv, NEW S \in (SUBSET Holders) \ {{}},
                      ~ \E p \in S : \A o \in S : ~WaitsFor(p, o)
               PROVE  FALSE
    BY Zenon DEF NoCircularWait
  <2>0. S \subseteq Holders /\ S # {} /\ \A p \in S : \E o \in S : WaitsFor(p, o)
    OBVIOUS
  <2> DEFINE Awaits(p, r) == /\ pc[p] = "acquire" /\ r \in todo[p]
                             /\ First(todo[p], r) /\ locks[Key[r]].holder \in S
             T == {m \in 0 .. n : \E p \in S : Awaits(p, n - m)}
  <2>1. \A p \in S : \E r \in Resources : Awaits(p, r)
    <3> SUFFICES ASSUME NEW p \in S PROVE \E r \in Resources : Awaits(p, r)
      OBVIOUS
    <3>1. PICK o \in S : WaitsFor(p, o)
      BY <2>0
    <3>2. PICK r \in todo[p] : First(todo[p], r) /\ locks[Key[r]].holder = o
      BY <3>1 DEF WaitsFor
    <3>3. r \in Resources
      BY <2>0 DEF IInv, TypeOK
    <3>4. QED
      BY <3>1, <3>2, <3>3 DEF WaitsFor
  <2>2. \A p \in S, r \in Resources : Awaits(p, r) => n - r \in T
    <3> SUFFICES ASSUME NEW p \in S, NEW r \in Resources, Awaits(p, r) PROVE n - r \in T
      OBVIOUS
    <3>1. r \in Nat /\ n - r \in 0 .. n /\ n - (n - r) = r
      BY ResourcesAssumption
    <3>2. QED
      BY <3>1
  <2>3. T # {}
    BY <2>0, <2>1, <2>2
  <2>4. PICK m \in T : \A l \in T : ~(l < m)
    <3>1. T \subseteq Nat
      OBVIOUS
    <3> HIDE DEF T
    <3>2. PICK m \in T : \A l \in T : ~(<<l, m>> \in OpToRel(<, Nat))
      BY <2>3, <3>1, NatLessThanWellFounded, WFMin
    <3>3. \A l \in T : l < m => <<l, m>> \in OpToRel(<, Nat)
      BY <3>1 DEF OpToRel
    <3>4. QED
      BY <3>2, <3>3
  <2>5. PICK p \in S : Awaits(p, n - m)
    OBVIOUS
  <2>6. PICK r \in Resources : r = n - m /\ Awaits(p, r)
    BY <2>5 DEF IInv, TypeOK
  <2>7. PICK o \in S : locks[Key[r]].holder = o
    BY <2>6
  <2>8. PICK s \in Resources : Awaits(o, s)
    BY <2>1
  <2>9. r \in held[o]
    <3>1. \E h \in held[o] : Key[h] = Key[r]
      BY <2>7, <2>8, ResourcesAssumption DEF IInv, TypeOK, LocksAccounted, Progress
    <3>2. QED
      BY <3>1 DEF KeysDistinct, IInv, TypeOK
  <2>10. r < s
    BY <2>8, <2>9 DEF IInv, Progress
  <2>11. n - s < m /\ n - s \in T
    BY <2>2, <2>6, <2>8, <2>10, ResourcesAssumption
  <2>12. QED
    BY <2>4, <2>11
<1>2. QED
  BY <1>1, Inductive, PTL
=============================================================================
