------------------------- MODULE EventDeliveryProofs -------------------------
(***************************************************************************)
(* Theorems about EventDelivery, for any events, channel and number of        *)
(* retries.                                                                  *)
(*                                                                         *)
(* Neither property is inductive.  Both follow from where a message is: the   *)
(* channel is always the tail of what was accepted, a crash included, the     *)
(* message the worker holds is the one before it, and no message is accepted  *)
(* twice.                                                                    *)
(***************************************************************************)
EXTENDS EventDelivery, TLAPS

\* How many accepted messages have left the channel.
Taken == Len(accepted) - Len(channel)

Working == worker \in {"publish", "sleep", "dlq"}

Numbered ==
  /\ \A e \in Events : dispatched[e] <= Parts[e]
  /\ \A i \in DOMAIN accepted : accepted[i][2] <= dispatched[accepted[i][1]]
  /\ \A i, j \in DOMAIN accepted : accepted[i] = accepted[j] => i = j

Tailed ==
  /\ Taken \in Nat
  /\ \A k \in DOMAIN channel : channel[k] = accepted[Taken + k]
  /\ Working => Taken > 0 /\ current = accepted[Taken]
  /\ ~Working => current = NoMessage
  /\ worker = "ended" => channel = <<>>

Stored ==
  /\ \A i \in DOMAIN stream : \E p \in 1..Taken : stream[i] = accepted[p]
  /\ \A i, j \in DOMAIN stream : \A p, q \in 1..Taken :
       i < j /\ stream[i] = accepted[p] /\ stream[j] = accepted[q] => p <= q

Kept ==
  \A p \in 1..Taken : \/ Working /\ p = Taken
                      \/ accepted[p] \in ToSet(stream) \cup dlq \cup forgotten

Retries == worker \in {"publish", "sleep"} => retry_count <= MaxRetries

Inv == TypeOK /\ Numbered /\ Tailed /\ Stored /\ Kept /\ Retries
-----------------------------------------------------------------------------
\* A message is its event and its number.
LEMMA MessageFacts ==
  /\ \A e \in Events : \A k \in 1..Parts[e] : <<e, k>> \in Messages
  /\ \A m \in Messages : m[1] \in Events /\ m[2] \in Nat /\ m = <<m[1], m[2]>>
BY DeliveryAssumption DEF Messages

\* What Append, Head and Tail do to the places of a sequence.
LEMMA AppendFacts ==
  ASSUME NEW S, NEW s \in Seq(S), NEW x \in S
  PROVE  /\ Append(s, x) \in Seq(S)
         /\ Len(Append(s, x)) = Len(s) + 1
         /\ DOMAIN Append(s, x) = 1..Len(s) + 1
         /\ \A i \in 1..Len(s) : Append(s, x)[i] = s[i]
         /\ Append(s, x)[Len(s) + 1] = x
         /\ ToSet(Append(s, x)) = ToSet(s) \cup {x}
<1>1. /\ Append(s, x) \in Seq(S)
      /\ Len(Append(s, x)) = Len(s) + 1
      /\ DOMAIN Append(s, x) = 1..Len(s) + 1
      /\ \A i \in 1..Len(s) : Append(s, x)[i] = s[i]
      /\ Append(s, x)[Len(s) + 1] = x
      /\ DOMAIN s = 1..Len(s) /\ Len(s) \in Nat
  OBVIOUS
<1>2. ToSet(Append(s, x)) = ToSet(s) \cup {x}
  <2> DEFINE a == Append(s, x)
  <2>1. DOMAIN a = DOMAIN s \cup {Len(s) + 1}
    BY <1>1
  <2>2. (\A i \in DOMAIN s : a[i] = s[i]) /\ a[Len(s) + 1] = x
    BY <1>1
  <2> HIDE DEF a
  <2>3. {a[i] : i \in DOMAIN a} = {s[i] : i \in DOMAIN s} \cup {x}
    BY <2>1, <2>2
  <2>4. QED
    BY <2>3 DEF ToSet, a
<1>3. QED
  BY <1>1, <1>2

LEMMA TailFacts ==
  ASSUME NEW S, NEW s \in Seq(S), s # <<>>
  PROVE  /\ Head(s) = s[1] /\ Head(s) \in S
         /\ Tail(s) \in Seq(S)
         /\ Len(s) > 0 /\ Len(Tail(s)) = Len(s) - 1
         /\ \A i \in 1..Len(s) - 1 : Tail(s)[i] = s[i + 1]
OBVIOUS

LEMMA InitHolds == Init => Inv
<1> SUFFICES ASSUME Init PROVE Inv
  OBVIOUS
<1>1. TypeOK
  <2>1. channel \in Seq(Messages) /\ stream \in Seq(Messages) /\ accepted \in Seq(Messages)
    BY DEF Init
  <2>2. Len(channel) <= Capacity /\ retry_count \in 0..MaxRetries + 1
    BY DeliveryAssumption DEF Init
  <2>3. QED
    BY <2>1, <2>2 DEF Init, TypeOK
<1>2. Numbered
  BY DeliveryAssumption DEF Init, Numbered
<1>3. Tailed /\ Stored /\ Kept /\ Retries
  BY DEF Init, Tailed, Stored, Kept, Taken, Working, Retries
<1>4. QED
  BY <1>1, <1>2, <1>3 DEF Inv

-----------------------------------------------------------------------------
\* The channel takes a message that was never accepted before.
LEMMA DispatchStep ==
  ASSUME Inv, NEW e \in Events, Dispatch(e)
  PROVE  Inv'
<1> DEFINE m == <<e, dispatched[e] + 1>>
<1> USE DEF Inv
<1>1. /\ dispatched \in [Events -> Nat] /\ dispatched[e] + 1 <= Parts[e]
      /\ dispatched' = [dispatched EXCEPT ![e] = @ + 1]
  <2>1. dispatched[e] < Parts[e] /\ dispatched' = [dispatched EXCEPT ![e] = @ + 1]
    BY DEF Dispatch, Hand
  <2>2. dispatched \in [Events -> Nat] /\ dispatched[e] \in Nat /\ Parts[e] \in Nat
    BY DeliveryAssumption DEF TypeOK
  <2>3. QED
    BY <2>1, <2>2
<1>2. m \in Messages
  BY <1>1, MessageFacts, DeliveryAssumption
<1>3. /\ channel' = Append(channel, m) /\ accepted' = Append(accepted, m)
      /\ channel \in Seq(Messages) /\ accepted \in Seq(Messages)
      /\ Len(channel) < Capacity
      /\ UNCHANGED <<open, worker, current, retry_count, stream, dlq, forgotten>>
  BY DEF Dispatch, TypeOK
<1>4. m[1] = e /\ m[2] = dispatched[e] + 1
  OBVIOUS
<1> HIDE DEF m
<1>5. /\ accepted' \in Seq(Messages) /\ Len(accepted') = Len(accepted) + 1
      /\ \A i \in 1..Len(accepted) : accepted'[i] = accepted[i]
      /\ accepted'[Len(accepted) + 1] = m
      /\ DOMAIN accepted = 1..Len(accepted) /\ DOMAIN accepted' = 1..Len(accepted) + 1
      /\ Len(accepted) \in Nat
  BY <1>2, <1>3, AppendFacts
<1>6. /\ channel' \in Seq(Messages) /\ Len(channel') = Len(channel) + 1
      /\ \A i \in 1..Len(channel) : channel'[i] = channel[i]
      /\ channel'[Len(channel) + 1] = m
      /\ DOMAIN channel = 1..Len(channel) /\ DOMAIN channel' = 1..Len(channel) + 1
      /\ Len(channel) \in Nat
  BY <1>2, <1>3, AppendFacts
<1>7. TypeOK'
  BY <1>1, <1>3, <1>5, <1>6, DeliveryAssumption DEF TypeOK
<1>8. Numbered'
  <2>1. \A d \in Events : dispatched'[d] <= Parts[d] /\ dispatched[d] <= dispatched'[d]
    BY <1>1, DeliveryAssumption DEF Numbered
  <2>2. \A i \in DOMAIN accepted :
          /\ accepted[i] \in Messages /\ accepted[i][1] \in Events /\ accepted[i][2] \in Nat
          /\ accepted[i][2] <= dispatched[accepted[i][1]]
    BY <1>3, MessageFacts DEF Numbered
  <2>3. \A i \in DOMAIN accepted : accepted[i] # m
    BY <1>1, <1>4, <2>2
  <2>4. \A i \in DOMAIN accepted' : accepted'[i][2] <= dispatched'[accepted'[i][1]]
    <3> SUFFICES ASSUME NEW i \in DOMAIN accepted'
                 PROVE  accepted'[i][2] <= dispatched'[accepted'[i][1]]
      OBVIOUS
    <3>1. CASE i = Len(accepted) + 1
      BY <1>1, <1>4, <1>5, <3>1
    <3>2. CASE i \in DOMAIN accepted
      BY <1>1, <1>5, <2>1, <2>2, <3>2
    <3>3. QED
      BY <1>5, <3>1, <3>2
  <2>5. \A i, j \in DOMAIN accepted' : accepted'[i] = accepted'[j] => i = j
    BY <1>5, <2>3 DEF Numbered
  <2>6. QED
    BY <2>1, <2>4, <2>5 DEF Numbered
<1>9. Taken' = Taken /\ Taken \in Nat /\ Taken <= Len(accepted) /\ Working' = Working
  BY <1>3, <1>5, <1>6 DEF Taken, Working, Tailed
<1>10. Tailed'
  <2>1. \A k \in DOMAIN channel' : channel'[k] = accepted'[Taken' + k]
    <3> SUFFICES ASSUME NEW k \in DOMAIN channel' PROVE channel'[k] = accepted'[Taken + k]
      BY <1>9
    <3>1. CASE k = Len(channel) + 1
      BY <1>5, <1>6, <3>1 DEF Taken
    <3>2. CASE k \in DOMAIN channel
      <4>1. Taken + k \in 1..Len(accepted)
        BY <1>5, <1>6, <1>9, <3>2 DEF Taken
      <4>2. QED
        BY <1>5, <1>6, <3>2, <4>1 DEF Tailed
    <3>3. QED
      BY <1>6, <3>1, <3>2
  <2>2. Working => current' = accepted'[Taken]
    BY <1>3, <1>5, <1>9 DEF Tailed
  <2>3. worker # "ended"
    BY DEF Dispatch
  <2>4. QED
    BY <1>3, <1>9, <2>1, <2>2, <2>3 DEF Tailed
<1>11. \A p \in 1..Taken : accepted'[p] = accepted[p]
  BY <1>5, <1>9
<1>12. Stored' /\ Kept' /\ Retries'
  BY <1>3, <1>9, <1>11 DEF Stored, Kept, Retries
<1>13. QED
  BY <1>7, <1>8, <1>10, <1>12

\* A full channel changes the numbering only.
LEMMA DroppedStep ==
  ASSUME Inv, NEW e \in Events, DispatchDropped(e)
  PROVE  Inv'
<1> USE DEF Inv
<1>1. /\ dispatched[e] < Parts[e] /\ dispatched' = [dispatched EXCEPT ![e] = @ + 1]
      /\ UNCHANGED <<process, stream, dlq, accepted, forgotten>>
  BY DEF DispatchDropped, Hand
<1>2. dispatched \in [Events -> Nat] /\ dispatched[e] \in Nat /\ Parts[e] \in Nat
  BY DeliveryAssumption DEF TypeOK
<1>3. TypeOK'
  BY <1>1, <1>2 DEF TypeOK, process
<1>4. \A d \in Events : dispatched'[d] <= Parts[d] /\ dispatched[d] <= dispatched'[d]
  BY <1>1, <1>2, DeliveryAssumption DEF Numbered
<1>5. Numbered'
  <2>1. \A i \in DOMAIN accepted : accepted[i][1] \in Events /\ accepted[i][2] \in Nat
    BY MessageFacts DEF TypeOK
  <2>2. \A i \in DOMAIN accepted : accepted[i][2] <= dispatched'[accepted[i][1]]
    BY <1>1, <1>2, <1>4, <2>1 DEF Numbered
  <2>3. QED
    BY <1>1, <1>4, <2>2 DEF Numbered
<1>6. Taken' = Taken /\ Working' = Working
  BY <1>1 DEF Taken, Working, process
<1>7. Tailed'
  BY <1>1, <1>6 DEF Tailed, process
<1>8. Stored' /\ Kept' /\ Retries'
  BY <1>1, <1>6 DEF Stored, Kept, Retries, process
<1>9. QED
  BY <1>3, <1>5, <1>7, <1>8

\* The worker takes the next message, which becomes the last one taken.
LEMMA ReceiveStep ==
  ASSUME Inv, Receive
  PROVE  Inv'
<1> USE DEF Inv
<1>1. /\ worker = "recv" /\ channel # <<>> /\ channel \in Seq(Messages)
      /\ worker' = "publish" /\ current' = Head(channel) /\ retry_count' = 0
      /\ channel' = Tail(channel)
      /\ UNCHANGED <<dispatched, open, stream, dlq, accepted, forgotten>>
  BY DEF Receive, TypeOK
<1>2. /\ current' = channel[1] /\ current' \in Messages
      /\ channel' \in Seq(Messages) /\ Len(channel') = Len(channel) - 1
      /\ \A k \in DOMAIN channel' : channel'[k] = channel[k + 1] /\ k + 1 \in DOMAIN channel
      /\ Len(channel) \in Nat /\ Len(channel) > 0 /\ 1 \in DOMAIN channel
  BY <1>1, TailFacts
<1>3. TypeOK'
  BY <1>1, <1>2, DeliveryAssumption DEF TypeOK
<1>4. Numbered'
  BY <1>1 DEF Numbered
<1>5. Taken \in Nat /\ Len(accepted) \in Nat /\ Taken' = Taken + 1
  BY <1>1, <1>2 DEF Taken, Tailed, TypeOK
<1>6. Tailed'
  <2>1. current' = accepted[Taken + 1]
    BY <1>2 DEF Tailed
  <2>2. \A k \in DOMAIN channel' : channel'[k] = accepted[Taken + 1 + k]
    <3> SUFFICES ASSUME NEW k \in DOMAIN channel' PROVE channel'[k] = accepted[Taken + 1 + k]
      OBVIOUS
    <3>1. channel'[k] = accepted[Taken + (k + 1)] /\ k \in Nat
      BY <1>2 DEF Tailed
    <3>2. QED
      BY <1>5, <3>1
  <2>3. QED
    BY <1>1, <1>5, <2>1, <2>2 DEF Tailed, Working
<1>7. Kept'
  <2>1. ~Working /\ Working'
    BY <1>1 DEF Working
  <2>2. \A p \in 1..Taken + 1 : p = Taken + 1 \/ p \in 1..Taken
    BY <1>5
  <2>3. QED
    BY <1>1, <1>5, <2>1, <2>2 DEF Kept
<1>8. Stored'
  <2>1. /\ \A i \in DOMAIN stream : \E p \in 1..Taken + 1 : stream[i] = accepted[p]
        /\ Taken + 1 <= Len(accepted)
    BY <1>2, <1>5 DEF Stored, Taken
  <2>2. ASSUME NEW i \in DOMAIN stream, NEW p \in 1..Taken + 1, stream[i] = accepted[p]
        PROVE  p \in 1..Taken
    <3>1. PICK q \in 1..Taken : stream[i] = accepted[q]
      BY DEF Stored
    <3>2. p \in DOMAIN accepted /\ q \in DOMAIN accepted
      BY <1>5, <2>1 DEF TypeOK
    <3>3. QED
      BY <2>2, <3>1, <3>2 DEF Numbered
  <2>3. QED
    BY <1>1, <1>5, <2>1, <2>2 DEF Stored
<1>9. Retries'
  BY <1>1, DeliveryAssumption DEF Retries
<1>10. QED
  BY <1>3, <1>4, <1>6, <1>7, <1>8, <1>9

\* A message the broker stored goes to the end of the stream and is the last
\* one taken: the stream stays in order.
LEMMA StoredStep ==
  ASSUME Inv, Working, stream' = Append(stream, current),
         UNCHANGED <<channel, accepted>>
  PROVE  /\ stream' \in Seq(Messages)
         /\ Stored' /\ ToSet(stream') = ToSet(stream) \cup {current}
<1> USE DEF Inv
<1>1. /\ stream \in Seq(Messages) /\ current = accepted[Taken] /\ current \in Messages
      /\ Taken \in Nat /\ Taken > 0 /\ Taken <= Len(accepted) /\ Taken \in DOMAIN accepted
  BY DEF Tailed, TypeOK, Taken
<1>2. /\ stream' \in Seq(Messages)
      /\ DOMAIN stream' = 1..Len(stream) + 1 /\ DOMAIN stream = 1..Len(stream)
      /\ \A i \in DOMAIN stream : stream'[i] = stream[i]
      /\ stream'[Len(stream) + 1] = current /\ Len(stream) \in Nat
      /\ ToSet(stream') = ToSet(stream) \cup {current}
  BY <1>1, AppendFacts
<1>3. Taken' = Taken
  BY DEF Taken
<1>4. \A p \in 1..Taken : accepted[p] = current => p = Taken
  BY <1>1 DEF Numbered, TypeOK
<1>5. Stored'
  <2>1. \A i \in DOMAIN stream' : \E p \in 1..Taken : stream'[i] = accepted[p]
    BY <1>1, <1>2 DEF Stored
  <2>2. ASSUME NEW i \in DOMAIN stream', NEW j \in DOMAIN stream',
               NEW p \in 1..Taken, NEW q \in 1..Taken,
               i < j, stream'[i] = accepted[p], stream'[j] = accepted[q]
        PROVE  p <= q
    <3>1. CASE j = Len(stream) + 1
      BY <1>1, <1>2, <1>4, <2>2, <3>1
    <3>2. CASE j \in DOMAIN stream
      BY <1>2, <2>2, <3>2 DEF Stored
    <3>3. QED
      BY <1>2, <3>1, <3>2
  <2>3. QED
    BY <1>3, <2>1, <2>2 DEF Stored
<1>6. QED
  BY <1>2, <1>5

\* The worker is through with its message: it is accounted for.
LEMMA FinishStep ==
  ASSUME Inv, Working, Finish,
         stream' = stream \/ stream' = Append(stream, current),
         dlq \subseteq dlq', forgotten \subseteq forgotten',
         dlq' \subseteq Messages, forgotten' \subseteq Messages,
         current \in ToSet(stream') \cup dlq' \cup forgotten',
         UNCHANGED <<dispatched, channel, open, accepted>>
  PROVE  Inv'
<1> USE DEF Inv
<1>1. /\ worker' = "recv" /\ current' = NoMessage /\ UNCHANGED retry_count
      /\ Taken' = Taken /\ ~Working'
  BY DEF Finish, Taken, Working
<1>2. stream' \in Seq(Messages) /\ Stored' /\ ToSet(stream) \subseteq ToSet(stream')
  <2>1. CASE stream' = stream
    BY <1>1, <2>1 DEF Stored, TypeOK
  <2>2. CASE stream' = Append(stream, current)
    BY <2>2, StoredStep
  <2>3. QED
    BY <2>1, <2>2
<1>3. TypeOK'
  BY <1>1, <1>2 DEF TypeOK
<1>4. Numbered'
  BY DEF Numbered
<1>5. Tailed'
  BY <1>1 DEF Tailed
<1>6. Kept'
  <2>1. current = accepted[Taken]
    BY DEF Tailed
  <2>2. QED
    BY <1>1, <1>2, <2>1 DEF Kept
<1>7. Retries'
  BY <1>1 DEF Retries
<1>8. QED
  BY <1>2, <1>3, <1>4, <1>5, <1>6, <1>7

\* The worker goes on with its message, or stops without one.
LEMMA WorkerStep ==
  ASSUME Inv, Connect \/ Stop \/ PublishFails \/ Retry
  PROVE  Inv'
<1> USE DEF Inv
<1>1. UNCHANGED <<dispatched, channel, open, current, dlq, accepted, forgotten>>
  BY DEF Connect, Stop, PublishFails, Retry
<1>2. Taken' = Taken /\ Working' = Working
  BY <1>1 DEF Connect, Stop, PublishFails, Retry, Taken, Working
<1>3. stream' \in Seq(Messages) /\ Stored' /\ ToSet(stream) \subseteq ToSet(stream')
  <2>1. CASE stream' = stream
    BY <1>1, <1>2, <2>1 DEF Stored, TypeOK
  <2>2. CASE stream' # stream
    <3>1. Working /\ stream' = Append(stream, current)
      BY <2>2 DEF Connect, Stop, PublishFails, Retry, Working
    <3>2. QED
      BY <1>1, <3>1, StoredStep
  <2>3. QED
    BY <2>1, <2>2
<1>4. worker' \in {"connect", "recv", "publish", "sleep", "dlq", "ended"}
  BY DEF Connect, Stop, PublishFails, Retry
<1>5. retry_count' \in 0..MaxRetries + 1 /\ Retries'
  BY DeliveryAssumption DEF Connect, Stop, PublishFails, Retry, TypeOK, Retries
<1>6. TypeOK'
  BY <1>1, <1>3, <1>4, <1>5 DEF TypeOK
<1>7. Numbered'
  BY <1>1 DEF Numbered
<1>8. Tailed'
  <2>1. worker' = "ended" => channel' = <<>>
    BY <1>1 DEF Connect, Stop, PublishFails, Retry
  <2>2. QED
    BY <1>1, <1>2, <2>1 DEF Tailed
<1>9. Kept'
  BY <1>1, <1>2, <1>3 DEF Kept
<1>10. QED
  BY <1>3, <1>5, <1>6, <1>7, <1>8, <1>9

\* A crash and a connection that fails take the channel and the message at hand
\* with them, and nothing else.
LEMMA EmptiedStep ==
  ASSUME Inv,
         forgotten' = forgotten \cup ToSet(channel) \cup ({current} \ {NoMessage}),
         channel' = <<>>, worker' \in {"connect", "ended"}, current' = NoMessage,
         retry_count' \in 0..MaxRetries + 1, open' \in BOOLEAN,
         dispatched' \in [Events -> Nat],
         \A e \in Events : dispatched[e] <= dispatched'[e] /\ dispatched'[e] <= Parts[e],
         UNCHANGED <<stream, dlq, accepted>>
  PROVE  Inv'
<1> USE DEF Inv
<1>1. /\ forgotten' = forgotten \cup ToSet(channel) \cup ({current} \ {NoMessage})
      /\ channel' = <<>> /\ worker' \in {"connect", "ended"} /\ current' = NoMessage
      /\ retry_count' \in 0..MaxRetries + 1 /\ open' \in BOOLEAN
      /\ UNCHANGED <<stream, dlq, accepted>>
  OBVIOUS
<1>2. channel' \in Seq(Messages) /\ Len(channel') = 0 /\ DOMAIN channel' = {}
  BY <1>1
<1>3. /\ Taken \in Nat /\ Taken <= Len(accepted) /\ Taken' = Len(accepted)
      /\ Len(accepted) \in Nat /\ DOMAIN accepted = 1..Len(accepted)
      /\ Len(channel) \in Nat /\ DOMAIN channel = 1..Len(channel)
      /\ ~Working'
  BY <1>1, <1>2 DEF Taken, Working, TypeOK, Tailed
<1>4. \A e \in Events : dispatched'[e] \in Nat /\ dispatched[e] <= dispatched'[e]
                         /\ dispatched'[e] <= Parts[e] /\ dispatched[e] \in Nat
  BY DeliveryAssumption DEF TypeOK, Numbered
<1>5. TypeOK'
  <2>1. dispatched' \in [Events -> Nat]
    OBVIOUS
  <2>2. forgotten' \subseteq Messages
    BY <1>1 DEF TypeOK, ToSet
  <2>3. QED
    BY <1>1, <1>2, <2>1, <2>2, DeliveryAssumption DEF TypeOK
<1>6. Numbered'
  <2>1. \A i \in DOMAIN accepted : accepted[i][1] \in Events /\ accepted[i][2] \in Nat
    BY MessageFacts DEF TypeOK
  <2>2. \A i \in DOMAIN accepted : accepted[i][2] <= dispatched'[accepted[i][1]]
    BY <1>4, <2>1 DEF Numbered
  <2>3. QED
    BY <1>1, <1>4, <2>2 DEF Numbered
<1>7. Tailed' /\ Retries'
  BY <1>1, <1>2, <1>3, DeliveryAssumption DEF Tailed, Retries
<1>8. ASSUME NEW p \in 1..Len(accepted)
      PROVE  p \in 1..Taken \/ accepted[p] \in ToSet(channel)
  <2>1. CASE p > Taken
    <3>1. p - Taken \in DOMAIN channel /\ Taken + (p - Taken) = p
      BY <1>3, <2>1 DEF Taken
    <3>2. channel[p - Taken] = accepted[p]
      BY <3>1 DEF Tailed
    <3>3. QED
      BY <3>1, <3>2 DEF ToSet
  <2>2. QED
    BY <1>3, <2>1
<1>9. Kept'
  <2>1. ASSUME NEW p \in 1..Len(accepted)
        PROVE  accepted[p] \in ToSet(stream) \cup dlq \cup forgotten'
    <3>1. Working => current = accepted[Taken] /\ current \in Messages
      BY <1>3 DEF Tailed, TypeOK
    <3>2. QED
      BY <1>1, <1>8, <3>1, NoMessageAssumption DEF Kept
  <2>2. QED
    BY <1>1, <1>3, <2>1 DEF Kept
<1>10. Stored'
  <2>1. ASSUME NEW i \in DOMAIN stream, NEW p \in 1..Len(accepted), stream[i] = accepted[p]
        PROVE  p \in 1..Taken
    <3>1. PICK q \in 1..Taken : stream[i] = accepted[q]
      BY DEF Stored
    <3>2. p \in DOMAIN accepted /\ q \in DOMAIN accepted
      BY <1>3
    <3>3. p = q
      BY <2>1, <3>1, <3>2 DEF Numbered
    <3>4. QED
      BY <3>3
  <2>2. \A i \in DOMAIN stream : \E p \in 1..Len(accepted) : stream[i] = accepted[p]
    BY <1>3 DEF Stored
  <2>3. QED
    BY <1>1, <1>3, <2>1, <2>2 DEF Stored
<1>11. QED
  BY <1>5, <1>6, <1>7, <1>9, <1>10

LEMMA CrashStep ==
  ASSUME Inv, Crash \/ ConnectFails
  PROVE  Inv'
<1> USE DEF Inv
<1>1. /\ forgotten' = forgotten \cup ToSet(channel) \cup ({current} \ {NoMessage})
      /\ worker' \in {"connect", "ended"} /\ current' = NoMessage
  <2>1. CASE Crash
    BY <2>1 DEF Crash
  <2>2. CASE ConnectFails
    BY <2>2 DEF ConnectFails, Tailed, Working
  <2>3. QED
    BY <2>1, <2>2
<1>2. retry_count' \in 0..MaxRetries + 1 /\ open' \in BOOLEAN
  <2>1. CASE Crash
    BY <2>1, DeliveryAssumption DEF Crash
  <2>2. CASE ConnectFails
    BY <2>2 DEF ConnectFails, TypeOK
  <2>3. QED
    BY <2>1, <2>2
<1>3. /\ dispatched' \in [Events -> Nat]
      /\ \A e \in Events : dispatched[e] <= dispatched'[e] /\ dispatched'[e] <= Parts[e]
  <2>1. CASE Crash
    <3>1. dispatched' = [e \in Events |-> IF dispatched[e] = 0 THEN 0 ELSE Parts[e]]
      BY <2>1 DEF Crash
    <3>2. \A e \in Events : dispatched[e] \in Nat /\ dispatched[e] <= Parts[e] /\ Parts[e] \in Nat
      BY DeliveryAssumption DEF TypeOK, Numbered
    <3>3. QED
      BY <3>1, <3>2
  <2>2. CASE ConnectFails
    BY <2>2, DeliveryAssumption DEF ConnectFails, TypeOK, Numbered
  <2>3. QED
    BY <2>1, <2>2
<1>4. channel' = <<>> /\ UNCHANGED <<stream, dlq, accepted>>
  BY DEF Crash, ConnectFails
<1>5. QED
  BY <1>1, <1>2, <1>3, <1>4, EmptiedStep

-----------------------------------------------------------------------------
LEMMA StepHolds == Inv /\ [Next]_vars => Inv'
<1> SUFFICES ASSUME Inv, [Next]_vars PROVE Inv'
  OBVIOUS
<1>1. CASE UNCHANGED vars
  BY <1>1 DEF vars, process, Inv, TypeOK, Numbered, Tailed, Stored, Kept, Retries, Taken, Working
<1>2. CASE Shutdown
  <2>1. UNCHANGED <<dispatched, channel, worker, current, retry_count, stream, dlq,
                    accepted, forgotten>> /\ open' \in BOOLEAN
    BY <1>2 DEF Shutdown
  <2>2. TypeOK'
    BY <2>1 DEF Inv, TypeOK
  <2>3. Tailed'
    BY <2>1 DEF Inv, Tailed, Taken, Working
  <2>4. Numbered' /\ Stored' /\ Kept' /\ Retries'
    BY <2>1 DEF Inv, Numbered, Stored, Kept, Retries, Taken, Working
  <2>5. QED
    BY <2>2, <2>3, <2>4 DEF Inv
<1>3. CASE Acknowledged
  <2>1. Working /\ Finish /\ stream' = Append(stream, current)
    BY <1>3 DEF Acknowledged, Working
  <2>2. current \in ToSet(stream') /\ dlq \subseteq Messages /\ forgotten \subseteq Messages
    BY <1>3, <2>1, StoredStep DEF Acknowledged, Inv, TypeOK
  <2>3. QED
    BY <1>3, <2>1, <2>2, FinishStep DEF Acknowledged
<1>4. CASE WriteToDlq \/ DlqFails
  <2>1. Working /\ Finish /\ stream' = stream
    BY <1>4 DEF WriteToDlq, DlqFails, Working
  <2>2. current \in Messages
    BY <2>1 DEF Inv, TypeOK, Tailed, Taken
  <2>3. /\ dlq \subseteq dlq' /\ forgotten \subseteq forgotten'
        /\ dlq' \subseteq Messages /\ forgotten' \subseteq Messages
        /\ current \in dlq' \cup forgotten'
    BY <1>4, <2>2 DEF WriteToDlq, DlqFails, Inv, TypeOK
  <2>4. QED
    BY <1>4, <2>1, <2>3, FinishStep DEF WriteToDlq, DlqFails
<1>5. QED
  BY <1>1, <1>2, <1>3, <1>4, DispatchStep, DroppedStep, ReceiveStep, WorkerStep, CrashStep
     DEF Next, Work

LEMMA Inductive == Spec => []Inv
BY InitHolds, StepHolds, PTL DEF Spec

\* The worker, the channel and the two stores stay well formed, whatever is
\* refused, dropped or lost.
THEOREM TypeCorrect == Spec => []TypeOK
BY Inductive, PTL DEF Inv

\* The broker stores the messages in the order the channel accepted them, for
\* any number of events, retries and crashes.
THEOREM StreamOrdered == Spec => []StreamInOrder
<1>1. Inv => StreamInOrder
  <2> SUFFICES ASSUME Inv, NEW i \in DOMAIN stream, NEW j \in DOMAIN stream, i < j
               PROVE  Place(stream[i]) <= Place(stream[j])
    BY DEF StreamInOrder
  <2> USE DEF Inv
  <2>1. PICK p \in 1..Taken : stream[i] = accepted[p]
    BY DEF Stored
  <2>2. PICK q \in 1..Taken : stream[j] = accepted[q]
    BY DEF Stored
  <2>3. p \in DOMAIN accepted /\ q \in DOMAIN accepted
    BY DEF Taken, TypeOK, Tailed
  <2>4. Place(stream[i]) = p /\ Place(stream[j]) = q
    BY <2>1, <2>2, <2>3 DEF Place, Numbered
  <2>5. QED
    BY <2>1, <2>2, <2>4 DEF Stored
<1>2. QED
  BY <1>1, Inductive, PTL

\* No accepted message is unaccounted for, in particular none is left in the
\* channel by a worker that has ended.
THEOREM NoneVanishes == Spec => []NothingVanishes
<1>1. Inv => NothingVanishes
  <2> SUFFICES ASSUME Inv, NEW p \in DOMAIN accepted
               PROVE  \/ accepted[p] \in ToSet(channel) /\ worker # "ended"
                      \/ accepted[p] = current
                      \/ accepted[p] \in ToSet(stream) \cup dlq \cup forgotten
    BY DEF NothingVanishes, ToSet
  <2> USE DEF Inv
  <2>1. CASE p <= Taken
    BY <2>1 DEF Kept, Tailed, TypeOK
  <2>2. CASE p > Taken
    <3>1. p - Taken \in DOMAIN channel /\ Taken + (p - Taken) = p
      BY <2>2 DEF Taken, TypeOK, Tailed
    <3>2. channel[p - Taken] = accepted[p] /\ worker # "ended"
      BY <3>1 DEF Tailed
    <3>3. QED
      BY <3>1, <3>2 DEF ToSet
  <2>3. QED
    BY <2>1, <2>2 DEF Tailed, TypeOK
<1>2. QED
  BY <1>1, Inductive, PTL
=============================================================================
