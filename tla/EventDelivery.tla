--------------------------- MODULE EventDelivery ----------------------------
(***************************************************************************)
(* Domain events on their way to the broker: DomainEventDispatcher            *)
(* (src/infrastructure/messaging/dispatcher.rs) puts them in a bounded        *)
(* channel, from any number of requests, and NatsPublisherWorker              *)
(* (src/infrastructure/messaging/nats_worker.rs) takes them out one by one,   *)
(* publishes each with retries and writes what it gives up to a file.         *)
(*                                                                         *)
(* The JetStream stream and the file are outside the process and survive it.  *)
(* A publication that is answered with an error may have been stored.  The     *)
(* broker stores in the order of the one connection it is sent over, so that a *)
(* message stored after its acknowledgement timed out stands where it was sent. *)
(***************************************************************************)
EXTENDS Naturals, Sequences, FiniteSets, SequencesExt

CONSTANTS Events,
          Parts,          \* Parts[e]: the messages of e (a position update has two)
          Capacity,       \* of the channel
          MaxRetries,     \* max_retries
          NoMessage

ASSUME DeliveryAssumption ==
  /\ Parts \in [Events -> Nat \ {0}]
  /\ Capacity \in Nat \ {0} /\ MaxRetries \in Nat

Messages == UNION {{e} \X (1..Parts[e]) : e \in Events}

ASSUME NoMessageAssumption == NoMessage \notin Messages

VARIABLES dispatched,   \* dispatched[e]: how many messages of e were handed over
          channel,      \* the mpsc channel, oldest first
          open,         \* whether a dispatcher (a Sender) is left
          worker,       \* the await the worker is at, or "ended": no Receiver
          current,      \* the message it publishes
          retry_count,
          stream,       \* the JetStream stream
          dlq,          \* the messages in the file
          accepted,     \* messages the channel took, in this order
          forgotten     \* accepted messages lost: file not written, no connection, a crash

process == <<channel, open, worker, current, retry_count>>
vars    == <<dispatched, process, stream, dlq, accepted, forgotten>>

TypeOK == /\ dispatched \in [Events -> Nat]
          /\ channel \in Seq(Messages) /\ Len(channel) <= Capacity
          /\ open \in BOOLEAN
          /\ worker \in {"connect", "recv", "publish", "sleep", "dlq", "ended"}
          /\ current \in Messages \cup {NoMessage}
          /\ retry_count \in 0..MaxRetries + 1
          /\ stream \in Seq(Messages) /\ accepted \in Seq(Messages)
          /\ dlq \subseteq Messages /\ forgotten \subseteq Messages

Init == /\ dispatched = [e \in Events |-> 0]
        /\ channel = <<>> /\ open = TRUE
        /\ worker = "connect" /\ current = NoMessage /\ retry_count = 0
        /\ stream = <<>> /\ dlq = {}
        /\ accepted = <<>> /\ forgotten = {}
-----------------------------------------------------------------------------
(***************************************************************************)
(* The dispatcher.  The messages of one event are dispatched one after the    *)
(* other, whatever became of the first.                                      *)
(***************************************************************************)
Hand(e) == /\ open /\ dispatched[e] < Parts[e]
           /\ dispatched' = [dispatched EXCEPT ![e] = @ + 1]

\* try_send takes the message.
Dispatch(e) ==
  LET m == <<e, dispatched[e] + 1>> IN
  /\ Hand(e)
  /\ worker # "ended" /\ Len(channel) < Capacity
  /\ channel' = Append(channel, m) /\ accepted' = Append(accepted, m)
  /\ UNCHANGED <<open, worker, current, retry_count, stream, dlq, forgotten>>

\* The channel is full or closed: the message is dropped, the publisher told Ok.
DispatchDropped(e) ==
  /\ Hand(e)
  /\ worker = "ended" \/ Len(channel) = Capacity
  /\ UNCHANGED <<process, stream, dlq, accepted, forgotten>>

\* The last dispatcher is dropped.
Shutdown == /\ open /\ open' = FALSE
            /\ UNCHANGED <<dispatched, channel, worker, current, retry_count, stream, dlq,
                           accepted, forgotten>>
-----------------------------------------------------------------------------
(***************************************************************************)
(* The worker.                                                               *)
(***************************************************************************)
Connect == /\ worker = "connect" /\ worker' = "recv"
           /\ UNCHANGED <<dispatched, channel, open, current, retry_count, stream, dlq,
                          accepted, forgotten>>

\* connect returns its error and drops the Receiver with what waited in it.
ConnectFails == /\ worker = "connect" /\ worker' = "ended"
                /\ channel' = <<>> /\ forgotten' = forgotten \cup ToSet(channel)
                /\ UNCHANGED <<dispatched, open, current, retry_count, stream, dlq, accepted>>

Receive == /\ worker = "recv" /\ channel # <<>>
           /\ worker' = "publish" /\ current' = Head(channel) /\ retry_count' = 0
           /\ channel' = Tail(channel)
           /\ UNCHANGED <<dispatched, open, stream, dlq, accepted, forgotten>>

\* recv() returns None: no dispatcher is left and the channel is empty.
Stop == /\ worker = "recv" /\ channel = <<>> /\ ~open
        /\ worker' = "ended"
        /\ UNCHANGED <<dispatched, channel, open, current, retry_count, stream, dlq,
                       accepted, forgotten>>

Finish == worker' = "recv" /\ current' = NoMessage /\ UNCHANGED retry_count

Acknowledged == /\ worker = "publish"
                /\ stream' = Append(stream, current)
                /\ Finish
                /\ UNCHANGED <<dispatched, channel, open, dlq, accepted, forgotten>>

\* Mutant: retry_count is not raised.
PublishFailsForever ==
  /\ worker = "publish" /\ worker' = "sleep"
  /\ stream' = stream \/ stream' = Append(stream, current)
  /\ UNCHANGED <<dispatched, channel, open, current, retry_count, dlq, accepted, forgotten>>

\* The publication or its acknowledgement fails; the broker may have stored it.
PublishFails ==
  /\ worker = "publish"
  /\ stream' = stream \/ stream' = Append(stream, current)
  /\ retry_count' = retry_count + 1
  /\ worker' = IF retry_count' > MaxRetries THEN "dlq" ELSE "sleep"
  /\ UNCHANGED <<dispatched, channel, open, current, dlq, accepted, forgotten>>

\* Mutant: the message goes to the back of the queue, the next is published.
RequeueAfterSleep ==
  /\ worker = "sleep" /\ worker' = "publish"
  /\ current' = Head(Append(channel, current)) /\ channel' = Tail(Append(channel, current))
  /\ UNCHANGED <<dispatched, open, retry_count, stream, dlq, accepted, forgotten>>

\* The delay has passed.
Retry == /\ worker = "sleep" /\ worker' = "publish"
         /\ UNCHANGED <<dispatched, channel, open, current, retry_count, stream, dlq,
                        accepted, forgotten>>

\* Mutant: the message is given up without being written.
GiveUpUnwritten == /\ worker = "dlq" /\ Finish
                   /\ UNCHANGED <<dispatched, channel, open, stream, dlq, accepted, forgotten>>

WriteToDlq == /\ worker = "dlq"
              /\ dlq' = dlq \cup {current}
              /\ Finish
              /\ UNCHANGED <<dispatched, channel, open, stream, accepted, forgotten>>

\* The error is logged, the message gone.
DlqFails == /\ worker = "dlq"
            /\ forgotten' = forgotten \cup {current}
            /\ Finish
            /\ UNCHANGED <<dispatched, channel, open, stream, dlq, accepted>>

\* The process dies, with its channel and the requests that were dispatching,
\* and another is started.
Crash == /\ forgotten' = forgotten \cup ToSet(channel) \cup ({current} \ {NoMessage})
         /\ channel' = <<>> /\ worker' = "connect" /\ current' = NoMessage /\ retry_count' = 0
         /\ open' = TRUE
         /\ dispatched' = [e \in Events |-> IF dispatched[e] = 0 THEN 0 ELSE Parts[e]]
         /\ UNCHANGED <<stream, dlq, accepted>>

Work == \/ Connect \/ ConnectFails \/ Receive \/ Stop
        \/ Acknowledged \/ PublishFails \/ Retry \/ WriteToDlq \/ DlqFails

Next == Shutdown \/ Crash \/ Work \/ \E e \in Events : Dispatch(e) \/ DispatchDropped(e)

Spec == Init /\ [][Next]_vars

\* The worker's task is scheduled; connecting, publications and acknowledgements
\* end in an answer or time out.
FairSpec == Spec /\ WF_vars(Work)
-----------------------------------------------------------------------------
(***************************************************************************)
(* The stream keeps the order of acceptance, whatever failed, was stored      *)
(* unacknowledged or given up in between: a retried message is stored twice,  *)
(* but never after a later one.                                              *)
(***************************************************************************)
Place(m) == CHOOSE i \in DOMAIN accepted : accepted[i] = m

StreamInOrder ==
  \A i, j \in DOMAIN stream : i < j => Place(stream[i]) <= Place(stream[j])

(***************************************************************************)
(* A message the worker is through with is in the stream or in the file,      *)
(* unless the file could not be written or the worker never connected; in     *)
(* particular after a shutdown, which empties the channel first.              *)
(***************************************************************************)
NothingVanishes ==
  \A m \in ToSet(accepted) :
    \/ m \in ToSet(channel) /\ worker # "ended"
    \/ m = current
    \/ m \in ToSet(stream) \cup dlq \cup forgotten

(***************************************************************************)
(* Every accepted message is dealt with in the end, whether the broker        *)
(* answers or not; a later one never waits for ever behind it.               *)
(***************************************************************************)
Settled(m) == m \in ToSet(stream) \cup dlq \cup forgotten

AllSettle == \A m \in Messages : m \in ToSet(accepted) ~> Settled(m) /\ current # m
=============================================================================
