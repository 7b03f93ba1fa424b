------------------------------ MODULE FixOrders ------------------------------
(***************************************************************************)
(* Requests to a FIX market maker: FixMMAdapter::request_quote and            *)
(* execute_trade, answered by the callbacks of FixApplication                 *)
(* (src/infrastructure/venues/fix_adapter.rs).                               *)
(*                                                                         *)
(* A call checks the session, enters the sender of a oneshot channel in a     *)
(* table under an id of its own, hands the message to the engine and waits    *)
(* for an answer or for its timeout.  A callback takes the entry out under    *)
(* the table's write lock and answers.  Quote requests and orders have a      *)
(* table each; as ids are unique, one set of callers stands for both.         *)
(*                                                                         *)
(* The engine and the venue are outside: messages may be lost on a            *)
(* disconnect, reports of one order arrive in order and may be delivered      *)
(* again.  An adapter without an engine is one whose messages are all lost.   *)
(***************************************************************************)
EXTENDS Naturals, Sequences

CONSTANTS Orders,        \* calls of execute_trade
          Quotes,        \* calls of request_quote
          Capacity,      \* of the channel to the engine
          MaxReports     \* bound: reports of one order on their way

ASSUME FixAssumption == /\ Orders \cap Quotes = {}
                        /\ Capacity \in Nat \ {0} /\ MaxReports \in Nat \ {0}

Calls == Orders \cup Quotes

VARIABLES loggedOn,      \* session_state = LoggedOn
          engine,        \* whether the engine's end of message_tx lives
          outbox,        \* the messages in that channel
          pc,            \* pc[c]: the await the call c is at
          pending,       \* the calls entered in pending_orders or pending_quotes
          answer,        \* answer[c]: what c's oneshot channel holds
          outcome,       \* outcome[c]: how c ended
          venue,         \* venue[c]: the venue's state of c's message
          reports        \* reports[c]: the venue's messages about c on their way

client == <<pc, pending, outcome>>
vars   == <<loggedOn, engine, outbox, client, answer, venue, reports>>

None     == "none"
Final    == [o \in Calls |-> IF o \in Orders THEN {"filled", "unpriced", "rejected"}
                                              ELSE {"quoted", "rejected"}]
Words    == {"new", "filled", "unpriced", "rejected", "quoted"}
Answers  == {"executed", "failed", "rejected"}
Outcomes == Answers \cup {"unavailable", "unsent", "timeout", "dropped"}

TypeOK == /\ loggedOn \in BOOLEAN /\ engine \in BOOLEAN
          /\ outbox \in Seq(Calls) /\ Len(outbox) <= Capacity
          /\ pc \in [Calls -> {"idle", "insert", "send", "wait", "remove", "done"}]
          /\ pending \subseteq Calls
          /\ answer \in [Calls -> Answers \cup {None}]
          /\ outcome \in [Calls -> Outcomes \cup {None}]
          /\ venue \in [Calls -> Words \cup {None}]
          /\ \A c \in Calls : venue[c] \in Final[c] \cup {None, "new"}
          /\ reports \in [Calls -> Seq(Words)]

Init == /\ loggedOn = FALSE /\ engine = TRUE /\ outbox = <<>>
        /\ pc = [c \in Calls |-> "idle"]
        /\ pending = {}
        /\ answer = [c \in Calls |-> None]
        /\ outcome = [c \in Calls |-> None]
        /\ venue = [c \in Calls |-> None]
        /\ reports = [c \in Calls |-> <<>>]
-----------------------------------------------------------------------------
(***************************************************************************)
(* The calls.                                                                *)
(***************************************************************************)
Go(c, here, there) == pc[c] = here /\ pc' = [pc EXCEPT ![c] = there]
End(c, here, how)  == Go(c, here, "done") /\ outcome' = [outcome EXCEPT ![c] = how]

\* session_state is read once; the session may end before the message is sent.
CheckSession(c) == /\ loggedOn
                   /\ Go(c, "idle", "insert")
                   /\ UNCHANGED <<loggedOn, engine, outbox, pending, answer, outcome, venue, reports>>

\* The adapter is disabled, the session not logged on, or the quote to execute
\* expired or another venue's.
Refuse(c) == /\ End(c, "idle", "unavailable")
             /\ UNCHANGED <<loggedOn, engine, outbox, pending, answer, venue, reports>>

Insert(c) == /\ Go(c, "insert", "send")
             /\ pending' = pending \cup {c}
             /\ UNCHANGED <<loggedOn, engine, outbox, answer, outcome, venue, reports>>

\* The message cannot be encoded: the entry stays.
EncodeFails(c) == /\ End(c, "insert", "unsent")
                  /\ pending' = pending \cup {c}
                  /\ UNCHANGED <<loggedOn, engine, outbox, answer, venue, reports>>

\* send_message waits for room in the channel.
Send(c) == /\ Go(c, "send", "wait")
           /\ engine /\ Len(outbox) < Capacity
           /\ outbox' = Append(outbox, c)
           /\ UNCHANGED <<loggedOn, engine, pending, answer, outcome, venue, reports>>

SendFails(c) == /\ End(c, "send", "unsent")
                /\ ~engine
                /\ UNCHANGED <<loggedOn, engine, outbox, pending, answer, venue, reports>>

Answered(c) == /\ answer[c] # None
               /\ End(c, "wait", answer[c])
               /\ UNCHANGED <<loggedOn, engine, outbox, pending, answer, venue, reports>>

\* Mutant: the timer runs while the session is on only.
TimesOutLoggedOn(c) ==
  /\ answer[c] = None /\ loggedOn
  /\ Go(c, "wait", "remove")
  /\ UNCHANGED <<loggedOn, engine, outbox, pending, answer, outcome, venue, reports>>

\* An answer there already wins over the timer; one that comes now is lost.
TimesOut(c) == /\ answer[c] = None
               /\ Go(c, "wait", "remove")
               /\ UNCHANGED <<loggedOn, engine, outbox, pending, answer, outcome, venue, reports>>

Remove(c) == /\ End(c, "remove", "timeout")
             /\ pending' = pending \ {c}
             /\ UNCHANGED <<loggedOn, engine, outbox, answer, venue, reports>>

\* The caller's future is dropped: its entry stays.
DropCall(c) == /\ \E here \in {"insert", "send", "wait", "remove"} : End(c, here, "dropped")
               /\ UNCHANGED <<loggedOn, engine, outbox, pending, answer, venue, reports>>
-----------------------------------------------------------------------------
(***************************************************************************)
(* The callbacks.                                                            *)
(***************************************************************************)
Logon  == loggedOn' = TRUE  /\ UNCHANGED <<engine, outbox, client, answer, venue, reports>>
Logout == loggedOn' = FALSE /\ UNCHANGED <<engine, outbox, client, answer, venue, reports>>

\* Mutant: everything that is no rejection counts as the execution.
AnswerToAny(c, r) == IF r = "rejected" THEN "rejected"
                     ELSE IF c \in Orders THEN "executed" ELSE "failed"

\* What the caller is told of r; a quote cannot be built and ends in an error.
AnswerTo(c, r) == IF r = "new" THEN None
                  ELSE IF r = "rejected" THEN "rejected"
                  ELSE IF r = "filled" THEN "executed" ELSE "failed"

\* Mutant: an order whose report is not the last one is not put back.
HandleRemoving(c, r) ==
  IF c \in pending
    THEN /\ pending' = pending \ {c}
         /\ answer' = [answer EXCEPT ![c] = AnswerTo(c, r)]
    ELSE UNCHANGED <<pending, answer>>

\* handle_quote, handle_quote_reject, handle_execution_report: the entry is
\* taken out and answered, or put back under the same lock.
Handle(c, r) ==
  IF c \in pending /\ AnswerTo(c, r) # None
    THEN /\ pending' = pending \ {c}
         /\ answer' = [answer EXCEPT ![c] = AnswerTo(c, r)]
    ELSE UNCHANGED <<pending, answer>>

\* from_app: the report is handled, and may be delivered once more.
FromApp(c) ==
  /\ reports[c] # <<>>
  /\ Handle(c, Head(reports[c]))
  /\ reports' = [reports EXCEPT ![c] = Tail(@)] \/ UNCHANGED reports
  /\ UNCHANGED <<loggedOn, engine, outbox, pc, outcome, venue>>
-----------------------------------------------------------------------------
(***************************************************************************)
(* External: the engine and the venue.                                       *)
(***************************************************************************)
Transmit ==
  /\ outbox # <<>> /\ outbox' = Tail(outbox)
  /\ venue' = [venue EXCEPT ![Head(outbox)] = "new"] \/ UNCHANGED venue
  /\ UNCHANGED <<loggedOn, engine, client, answer, reports>>

EngineStops == /\ engine /\ engine' = FALSE /\ outbox' = <<>>
               /\ UNCHANGED <<loggedOn, client, answer, venue, reports>>

\* An acknowledgement or a partial fill, or the last word.
VenueReports(c) ==
  /\ venue[c] = "new" /\ Len(reports[c]) < MaxReports
  /\ \E r \in Final[c] \cup (IF c \in Orders THEN {"new"} ELSE {}) :
       /\ venue' = [venue EXCEPT ![c] = r]
       /\ reports' = [reports EXCEPT ![c] = Append(@, r)]
  /\ UNCHANGED <<loggedOn, engine, outbox, client, answer>>

Call(c) == \/ CheckSession(c) \/ Refuse(c) \/ Insert(c) \/ EncodeFails(c)
           \/ Send(c) \/ SendFails(c) \/ Answered(c) \/ TimesOut(c) \/ Remove(c)

Next == \/ Logon \/ Logout \/ Transmit \/ EngineStops
        \/ \E c \in Calls : Call(c) \/ DropCall(c) \/ FromApp(c) \/ VenueReports(c)

Spec == Init /\ [][Next]_vars

\* Calls go on and their timers fire; the engine, while it lives, empties its
\* channel.  Nothing is asked of the venue or of the session.
FairSpec == Spec /\ WF_vars(Transmit) /\ \A c \in Calls : SF_vars(Call(c))
-----------------------------------------------------------------------------
(***************************************************************************)
(* A call that waits can be answered or has been, whatever reports came       *)
(* before; a call that was answered or timed out leaves no entry.  (An error  *)
(* in between, and a dropped future, do leave one.)                          *)
(***************************************************************************)
EntriesAreCallers ==
  \A c \in Calls :
    /\ pc[c] \in {"send", "wait"} => c \in pending \/ answer[c] # None
    /\ outcome[c] \in Answers \cup {"unavailable", "timeout"} => c \notin pending

(***************************************************************************)
(* What the caller is told holds at the venue: an execution was filled, and   *)
(* an order that was refused here, was not sent or was rejected there is      *)
(* never filled later.  Only a timeout, an unusable fill report or a dropped  *)
(* call leave it open.                                                       *)
(***************************************************************************)
AnswersHold ==
  \A o \in Orders :
    /\ outcome[o] = "executed" => venue[o] = "filled"
    /\ outcome[o] = "failed"   => venue[o] = "unpriced"
    /\ outcome[o] = "rejected" => venue[o] = "rejected"
    /\ outcome[o] \in {"unavailable", "unsent"} =>
         venue[o] = None /\ \A i \in DOMAIN outbox : outbox[i] # o

(***************************************************************************)
(* Every call ends, though the session ends, the message is lost or the       *)
(* venue never answers.                                                      *)
(***************************************************************************)
CallsEnd == \A c \in Calls : pc[c] # "idle" ~> pc[c] = "done"
=============================================================================
