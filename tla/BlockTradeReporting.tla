------------------------- MODULE BlockTradeReporting -------------------------
(***************************************************************************)
(* Off-book execution composed with the publication of its delayed reports:  *)
(* ReportPublisher (src/domain/services/report_publisher.rs) over the         *)
(* delayed-report repository.  The report service of OffBookExecution is a    *)
(* trait; here it is ReportPublisher::schedule, which saves one report per    *)
(* trade, so `reported` is the content of the repository.                    *)
(*                                                                         *)
(* Workers call process_ready over and over.  Each call reads the reports     *)
(* that are due, marks them one by one, and hands the events over when it     *)
(* returns; other workers run at every await in between.  The repository is   *)
(* a trait: a mark may fail, or be done and answered with an error.          *)
(***************************************************************************)
EXTENDS OffBookExecution

CONSTANTS Workers,
          MaxAnnounced   \* bound on the events counted per worker and report

ASSUME BoundAssumption == MaxAnnounced \in Nat \ {0}

VARIABLES due,        \* reports whose publish_at has passed
          published,  \* reports with a published_at
          ready,      \* ready[w]: reports the call of w has read and not yet marked
          events,     \* events[w]: reports the call of w has marked
          announced   \* announced[w][t]: events for t's report that w has returned

rvars == <<due, published, ready, events, announced>>

ReportingTypeOK == /\ due \subseteq Trades /\ published \subseteq Trades
                   /\ ready \in [Workers -> SUBSET Trades]
                   /\ events \in [Workers -> SUBSET Trades]
                   /\ announced \in [Workers -> [Trades -> 0 .. MaxAnnounced]]

ReportingInit == /\ Init
                 /\ due = {} /\ published = {}
                 /\ ready = [w \in Workers |-> {}]
                 /\ events = [w \in Workers |-> {}]
                 /\ announced = [w \in Workers |-> [t \in Trades |-> 0]]
-----------------------------------------------------------------------------
\* The delay of t's reporting tier is over.
BecomesDue(t) == /\ t \in reported \ due
                 /\ due' = due \cup {t}
                 /\ UNCHANGED <<vars, published, ready, events, announced>>

\* Mutant: the delay is not compared.
ReadyAtOnce == reported \ published

\* find_ready_to_publish: not published, and publish_at has passed.
ReadyToPublish == due \ published

\* process_ready begins.
ProcessReady(w) == /\ ready[w] = {} /\ events[w] = {}
                   /\ ready' = [ready EXCEPT ![w] = ReadyToPublish]
                   /\ UNCHANGED <<vars, due, published, events, announced>>

\* publish_report for one of the reports read: mark_published overwrites the
\* mark whatever it was, and the event is kept for the end of the call.
PublishReport(w, t) ==
  /\ t \in ready[w]
  /\ ready' = [ready EXCEPT ![w] = @ \ {t}]
  /\ published' = published \cup {t}
  /\ events' = [events EXCEPT ![w] = @ \cup {t}]
  /\ UNCHANGED <<vars, due, announced>>

\* Mutant: the event is made although the mark failed.
MarkFailsPublished(w, t) ==
  /\ t \in ready[w]
  /\ ready' = [ready EXCEPT ![w] = @ \ {t}]
  /\ events' = [events EXCEPT ![w] = @ \cup {t}]
  /\ UNCHANGED <<vars, due, published, announced>>

\* The mark is answered with an error, which is logged; it may be there.
MarkFails(w, t) ==
  /\ t \in ready[w]
  /\ ready' = [ready EXCEPT ![w] = @ \ {t}]
  /\ published' \in {published, published \cup {t}}
  /\ UNCHANGED <<vars, due, events, announced>>

\* process_ready returns the events of its batch.
ReturnEvents(w) ==
  /\ ready[w] = {} /\ events[w] # {}
  /\ \A t \in events[w] : announced[w][t] < MaxAnnounced
  /\ announced' = [announced EXCEPT ![w] =
                     [t \in Trades |-> @[t] + (IF t \in events[w] THEN 1 ELSE 0)]]
  /\ events' = [events EXCEPT ![w] = {}]
  /\ UNCHANGED <<vars, due, published, ready>>

\* The call is dropped, with the events it holds.
DropCall(w) == /\ ready[w] # {} \/ events[w] # {}
               /\ ready' = [ready EXCEPT ![w] = {}]
               /\ events' = [events EXCEPT ![w] = {}]
               /\ UNCHANGED <<vars, due, published, announced>>

ReportingNext ==
  \/ Next /\ UNCHANGED rvars
  \/ \E t \in Trades : BecomesDue(t)
  \/ \E w \in Workers :
       \/ ProcessReady(w) \/ ReturnEvents(w) \/ DropCall(w)
       \/ \E t \in Trades : PublishReport(w, t) \/ MarkFails(w, t)

ReportingSpec == ReportingInit /\ [][ReportingNext]_<<vars, rvars>>
-----------------------------------------------------------------------------
(***************************************************************************)
(* What the public is told of is done: an event is returned only for a trade  *)
(* both parties agreed to, that is on chain and in the positions, and whose   *)
(* delay is over, although execute may have failed or been dropped after it   *)
(* scheduled the report.                                                     *)
(***************************************************************************)
AnnouncedIsDone ==
  \A w \in Workers, t \in Trades :
    announced[w][t] > 0 =>
      Agreed(t) /\ settled[t] = 1 /\ positions[t] = 1 /\ t \in due

(***************************************************************************)
(* A worker announces a report at most once, over all its calls, marks that   *)
(* failed and events that were lost.  (Two workers may both announce it.)    *)
(***************************************************************************)
AnnouncedOnce == \A w \in Workers, t \in Trades : announced[w][t] <= 1

(***************************************************************************)
(* The strengthening: what a call holds is due, what it announces is marked,  *)
(* and it holds nothing it has announced.                                    *)
(***************************************************************************)
ReportsInStep ==
  /\ due \subseteq reported
  /\ \A w \in Workers, t \in Trades :
       /\ t \in ready[w] \cup events[w] \/ announced[w][t] > 0 => t \in due
       /\ t \in events[w] \/ announced[w][t] > 0 => t \in published
       /\ announced[w][t] > 0 => t \notin ready[w] \cup events[w]
       /\ t \notin ready[w] \cap events[w]
=============================================================================
