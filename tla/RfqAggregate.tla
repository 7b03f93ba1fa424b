---------------------------- MODULE RfqAggregate ----------------------------
(***************************************************************************)
(* The RFQ aggregate (src/domain/entities/rfq.rs) as a record and the       *)
(* methods of `impl Rfq` as operators on it.  For each method M there is    *)
(*                                                                         *)
(*   CanM(r, ..)   the conditions under which the method returns Ok          *)
(*   M(r, ..)      the aggregate after a call that returned Ok                *)
(*                                                                         *)
(* A call that returns Err leaves the aggregate as it was, except            *)
(* mark_failed, which writes failure_reason before it checks the            *)
(* transition (MarkFailed below therefore covers both outcomes).            *)
(*                                                                         *)
(* Quotes have unique ids (UUID v4), so the Vec<Quote> is a set.  Time is    *)
(* the set of quotes whose valid_until has passed, passed as an argument.    *)
(* The u64 version is a natural number: it grows by at most one per call,    *)
(* and saturation at 2^64 - 1 is out of reach.                              *)
(***************************************************************************)
EXTENDS Naturals, FiniteSets, RfqState

CONSTANTS Quotes,    \* ids of the quotes a venue may return
          Foreign,   \* those whose rfq_id names another RFQ
          NoQuote    \* selected_quote_id = None

ASSUME QuotesAssumption == /\ IsFiniteSet(Quotes)
                           /\ Foreign \subseteq Quotes
                           /\ NoQuote \notin Quotes

Rfqs == [state : RfqStates, version : Nat, quotes : SUBSET Quotes,
         selected : Quotes \cup {NoQuote}, failure : {"none", "reason"}]

\* RfqBuilder::try_build: version 1, no quotes, nothing selected.
NewRfq == [state |-> "Created", version |-> 1, quotes |-> {},
           selected |-> NoQuote, failure |-> "none"]

\* Every change that succeeds adds one to the version.
Bump(r) == [r EXCEPT !.version = @ + 1]

\* Mutant: transition_to forgets the version.
MoveToUnversioned(r, s) == [r EXCEPT !.state = s]

\* transition_to, once its can_transition_to check has passed.
MoveTo(r, s) == Bump([r EXCEPT !.state = s])

Hold(r, batch) == [r EXCEPT !.quotes = @ \cup batch]

CanStartQuoteCollection(r) == CanTransition(r.state, "QuoteRequesting")
StartQuoteCollection(r)    == MoveTo(r, "QuoteRequesting")

\* Mutant: the match on the state is forgotten.
CanReceiveQuoteAnytime(r, q, expired) == q \notin Foreign /\ q \notin expired

\* receive_quote: the quote names this RFQ, it is live, and the RFQ collects.
CanReceiveQuote(r, q, expired) ==
  /\ q \notin Foreign
  /\ q \notin expired
  /\ r.state \in {"QuoteRequesting", "QuotesReceived"}
\* The first quote also moves the RFQ to QuotesReceived; every quote adds one
\* to the version.
ReceiveQuote(r, q) == MoveTo(Hold(r, {q}), "QuotesReceived")

\* Mutant: one version for the whole batch.
ReceiveAllAtOnce(r, batch, expired) ==
  LET taken == {q \in batch : CanReceiveQuote(r, q, expired)}
  IN  IF taken = {} THEN r ELSE MoveTo(Hold(r, taken), "QuotesReceived")

\* receive_quote called for each quote of a batch, refusals skipped.
ReceiveAll(r, batch, expired) ==
  LET taken == {q \in batch : CanReceiveQuote(r, q, expired)}
  IN  IF taken = {} THEN r
      ELSE [MoveTo(Hold(r, taken), "QuotesReceived")
              EXCEPT !.version = r.version + Cardinality(taken)]

\* Mutants: the quote is not looked up; the state is not checked;
\* the selection is not recorded.
CanSelectAnyQuote(r, q, expired) ==
  q \notin expired /\ CanTransition(r.state, "ClientSelecting")
CanSelectAgain(r, q, expired) == q \in r.quotes \ expired
SelectUnrecorded(r, q)   == MoveTo(r, "ClientSelecting")

CanSelectQuote(r, q, expired) ==
  /\ q \in r.quotes
  /\ q \notin expired
  /\ CanTransition(r.state, "ClientSelecting")
SelectQuote(r, q) == [MoveTo(r, "ClientSelecting") EXCEPT !.selected = q]

CanStartExecution(r, expired) ==
  /\ r.selected \in r.quotes
  /\ r.selected \notin expired
  /\ CanTransition(r.state, "Executing")
StartExecution(r) == MoveTo(r, "Executing")

CanMarkExecuted(r) == CanTransition(r.state, "Executed")
MarkExecuted(r)    == MoveTo(r, "Executed")

\* mark_failed: failure_reason is assigned whatever transition_to answers.
MarkFailed(r) ==
  LET moved == IF CanTransition(r.state, "Failed") THEN MoveTo(r, "Failed") ELSE r
  IN  [moved EXCEPT !.failure = "reason"]

CanCancel(r) == CanTransition(r.state, "Cancelled")
Cancel(r)    == MoveTo(r, "Cancelled")

CanExpire(r) == CanTransition(r.state, "Expired")
Expire(r)    == MoveTo(r, "Expired")

\* set_compliance_result: the result itself is not modelled, its version bump is.
SetComplianceResult(r) == Bump(r)
=============================================================================
