---------------------------- MODULE RfqLifecycle ----------------------------
(***************************************************************************)
(* One RFQ held by one owner who calls the methods of `impl Rfq` in any      *)
(* order and at any time, the calls that are refused included: the public    *)
(* interface of src/domain/entities/rfq.rs as a protocol.                    *)
(***************************************************************************)
EXTENDS RfqAggregate

CONSTANT MaxVersion   \* bound on the calls that can be repeated for ever

VARIABLES rfq,         \* the aggregate
          lapsed       \* quotes whose valid_until has passed

rfqVars == <<rfq, lapsed>>

RfqTypeOK == rfq \in Rfqs /\ lapsed \subseteq Quotes

RfqInit == rfq = NewRfq /\ lapsed = {}

Call(can, after) == can /\ rfq' = after /\ UNCHANGED lapsed

DoStartCollection == Call(CanStartQuoteCollection(rfq), StartQuoteCollection(rfq))
DoReceive(q)      == Call(CanReceiveQuote(rfq, q, lapsed) /\ rfq.version < MaxVersion,
                          ReceiveQuote(rfq, q))
DoSelect(q)       == Call(CanSelectQuote(rfq, q, lapsed), SelectQuote(rfq, q))
DoStartExecution  == Call(CanStartExecution(rfq, lapsed), StartExecution(rfq))
DoMarkExecuted    == Call(CanMarkExecuted(rfq), MarkExecuted(rfq))
DoMarkFailed      == Call(TRUE, MarkFailed(rfq))
DoCancel          == Call(CanCancel(rfq), Cancel(rfq))
DoExpire          == Call(CanExpire(rfq), Expire(rfq))
DoSetCompliance   == Call(rfq.version < MaxVersion, SetComplianceResult(rfq))

\* Timestamp::is_expired turns true for a quote; it never turns back.
QuoteLapses(q) == /\ q \notin lapsed
                  /\ lapsed' = lapsed \cup {q}
                  /\ UNCHANGED rfq

RfqNext == \/ DoStartCollection \/ DoStartExecution \/ DoMarkExecuted
           \/ DoMarkFailed \/ DoCancel \/ DoExpire \/ DoSetCompliance
           \/ \E q \in Quotes : DoReceive(q) \/ DoSelect(q) \/ QuoteLapses(q)

RfqSpec == RfqInit /\ [][RfqNext]_rfqVars
-----------------------------------------------------------------------------
Committed  == {"ClientSelecting", "Executing", "Executed"}
Unselected == {"Created", "QuoteRequesting", "QuotesReceived", "Negotiating"}

\* What is selected in a state: nothing before the client's choice, one of the
\* RFQ's own quotes from then on.
SelectionIsOwnQuote ==
  /\ rfq.selected # NoQuote => rfq.selected \in rfq.quotes
  /\ rfq.state \in Unselected => rfq.selected = NoQuote
  /\ rfq.state \in Committed => rfq.selected # NoQuote
  /\ rfq.quotes \cap Foreign = {}

(***************************************************************************)
(* The client chooses once: until then nothing is selected, what is chosen   *)
(* is a quote the RFQ holds and its own ("Quote must belong to this RFQ"),   *)
(* and no later call replaces or forgets it, so that an execution and all    *)
(* that follows it mean the same quote.                                      *)
(***************************************************************************)
SelectionIsFinal ==
  /\ []SelectionIsOwnQuote
  /\ [][rfq.selected # NoQuote => rfq'.selected = rfq.selected]_rfqVars

(***************************************************************************)
(* The version orders the contents: whatever a repository stores beside the  *)
(* failure text cannot change without a larger version, so two aggregates    *)
(* of one history with the same version agree.                               *)
(***************************************************************************)
VersionCoversChange ==
  [][[rfq' EXCEPT !.failure = rfq.failure] # rfq => rfq'.version > rfq.version]_rfqVars

(***************************************************************************)
(* collect_quotes.rs calls receive_quote once per quote; the batch operator  *)
(* used by RfqWorkflow is that loop, in whatever order the quotes come.      *)
(***************************************************************************)
BatchIsTheLoop ==
  LET Loop[batch \in SUBSET Quotes] ==
        IF batch = {} THEN {rfq}
        ELSE UNION {{IF CanReceiveQuote(r, q, lapsed) THEN ReceiveQuote(r, q) ELSE r :
                       r \in Loop[batch \ {q}]} : q \in batch}
  IN  \A batch \in SUBSET Quotes :
        Loop[batch] = {ReceiveAll(rfq, batch, lapsed)}

(***************************************************************************)
(* The refinement: the ten states read as the four of the contract.          *)
(***************************************************************************)
RfqStatus == CASE rfq.state \in {"ClientSelecting", "Executing"} -> "committed"
               [] rfq.state = "Executed"                         -> "executed"
               [] rfq.state \in TerminalStates \ {"Executed"}    -> "closed"
               [] OTHER                                          -> "open"

Promise == INSTANCE RfqContract
             WITH status <- RfqStatus, offers <- rfq.quotes, deal <- rfq.selected

\* The aggregate keeps the contract under every sequence of calls.
KeepsContract == Promise!Spec
=============================================================================
