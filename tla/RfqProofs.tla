------------------------------ MODULE RfqProofs ------------------------------
(***************************************************************************)
(* Proofs about the RFQ: lemmas about the methods of the aggregate, then     *)
(* RfqLifecycle (one owner, any quotes), then RfqWorkflow and RfqServedAlone  *)
(* (any set of requests, either repository, any number in flight).           *)
(***************************************************************************)
EXTENDS RfqLifecycle, RfqServedAlone, FiniteSetTheorems, WellFoundedInduction, TLAPS

(***************************************************************************)
(* 1. The methods of the aggregate.                                          *)
(***************************************************************************)
\* can_transition_to accepts known states only, and nothing from a terminal one.
LEMMA TransitionEnds ==
  ASSUME NEW from, NEW to, CanTransition(from, to)
  PROVE  from \in RfqStates \ TerminalStates /\ to \in RfqStates
BY DEF CanTransition, Transitions, RfqStates, TerminalStates

\* transition_to keeps every field but the state and the version.
LEMMA MoveToFacts ==
  ASSUME NEW r \in Rfqs, NEW s \in RfqStates
  PROVE  /\ MoveTo(r, s) \in Rfqs
         /\ MoveTo(r, s).state = s
         /\ MoveTo(r, s).version = r.version + 1
         /\ MoveTo(r, s).quotes = r.quotes
         /\ MoveTo(r, s).selected = r.selected
         /\ MoveTo(r, s).failure = r.failure
<1> DEFINE moved == [r EXCEPT !.state = s]
<1>1. /\ moved \in Rfqs /\ moved.state = s /\ moved.version = r.version
      /\ moved.quotes = r.quotes /\ moved.selected = r.selected
      /\ moved.failure = r.failure
  BY DEF Rfqs
<1> HIDE DEF moved
<1>2. /\ Bump(moved) \in Rfqs /\ Bump(moved).state = moved.state
      /\ Bump(moved).version = moved.version + 1
      /\ Bump(moved).quotes = moved.quotes /\ Bump(moved).selected = moved.selected
      /\ Bump(moved).failure = moved.failure
  BY <1>1 DEF Bump, Rfqs
<1>3. QED
  BY <1>1, <1>2 DEF MoveTo, moved

LEMMA HoldFacts ==
  ASSUME NEW r \in Rfqs, NEW batch \in SUBSET Quotes
  PROVE  /\ Hold(r, batch) \in Rfqs
         /\ Hold(r, batch).state = r.state
         /\ Hold(r, batch).version = r.version
         /\ Hold(r, batch).quotes = r.quotes \cup batch
         /\ Hold(r, batch).selected = r.selected
         /\ Hold(r, batch).failure = r.failure
<1>1. r.quotes \cup batch \in SUBSET Quotes
  BY DEF Rfqs
<1>2. QED
  BY <1>1 DEF Hold, Rfqs

LEMMA NewRfqFacts == NewRfq \in Rfqs
BY DEF NewRfq, Rfqs, RfqStates

\* receive_quote adds the quote and nothing else.
LEMMA ReceiveQuoteFacts ==
  ASSUME NEW r \in Rfqs, NEW q \in Quotes
  PROVE  /\ ReceiveQuote(r, q) \in Rfqs
         /\ ReceiveQuote(r, q).state = "QuotesReceived"
         /\ ReceiveQuote(r, q).quotes = r.quotes \cup {q}
         /\ ReceiveQuote(r, q).selected = r.selected
         /\ ReceiveQuote(r, q).version = r.version + 1
         /\ ReceiveQuote(r, q).failure = r.failure
<1>1. {q} \in SUBSET Quotes
  OBVIOUS
<1>2. "QuotesReceived" \in RfqStates
  BY DEF RfqStates
<1>3. QED
  BY <1>1, <1>2, HoldFacts, MoveToFacts DEF ReceiveQuote

\* A batch of quotes either leaves the aggregate as it was or brings it to
\* QuotesReceived with quotes of this RFQ.
LEMMA ReceiveAllFacts ==
  ASSUME NEW r \in Rfqs, NEW batch \in SUBSET Quotes, NEW late
  PROVE  /\ ReceiveAll(r, batch, late) \in Rfqs
         /\ ReceiveAll(r, batch, late).selected = r.selected
         /\ \/ ReceiveAll(r, batch, late) = r
            \/ /\ ReceiveAll(r, batch, late).state = "QuotesReceived"
               /\ ReceiveAll(r, batch, late).quotes # {}
<1> DEFINE taken == {q \in batch : CanReceiveQuote(r, q, late)}
<1>1. CASE taken = {}
  BY <1>1 DEF ReceiveAll
<1>2. CASE taken # {}
  <2>1. taken \in SUBSET Quotes /\ IsFiniteSet(taken)
    BY QuotesAssumption, FS_Subset
  <2>2. r.version + Cardinality(taken) \in Nat
    BY <2>1, FS_CardinalityType DEF Rfqs
  <2>3. ReceiveAll(r, batch, late) =
          [MoveTo(Hold(r, taken), "QuotesReceived")
             EXCEPT !.version = r.version + Cardinality(taken)]
    BY <1>2 DEF ReceiveAll
  <2> HIDE DEF taken
  <2> DEFINE moved == MoveTo(Hold(r, taken), "QuotesReceived")
  <2>4. "QuotesReceived" \in RfqStates
    BY DEF RfqStates
  <2>5. /\ moved \in Rfqs /\ moved.state = "QuotesReceived"
        /\ moved.quotes # {} /\ moved.selected = r.selected
    BY <1>2, <2>1, <2>4, HoldFacts, MoveToFacts
  <2> HIDE DEF moved
  <2>6. QED
    BY <2>2, <2>3, <2>5 DEF Rfqs, moved
<1>3. QED
  BY <1>1, <1>2

\* select_quote: one transition and the choice.
LEMMA SelectQuoteFacts ==
  ASSUME NEW r \in Rfqs, NEW q \in Quotes
  PROVE  /\ SelectQuote(r, q) \in Rfqs
         /\ SelectQuote(r, q).state = "ClientSelecting"
         /\ SelectQuote(r, q).selected = q
         /\ SelectQuote(r, q).quotes = r.quotes
         /\ SelectQuote(r, q).version = r.version + 1
<1> DEFINE moved == MoveTo(r, "ClientSelecting")
<1>1. "ClientSelecting" \in RfqStates
  BY DEF RfqStates
<1>2. /\ moved \in Rfqs /\ moved.state = "ClientSelecting"
      /\ moved.quotes = r.quotes /\ moved.version = r.version + 1
  BY <1>1, MoveToFacts
<1> HIDE DEF moved
<1>3. QED
  BY <1>2 DEF SelectQuote, Rfqs, moved

\* mark_failed either fails the RFQ or only writes the reason.
LEMMA MarkFailedFacts ==
  ASSUME NEW r \in Rfqs
  PROVE  /\ MarkFailed(r) \in Rfqs
         /\ MarkFailed(r).quotes = r.quotes
         /\ MarkFailed(r).selected = r.selected
         /\ \/ /\ CanTransition(r.state, "Failed")
               /\ MarkFailed(r).state = "Failed"
               /\ MarkFailed(r).version = r.version + 1
            \/ MarkFailed(r) = [r EXCEPT !.failure = "reason"]
<1> DEFINE moved == IF CanTransition(r.state, "Failed") THEN MoveTo(r, "Failed") ELSE r
<1>1. "Failed" \in RfqStates
  BY DEF RfqStates
<1>2. /\ moved \in Rfqs /\ moved.quotes = r.quotes /\ moved.selected = r.selected
      /\ \/ /\ CanTransition(r.state, "Failed") /\ moved.state = "Failed"
            /\ moved.version = r.version + 1
         \/ moved = r
  BY <1>1, MoveToFacts
<1> HIDE DEF moved
<1>3. MarkFailed(r) = [moved EXCEPT !.failure = "reason"]
  BY DEF MarkFailed, moved
<1>4. QED
  BY <1>2, <1>3 DEF Rfqs
-----------------------------------------------------------------------------
(***************************************************************************)
(* 2. RfqLifecycle: the type invariant, the invariant that ties the selection  *)
(* to the quotes, the refinement of RfqContract, what the version covers.    *)
(***************************************************************************)
\* The methods keep the aggregate well formed.
THEOREM RfqTypeCorrect == RfqSpec => []RfqTypeOK
<1>1. RfqInit => RfqTypeOK
  BY NewRfqFacts DEF RfqInit, RfqTypeOK
<1>2. RfqTypeOK /\ [RfqNext]_rfqVars => RfqTypeOK'
  <2> SUFFICES ASSUME RfqTypeOK, [RfqNext]_rfqVars PROVE RfqTypeOK'
    OBVIOUS
  <2> USE DEF RfqTypeOK, Call
  <2>1. CASE \/ DoStartCollection \/ DoStartExecution \/ DoMarkExecuted
             \/ DoCancel \/ DoExpire
    <3>1. \E s \in RfqStates : rfq' = MoveTo(rfq, s) /\ UNCHANGED lapsed
      BY <2>1, TransitionEnds
         DEF DoStartCollection, DoStartExecution, DoMarkExecuted, DoCancel, DoExpire,
             StartQuoteCollection, StartExecution, MarkExecuted, Cancel, Expire,
             RfqStates
    <3>2. QED
      BY <3>1, MoveToFacts
  <2>2. CASE DoMarkFailed
    BY <2>2, MarkFailedFacts DEF DoMarkFailed
  <2>3. CASE DoSetCompliance
    BY <2>3 DEF DoSetCompliance, SetComplianceResult, Bump, Rfqs
  <2>4. ASSUME NEW q \in Quotes, DoReceive(q) PROVE RfqTypeOK'
    BY <2>4, ReceiveQuoteFacts DEF DoReceive
  <2>5. ASSUME NEW q \in Quotes, DoSelect(q) PROVE RfqTypeOK'
    BY <2>5, SelectQuoteFacts DEF DoSelect
  <2>6. ASSUME NEW q \in Quotes, QuoteLapses(q) PROVE RfqTypeOK'
    BY <2>6 DEF QuoteLapses
  <2>7. CASE UNCHANGED rfqVars
    BY <2>7 DEF rfqVars
  <2>8. QED
    BY <2>1, <2>2, <2>3, <2>4, <2>5, <2>6, <2>7 DEF RfqNext
<1>3. QED
  BY <1>1, <1>2, PTL DEF RfqSpec

-----------------------------------------------------------------------------
\* The states a quote has been selected in, and where they lead.
LEMMA CommittedEntry ==
  ASSUME NEW from, NEW to \in Committed, CanTransition(from, to)
  PROVE  to = "ClientSelecting" \/ from \in Committed
BY DEF CanTransition, Transitions, Committed

\* Nor is there a way back to the states before a selection.
LEMMA UnselectedEntry ==
  ASSUME NEW from, NEW to \in Unselected, CanTransition(from, to)
  PROVE  from \in Unselected
BY DEF CanTransition, Transitions, Unselected

\* What is selected in each state is inductive with the type invariant.
LEMMA SelectionOwn == RfqSpec => []SelectionIsOwnQuote
<1>1. RfqInit => SelectionIsOwnQuote
  BY DEF RfqInit, NewRfq, SelectionIsOwnQuote, Committed, Unselected
<1>2. RfqTypeOK /\ SelectionIsOwnQuote /\ [RfqNext]_rfqVars => SelectionIsOwnQuote'
  <2> SUFFICES ASSUME RfqTypeOK, SelectionIsOwnQuote, [RfqNext]_rfqVars
               PROVE  SelectionIsOwnQuote'
    OBVIOUS
  <2>1. ASSUME NEW s \in RfqStates, s # "ClientSelecting",
               CanTransition(rfq.state, s), rfq' = MoveTo(rfq, s)
        PROVE  SelectionIsOwnQuote'
    <3>1. /\ rfq'.state = s /\ rfq'.quotes = rfq.quotes
          /\ rfq'.selected = rfq.selected
      BY <2>1, MoveToFacts DEF RfqTypeOK
    <3>2. /\ s \in Committed => rfq.state \in Committed
          /\ s \in Unselected => rfq.state \in Unselected
      BY <2>1, CommittedEntry, UnselectedEntry
    <3>3. QED
      BY <3>1, <3>2 DEF SelectionIsOwnQuote
  <2>2. CASE DoStartCollection
    BY <2>1, <2>2 DEF DoStartCollection, Call, CanStartQuoteCollection,
                      StartQuoteCollection, RfqStates
  <2>3. CASE DoStartExecution
    BY <2>1, <2>3 DEF DoStartExecution, Call, CanStartExecution, StartExecution, RfqStates
  <2>4. CASE DoMarkExecuted
    BY <2>1, <2>4 DEF DoMarkExecuted, Call, CanMarkExecuted, MarkExecuted, RfqStates
  <2>5. CASE DoCancel
    BY <2>1, <2>5 DEF DoCancel, Call, CanCancel, Cancel, RfqStates
  <2>6. CASE DoExpire
    BY <2>1, <2>6 DEF DoExpire, Call, CanExpire, Expire, RfqStates
  <2>7. CASE DoMarkFailed
    <3>1. /\ rfq'.quotes = rfq.quotes /\ rfq'.selected = rfq.selected
          /\ rfq'.state = "Failed" \/ rfq'.state = rfq.state
      BY <2>7, MarkFailedFacts DEF DoMarkFailed, Call, RfqTypeOK, Rfqs
    <3>2. QED
      BY <3>1 DEF SelectionIsOwnQuote, Committed, Unselected
  <2>8. CASE DoSetCompliance
    BY <2>8 DEF DoSetCompliance, Call, SetComplianceResult, Bump, RfqTypeOK, Rfqs,
                SelectionIsOwnQuote
  <2>9. ASSUME NEW q \in Quotes, DoReceive(q) PROVE SelectionIsOwnQuote'
    <3>1. /\ q \notin Foreign /\ rfq'.state = "QuotesReceived"
          /\ rfq.state \in {"QuoteRequesting", "QuotesReceived"}
          /\ rfq'.quotes = rfq.quotes \cup {q} /\ rfq'.selected = rfq.selected
      BY <2>9, ReceiveQuoteFacts DEF DoReceive, Call, CanReceiveQuote, RfqTypeOK
    <3>2. QED
      BY <3>1 DEF SelectionIsOwnQuote, Committed, Unselected
  <2>10. ASSUME NEW q \in Quotes, DoSelect(q) PROVE SelectionIsOwnQuote'
    <3>1. /\ q \in rfq.quotes /\ rfq'.selected = q /\ rfq'.quotes = rfq.quotes
          /\ rfq'.state = "ClientSelecting"
      BY <2>10, SelectQuoteFacts DEF DoSelect, Call, CanSelectQuote, RfqTypeOK
    <3>2. QED
      BY <3>1, QuotesAssumption DEF SelectionIsOwnQuote, Unselected
  <2>11. CASE UNCHANGED rfq
    BY <2>11 DEF SelectionIsOwnQuote
  <2>12. QED
    BY <2>2, <2>3, <2>4, <2>5, <2>6, <2>7, <2>8, <2>9, <2>10, <2>11
       DEF RfqNext, rfqVars, QuoteLapses
<1>3. QED
  BY <1>1, <1>2, RfqTypeCorrect, PTL DEF RfqSpec


\* The client's choice is an own quote, and no later call replaces or forgets
\* it: select_quote, the only method that writes it, finds nothing selected.
THEOREM SelectionSafe == RfqSpec => SelectionIsFinal
<1>1. RfqTypeOK /\ SelectionIsOwnQuote /\ [RfqNext]_rfqVars
        => [rfq.selected # NoQuote => rfq'.selected = rfq.selected]_rfqVars
  <2> SUFFICES ASSUME RfqTypeOK, SelectionIsOwnQuote, [RfqNext]_rfqVars,
                      rfq.selected # NoQuote
               PROVE  rfq'.selected = rfq.selected
    OBVIOUS
  <2>1. ASSUME NEW s \in RfqStates, rfq' = MoveTo(rfq, s)
        PROVE  rfq'.selected = rfq.selected
    BY <2>1, MoveToFacts DEF RfqTypeOK
  <2>2. CASE DoStartCollection \/ DoStartExecution \/ DoMarkExecuted \/ DoCancel \/ DoExpire
    BY <2>1, <2>2 DEF DoStartCollection, DoStartExecution, DoMarkExecuted, DoCancel, DoExpire,
       Call, StartQuoteCollection, StartExecution, MarkExecuted, Cancel, Expire, RfqStates
  <2>3. CASE DoMarkFailed
    BY <2>3, MarkFailedFacts DEF DoMarkFailed, Call, RfqTypeOK, Rfqs
  <2>4. CASE DoSetCompliance
    BY <2>4 DEF DoSetCompliance, Call, SetComplianceResult, Bump, RfqTypeOK, Rfqs
  <2>5. ASSUME NEW q \in Quotes, DoReceive(q) PROVE rfq'.selected = rfq.selected
    BY <2>5, ReceiveQuoteFacts DEF DoReceive, Call, CanReceiveQuote, RfqTypeOK
  <2>6. ASSUME NEW q \in Quotes, DoSelect(q) PROVE FALSE
    BY <2>6 DEF DoSelect, Call, CanSelectQuote, CanTransition, Transitions,
                SelectionIsOwnQuote, Unselected
  <2>7. CASE UNCHANGED rfq
    BY <2>7
  <2>8. QED
    BY <2>2, <2>3, <2>4, <2>5, <2>6, <2>7 DEF RfqNext, rfqVars, QuoteLapses
<1>2. QED
  BY <1>1, RfqTypeCorrect, SelectionOwn, PTL DEF RfqSpec, SelectionIsFinal

-----------------------------------------------------------------------------
\* Which states the contract sees as open, committed and so on.
LEMMA StatusFacts ==
  ASSUME RfqTypeOK
  PROVE  /\ rfq.state \in {"Created", "QuoteRequesting", "QuotesReceived", "Negotiating"}
              => RfqStatus = "open"
         /\ rfq.state \in {"ClientSelecting", "Executing"} => RfqStatus = "committed"
         /\ rfq.state = "Executed" => RfqStatus = "executed"
         /\ rfq.state \in {"Failed", "Cancelled", "Expired"} => RfqStatus = "closed"
BY DEF RfqStatus, TerminalStates

\* RfqStatus is a function of the state: a step that keeps the state keeps it.
LEMMA StatusFactsNext ==
  ASSUME RfqTypeOK'
  PROVE  /\ rfq'.state \in {"Created", "QuoteRequesting", "QuotesReceived", "Negotiating"}
              => RfqStatus' = "open"
         /\ rfq'.state \in {"ClientSelecting", "Executing"} => RfqStatus' = "committed"
         /\ rfq'.state = "Executed" => RfqStatus' = "executed"
         /\ rfq'.state \in {"Failed", "Cancelled", "Expired"} => RfqStatus' = "closed"
BY DEF RfqStatus, TerminalStates

\* A transition to Failed, Cancelled or Expired closes the contract.
LEMMA ClosingStep ==
  ASSUME RfqTypeOK, RfqTypeOK', NEW s \in {"Failed", "Cancelled", "Expired"},
         CanTransition(rfq.state, s), rfq'.state = s,
         rfq'.quotes = rfq.quotes, rfq'.selected = rfq.selected
  PROVE  Promise!Close
<1>1. rfq.state \in {"Created", "QuoteRequesting", "QuotesReceived", "Negotiating",
                     "ClientSelecting", "Executing"}
  BY DEF CanTransition, Transitions
<1>2. QED
  BY <1>1, StatusFacts, StatusFactsNext DEF Promise!Close

\* The aggregate implements the contract: every method call is one of the
\* contract's steps or invisible to it.
THEOREM ContractKept == RfqSpec => KeepsContract
<1>1. RfqInit => Promise!Init
  BY DEF RfqInit, NewRfq, Promise!Init, RfqStatus, TerminalStates
<1>2. RfqTypeOK /\ RfqTypeOK' /\ SelectionIsOwnQuote /\ [RfqNext]_rfqVars
        => [Promise!Next]_(Promise!cvars)
  <2> SUFFICES ASSUME RfqTypeOK, RfqTypeOK', SelectionIsOwnQuote, [RfqNext]_rfqVars
               PROVE  Promise!Next \/ UNCHANGED Promise!cvars
    OBVIOUS
  <2>1. CASE DoStartCollection
    <3>1. /\ rfq.state = "Created" /\ rfq'.state = "QuoteRequesting"
          /\ rfq'.quotes = rfq.quotes /\ rfq'.selected = rfq.selected
      BY <2>1, MoveToFacts DEF DoStartCollection, Call, CanStartQuoteCollection,
         StartQuoteCollection, RfqTypeOK, CanTransition, Transitions, RfqStates
    <3>2. QED
      BY <3>1, StatusFacts, StatusFactsNext DEF Promise!cvars
  <2>2. CASE DoStartExecution
    <3>1. /\ rfq.state = "ClientSelecting" /\ rfq'.state = "Executing"
          /\ rfq'.quotes = rfq.quotes /\ rfq'.selected = rfq.selected
      BY <2>2, MoveToFacts DEF DoStartExecution, Call, CanStartExecution,
         StartExecution, RfqTypeOK, CanTransition, Transitions, RfqStates
    <3>2. QED
      BY <3>1, StatusFacts, StatusFactsNext DEF Promise!cvars
  <2>3. CASE DoMarkExecuted
    <3>1. /\ rfq.state = "Executing" /\ rfq'.state = "Executed"
          /\ rfq'.quotes = rfq.quotes /\ rfq'.selected = rfq.selected
      BY <2>3, MoveToFacts DEF DoMarkExecuted, Call, CanMarkExecuted,
         MarkExecuted, RfqTypeOK, CanTransition, Transitions, RfqStates
    <3>2. rfq.selected \in rfq.quotes /\ rfq.selected \in Quotes
      BY <3>1 DEF SelectionIsOwnQuote, Committed, RfqTypeOK, Rfqs
    <3>3. Promise!Settle(rfq.selected)
      BY <3>1, <3>2, StatusFacts, StatusFactsNext DEF Promise!Settle
    <3>4. QED
      BY <3>2, <3>3 DEF Promise!Next
  <2>4. CASE DoCancel
    <3>1. Promise!Close
      BY <2>4, ClosingStep, MoveToFacts
         DEF DoCancel, Call, CanCancel, Cancel, RfqTypeOK, RfqStates
    <3>2. QED
      BY <3>1 DEF Promise!Next
  <2>5. CASE DoExpire
    <3>1. Promise!Close
      BY <2>5, ClosingStep, MoveToFacts
         DEF DoExpire, Call, CanExpire, Expire, RfqTypeOK, RfqStates
    <3>2. QED
      BY <3>1 DEF Promise!Next
  <2>6. CASE DoMarkFailed
    <3>1. /\ rfq'.quotes = rfq.quotes /\ rfq'.selected = rfq.selected
          /\ \/ CanTransition(rfq.state, "Failed") /\ rfq'.state = "Failed"
             \/ rfq'.state = rfq.state
      BY <2>6, MarkFailedFacts DEF DoMarkFailed, Call, RfqTypeOK, Rfqs
    <3>2. CASE rfq'.state = rfq.state
      BY <3>1, <3>2 DEF Promise!cvars, RfqStatus
    <3>3. CASE CanTransition(rfq.state, "Failed") /\ rfq'.state = "Failed"
      BY <3>1, <3>3, ClosingStep DEF Promise!Next
    <3>4. QED
      BY <3>1, <3>2, <3>3
  <2>7. CASE DoSetCompliance
    <3>1. /\ rfq'.quotes = rfq.quotes /\ rfq'.selected = rfq.selected
          /\ rfq'.state = rfq.state
      BY <2>7 DEF DoSetCompliance, Call, SetComplianceResult, Bump, RfqTypeOK, Rfqs
    <3>2. QED
      BY <3>1 DEF Promise!cvars, RfqStatus
  <2>8. ASSUME NEW q \in Quotes, DoReceive(q) PROVE Promise!Next
    <3>1. /\ rfq.state \in {"QuoteRequesting", "QuotesReceived"}
          /\ rfq'.state = "QuotesReceived"
          /\ rfq'.quotes = rfq.quotes \cup {q} /\ rfq'.selected = rfq.selected
      BY <2>8, ReceiveQuoteFacts DEF DoReceive, Call, CanReceiveQuote, RfqTypeOK
    <3>2. {q} \in SUBSET Quotes
      OBVIOUS
    <3>3. Promise!Offer
      BY <3>1, <3>2, StatusFacts, StatusFactsNext DEF Promise!Offer
    <3>4. QED
      BY <3>3 DEF Promise!Next
  <2>9. ASSUME NEW q \in Quotes, DoSelect(q) PROVE Promise!Next
    <3>1. /\ q \in rfq.quotes /\ rfq.state \in {"QuotesReceived", "Negotiating"}
          /\ rfq'.state = "ClientSelecting"
          /\ rfq'.quotes = rfq.quotes /\ rfq'.selected = q
      BY <2>9, SelectQuoteFacts
         DEF DoSelect, Call, CanSelectQuote, RfqTypeOK, CanTransition, Transitions
    <3>2. Promise!Commit(q)
      BY <3>1, StatusFacts, StatusFactsNext DEF Promise!Commit
    <3>3. QED
      BY <3>2 DEF Promise!Next
  <2>10. CASE UNCHANGED rfq
    BY <2>10 DEF Promise!cvars, RfqStatus
  <2>11. QED
    BY <2>1, <2>2, <2>3, <2>4, <2>5, <2>6, <2>7, <2>8, <2>9, <2>10
       DEF RfqNext, rfqVars, QuoteLapses
<1>3. QED
  BY <1>1, <1>2, RfqTypeCorrect, SelectionOwn, PTL DEF RfqSpec, KeepsContract, Promise!Spec
-----------------------------------------------------------------------------
\* A record that got its failure text back is the record before.
LEMMA FailureRestored ==
  ASSUME NEW r \in Rfqs, NEW f \in {"none", "reason"}
  PROVE  [[r EXCEPT !.failure = f] EXCEPT !.failure = r.failure] = r
<1> DEFINE m == [r EXCEPT !.failure = f]
<1>1. /\ m \in Rfqs /\ m.state = r.state /\ m.version = r.version
      /\ m.quotes = r.quotes /\ m.selected = r.selected
  BY DEF Rfqs
<1> HIDE DEF m
<1>2. [m EXCEPT !.failure = r.failure] = r
  BY <1>1 DEF Rfqs
<1>3. QED
  BY <1>2 DEF m

\* Whatever a repository stores beside the failure text changes with a larger
\* version only.
THEOREM VersionCovers == RfqSpec => VersionCoversChange
<1>1. RfqTypeOK /\ [RfqNext]_rfqVars
        => [[rfq' EXCEPT !.failure = rfq.failure] # rfq => rfq'.version > rfq.version]_rfqVars
  <2> SUFFICES ASSUME RfqTypeOK, RfqNext
               PROVE  \/ rfq'.version = rfq.version + 1
                      \/ [rfq' EXCEPT !.failure = rfq.failure] = rfq
    BY DEF RfqTypeOK, Rfqs
  <2> USE DEF RfqTypeOK, Call
  <2>1. CASE \/ DoStartCollection \/ DoStartExecution \/ DoMarkExecuted
             \/ DoCancel \/ DoExpire
    <3>1. \E s \in RfqStates : rfq' = MoveTo(rfq, s)
      BY <2>1, TransitionEnds
         DEF DoStartCollection, DoStartExecution, DoMarkExecuted, DoCancel, DoExpire,
             StartQuoteCollection, StartExecution, MarkExecuted, Cancel, Expire,
             RfqStates
    <3>2. QED
      BY <3>1, MoveToFacts
  <2>2. CASE DoMarkFailed
    BY <2>2, MarkFailedFacts, FailureRestored DEF DoMarkFailed
  <2>3. CASE DoSetCompliance
    BY <2>3 DEF DoSetCompliance, SetComplianceResult, Bump, Rfqs
  <2>4. ASSUME NEW q \in Quotes, DoReceive(q) PROVE rfq'.version = rfq.version + 1
    BY <2>4, ReceiveQuoteFacts DEF DoReceive
  <2>5. ASSUME NEW q \in Quotes, DoSelect(q) PROVE rfq'.version = rfq.version + 1
    BY <2>5, SelectQuoteFacts DEF DoSelect
  <2>6. ASSUME NEW q \in Quotes, QuoteLapses(q)
        PROVE  [rfq' EXCEPT !.failure = rfq.failure] = rfq
    BY <2>6 DEF QuoteLapses, Rfqs
  <2>7. QED
    BY <2>1, <2>2, <2>3, <2>4, <2>5, <2>6 DEF RfqNext
<1>2. QED
  BY <1>1, RfqTypeCorrect, PTL DEF RfqSpec, VersionCoversChange
-----------------------------------------------------------------------------
(***************************************************************************)
(* The batch operator is the loop.  The loop is a recursive function: that a   *)
(* function satisfies its equation is shown by the batch operator itself, and  *)
(* that no other does by the smallest batch they could differ on.            *)
(***************************************************************************)
\* Induction on finite sets, as the existence of a smallest member of T.
LEMMA SmallestSet ==
  ASSUME NEW S, IsFiniteSet(S), NEW T \in SUBSET (SUBSET S), T # {}
  PROVE  \E s \in T : \A x \in s : s \ {x} \notin T
<1> DEFINE Sizes == {Cardinality(s) : s \in T}
<1>1. \A s \in T : IsFiniteSet(s) /\ Cardinality(s) \in Nat
  BY FS_Subset, FS_CardinalityType
<1>2. Sizes \subseteq Nat /\ Sizes # {}
  BY <1>1
<1>3. PICK n \in Sizes : \A m \in Sizes : ~(<<m, n>> \in OpToRel(<, Nat))
  <2> HIDE DEF Sizes
  <2>1. QED
    BY <1>2, NatLessThanWellFounded, WFMin
<1>4. PICK s \in T : Cardinality(s) = n
  BY <1>3
<1>5. ASSUME NEW x \in s, s \ {x} \in T PROVE FALSE
  <2>1. Cardinality(s \ {x}) = n - 1 /\ Cardinality(s \ {x}) \in Sizes
    BY <1>1, <1>4, <1>5, FS_RemoveElement
  <2>2. n - 1 \in Nat /\ n \in Nat
    BY <1>2, <2>1
  <2>3. <<n - 1, n>> \in OpToRel(<, Nat)
    BY <2>2 DEF OpToRel
  <2>4. QED
    BY <1>3, <2>1, <2>3
<1>6. QED
  BY <1>4, <1>5

LEMMA SameRfq ==
  ASSUME NEW a \in Rfqs, NEW b \in Rfqs, a.state = b.state, a.version = b.version,
         a.quotes = b.quotes, a.selected = b.selected, a.failure = b.failure
  PROVE  a = b
BY DEF Rfqs

Taken(r, batch, late) == {q \in batch : CanReceiveQuote(r, q, late)}

LEMMA TakenFacts ==
  ASSUME NEW r, NEW batch \in SUBSET Quotes, NEW late
  PROVE  /\ Taken(r, batch, late) \in SUBSET Quotes /\ IsFiniteSet(Taken(r, batch, late))
         /\ Cardinality(Taken(r, batch, late)) \in Nat
<1>1. Taken(r, batch, late) \in SUBSET Quotes
  BY DEF Taken
<1>2. QED
  BY <1>1, QuotesAssumption, FS_Subset, FS_CardinalityType

\* The fields of the aggregate after a batch.
LEMMA BatchFields ==
  ASSUME NEW r \in Rfqs, NEW batch \in SUBSET Quotes, NEW late
  PROVE  /\ Taken(r, batch, late) = {} => ReceiveAll(r, batch, late) = r
         /\ Taken(r, batch, late) # {} =>
              /\ ReceiveAll(r, batch, late).state = "QuotesReceived"
              /\ ReceiveAll(r, batch, late).version
                   = r.version + Cardinality(Taken(r, batch, late))
              /\ ReceiveAll(r, batch, late).quotes = r.quotes \cup Taken(r, batch, late)
              /\ ReceiveAll(r, batch, late).selected = r.selected
              /\ ReceiveAll(r, batch, late).failure = r.failure
<1>1. PICK taken : taken = Taken(r, batch, late)
  OBVIOUS
<1>2. taken \in SUBSET Quotes /\ Cardinality(taken) \in Nat /\ "QuotesReceived" \in RfqStates
  BY <1>1, TakenFacts DEF RfqStates
<1>3. ReceiveAll(r, batch, late) =
        IF taken = {} THEN r
        ELSE [MoveTo(Hold(r, taken), "QuotesReceived")
                EXCEPT !.version = r.version + Cardinality(taken)]
  BY <1>1 DEF ReceiveAll, Taken
<1>4. PICK moved : moved = MoveTo(Hold(r, taken), "QuotesReceived")
  OBVIOUS
<1>5. /\ moved \in Rfqs /\ moved.state = "QuotesReceived" /\ moved.quotes = r.quotes \cup taken
      /\ moved.selected = r.selected /\ moved.failure = r.failure
  BY <1>2, <1>4, HoldFacts, MoveToFacts
<1>6. CASE taken # {}
  <2>1. ReceiveAll(r, batch, late)
          = [moved EXCEPT !.version = r.version + Cardinality(taken)]
    BY <1>3, <1>4, <1>6
  <2>2. QED
    BY <1>1, <1>5, <1>6, <2>1 DEF Rfqs
<1>7. CASE taken = {}
  BY <1>1, <1>3, <1>7
<1>8. QED
  BY <1>6, <1>7

\* One more call of receive_quote after the rest of the batch.
Receive(r, q, late) == IF CanReceiveQuote(r, q, late) THEN ReceiveQuote(r, q) ELSE r

LEMMA OneMore ==
  ASSUME NEW r \in Rfqs, NEW batch \in SUBSET Quotes, NEW q \in batch, NEW late
  PROVE  Receive(ReceiveAll(r, batch \ {q}, late), q, late) = ReceiveAll(r, batch, late)
<1>1. PICK rest : rest = ReceiveAll(r, batch \ {q}, late)
  OBVIOUS
<1>2. PICK some : some = Taken(r, batch \ {q}, late)
  OBVIOUS
<1>3. batch \ {q} \in SUBSET Quotes /\ q \in Quotes
  OBVIOUS
<1>4. /\ rest \in Rfqs
      /\ some = {} => rest = r
      /\ some # {} => /\ rest.state = "QuotesReceived"
                      /\ rest.version = r.version + Cardinality(some)
                      /\ rest.quotes = r.quotes \cup some
                      /\ rest.selected = r.selected /\ rest.failure = r.failure
      /\ IsFiniteSet(some) /\ Cardinality(some) \in Nat /\ r.version \in Nat
  <2>1. PICK less \in SUBSET Quotes : less = batch \ {q}
    BY <1>3
  <2>2. rest = ReceiveAll(r, less, late) /\ some = Taken(r, less, late)
    BY <1>1, <1>2, <2>1
  <2>3. rest \in Rfqs
    BY <2>2, ReceiveAllFacts
  <2>4. IsFiniteSet(some) /\ Cardinality(some) \in Nat
    BY <2>2, TakenFacts
  <2>5. r.version \in Nat
    BY DEF Rfqs
  <2>6. some = {} => rest = r
    BY <2>2, BatchFields
  <2>7. some # {} => /\ rest.state = "QuotesReceived"
                     /\ rest.version = r.version + Cardinality(some)
                     /\ rest.quotes = r.quotes \cup some
                     /\ rest.selected = r.selected /\ rest.failure = r.failure
    BY <2>2, BatchFields
  <2>8. QED
    BY <2>3, <2>4, <2>5, <2>6, <2>7
<1>5. CanReceiveQuote(rest, q, late) <=> CanReceiveQuote(r, q, late)
  <2>1. some # {} => r.state \in {"QuoteRequesting", "QuotesReceived"}
    BY <1>2 DEF Taken, CanReceiveQuote
  <2>2. QED
    BY <1>4, <2>1 DEF CanReceiveQuote
<1>6. CASE CanReceiveQuote(r, q, late)
  <2>1. Taken(r, batch, late) = some \cup {q} /\ q \notin some
    BY <1>2, <1>6 DEF Taken
  <2>2. Cardinality(some \cup {q}) = Cardinality(some) + 1
    BY <1>4, <2>1, FS_AddElement
  <2>3. PICK a : a = ReceiveQuote(rest, q)
    OBVIOUS
  <2>4. PICK b : b = ReceiveAll(r, batch, late)
    OBVIOUS
  <2>5. /\ a \in Rfqs /\ a.state = "QuotesReceived" /\ a.quotes = rest.quotes \cup {q}
        /\ a.selected = rest.selected /\ a.version = rest.version + 1
        /\ a.failure = rest.failure
    BY <1>3, <1>4, <2>3, ReceiveQuoteFacts
  <2>6. /\ b \in Rfqs /\ b.state = "QuotesReceived" /\ b.quotes = r.quotes \cup (some \cup {q})
        /\ b.selected = r.selected /\ b.version = r.version + Cardinality(some \cup {q})
        /\ b.failure = r.failure
    <3>1. b \in Rfqs
      BY <2>4, ReceiveAllFacts
    <3>2. PICK more : more = Taken(r, batch, late)
      OBVIOUS
    <3>3. more # {} => /\ b.state = "QuotesReceived" /\ b.quotes = r.quotes \cup more
                       /\ b.selected = r.selected /\ b.version = r.version + Cardinality(more)
                       /\ b.failure = r.failure
      BY <2>4, <3>2, BatchFields
    <3>4. more = some \cup {q} /\ more # {}
      BY <2>1, <3>2
    <3>5. QED
      BY <3>1, <3>3, <3>4
  <2>7. a.quotes = b.quotes /\ a.selected = b.selected /\ a.failure = b.failure
        /\ a.version = b.version
    <3>1. CASE some = {}
      <4>1. Cardinality(some) = 0
        BY <3>1, FS_EmptySet
      <4>2. QED
        BY <1>4, <2>2, <2>5, <2>6, <3>1, <4>1
    <3>2. CASE some # {}
      BY <1>4, <2>2, <2>5, <2>6, <3>2
    <3>3. QED
      BY <3>1, <3>2
  <2>8. a = b
    BY <2>5, <2>6, <2>7, SameRfq
  <2>9. QED
    BY <1>1, <1>5, <1>6, <2>3, <2>4, <2>8 DEF Receive
<1>7. CASE ~CanReceiveQuote(r, q, late)
  <2>1. Taken(r, batch, late) = some
    BY <1>2, <1>7 DEF Taken
  <2>2. ReceiveAll(r, batch, late) = rest
    <3>1. ReceiveAll(r, batch, late) \in Rfqs
      BY ReceiveAllFacts
    <3>2. CASE some = {}
      BY <1>4, <2>1, <3>2, BatchFields
    <3>3. CASE some # {}
      <4>1. PICK b : b = ReceiveAll(r, batch, late)
        OBVIOUS
      <4>2. /\ b \in Rfqs /\ b.state = rest.state /\ b.quotes = rest.quotes
            /\ b.selected = rest.selected /\ b.version = rest.version
            /\ b.failure = rest.failure
        BY <1>4, <2>1, <3>1, <3>3, <4>1, BatchFields
      <4>3. QED
        BY <1>4, <4>1, <4>2, SameRfq
    <3>4. QED
      BY <3>2, <3>3
  <2>3. QED
    BY <1>1, <1>5, <1>7, <2>2 DEF Receive
<1>8. QED
  BY <1>6, <1>7

Loops(r, late) ==
  LET Loop[batch \in SUBSET Quotes] ==
        IF batch = {} THEN {r}
        ELSE UNION {{IF CanReceiveQuote(o, q, late) THEN ReceiveQuote(o, q) ELSE o :
                       o \in Loop[batch \ {q}]} : q \in batch}
  IN  Loop

LEMMA LoopIsBatch ==
  ASSUME NEW r \in Rfqs, NEW late
  PROVE  \A batch \in SUBSET Quotes : Loops(r, late)[batch] = {ReceiveAll(r, batch, late)}
<1> DEFINE Body(g, batch) == IF batch = {} THEN {r}
                             ELSE UNION {{Receive(o, q, late) : o \in g[batch \ {q}]} : q \in batch}
           All == [batch \in SUBSET Quotes |-> {ReceiveAll(r, batch, late)}]
\* Where g is right about the smaller batches, the body is right about this one.
<1>1. ASSUME NEW g, NEW batch \in SUBSET Quotes,
             \A q \in batch : g[batch \ {q}] = {ReceiveAll(r, batch \ {q}, late)}
      PROVE  Body(g, batch) = {ReceiveAll(r, batch, late)}
  <2>1. CASE batch = {}
    <3>1. Taken(r, batch, late) = {}
      BY <2>1 DEF Taken
    <3>2. ReceiveAll(r, batch, late) = r
      BY <3>1, BatchFields
    <3>3. QED
      BY <2>1, <3>2
  <2>2. CASE batch # {}
    <3>1. PICK e : e = {ReceiveAll(r, batch, late)}
      OBVIOUS
    <3>2. ASSUME NEW q \in batch PROVE {Receive(o, q, late) : o \in g[batch \ {q}]} = e
      <4>1. PICK rest : rest = ReceiveAll(r, batch \ {q}, late)
        OBVIOUS
      <4>2. Receive(rest, q, late) = ReceiveAll(r, batch, late)
        BY <4>1, OneMore
      <4>3. g[batch \ {q}] = {rest}
        BY <1>1, <4>1
      <4>4. {Receive(o, q, late) : o \in {rest}} = {Receive(rest, q, late)}
        OBVIOUS
      <4>5. QED
        BY <3>1, <4>2, <4>3, <4>4
    <3>3. UNION {{Receive(o, q, late) : o \in g[batch \ {q}]} : q \in batch} = e
      <4>1. {{Receive(o, q, late) : o \in g[batch \ {q}]} : q \in batch} = {e}
        BY <2>2, <3>2
      <4>2. QED
        BY <4>1
    <3>4. QED
      BY <2>2, <3>1, <3>3
  <2>3. QED
    BY <2>1, <2>2
<1>2. All = [batch \in SUBSET Quotes |-> Body(All, batch)]
  <2>1. \A batch \in SUBSET Quotes : Body(All, batch) = {ReceiveAll(r, batch, late)}
    <3> TAKE batch \in SUBSET Quotes
    <3>1. \A q \in batch : All[batch \ {q}] = {ReceiveAll(r, batch \ {q}, late)}
      OBVIOUS
    <3> HIDE DEF All, Body
    <3>2. QED
      BY <1>1, <3>1
  <2> HIDE DEF Body
  <2>2. QED
    BY <2>1
<1>3. \E g : g = [batch \in SUBSET Quotes |-> Body(g, batch)]
  <2> HIDE DEF All, Body
  <2>1. QED
    BY <1>2
<1>4. Loops(r, late) = [batch \in SUBSET Quotes |-> Body(Loops(r, late), batch)]
  BY <1>3 DEF Loops, Receive
<1>5. \A batch \in SUBSET Quotes : Loops(r, late)[batch] = Body(Loops(r, late), batch)
  <2> HIDE DEF Body
  <2>1. QED
    BY <1>4
<1> DEFINE Differ == {batch \in SUBSET Quotes :
                        Loops(r, late)[batch] # {ReceiveAll(r, batch, late)}}
<1>6. ASSUME Differ # {} PROVE FALSE
  <2>1. PICK batch \in Differ : \A q \in batch : batch \ {q} \notin Differ
    <3>1. Differ \in SUBSET (SUBSET Quotes)
      OBVIOUS
    <3> HIDE DEF Differ
    <3>2. QED
      BY <1>6, <3>1, SmallestSet, QuotesAssumption
  <2>2. \A q \in batch : Loops(r, late)[batch \ {q}] = {ReceiveAll(r, batch \ {q}, late)}
    BY <2>1
  <2> HIDE DEF Body
  <2>3. Body(Loops(r, late), batch) = {ReceiveAll(r, batch, late)}
    BY <1>1, <2>1, <2>2
  <2>4. QED
    BY <1>5, <2>1, <2>3
<1>7. QED
  BY <1>6

\* Whatever the aggregate and the batch, receive_quote called for each quote, in
\* any order, ends where the batch operator ends.
THEOREM BatchLooped == RfqSpec => []BatchIsTheLoop
<1>1. RfqTypeOK => BatchIsTheLoop
  <2> SUFFICES ASSUME RfqTypeOK PROVE BatchIsTheLoop
    OBVIOUS
  <2>1. \A batch \in SUBSET Quotes : Loops(rfq, lapsed)[batch] = {ReceiveAll(rfq, batch, lapsed)}
    BY LoopIsBatch DEF RfqTypeOK
  <2>2. QED
    BY <2>1 DEF BatchIsTheLoop, Loops
<1>2. QED
  BY <1>1, RfqTypeCorrect, PTL
-----------------------------------------------------------------------------
(***************************************************************************)
(* 3. RfqWorkflow: the type invariant, the invariants of the persisted row and *)
(* the growth of its version; and what RfqServedAlone adds while no two      *)
(* requests overlap.                                                         *)
(***************************************************************************)
LEMMA NoRowFacts == NoRow \in Rfqs /\ NoRow.state = "Created" /\ NoRow.quotes = {}
BY NewRfqFacts DEF NoRow, NewRfq, Rfqs

\* The copies the requests work on are well formed when the row is.
LEMMA CopyTypes ==
  ASSUME NEW r \in Rfqs
  PROVE  /\ CanStartQuoteCollection(r) => StartQuoteCollection(r) \in Rfqs
         /\ CanCancel(r) => Cancel(r) \in Rfqs
         /\ MarkExecuted(r) \in Rfqs
         /\ \A q \in Quotes : StartExecution(SelectQuote(r, q)) \in Rfqs
BY MoveToFacts, SelectQuoteFacts
   DEF StartQuoteCollection, Cancel, MarkExecuted, StartExecution, RfqStates

\* What execute_trade takes to the venue.
LEMMA TakeQuoteFacts ==
  ASSUME NEW r \in Rfqs, NEW q \in Quotes
  PROVE  /\ StartExecution(SelectQuote(r, q)).state = "Executing"
         /\ StartExecution(SelectQuote(r, q)).selected = q
         /\ StartExecution(SelectQuote(r, q)).quotes = r.quotes
<1> DEFINE s == SelectQuote(r, q)
<1>1. s \in Rfqs /\ s.selected = q /\ s.quotes = r.quotes
  BY SelectQuoteFacts
<1>2. "Executing" \in RfqStates
  BY DEF RfqStates
<1> HIDE DEF s
<1>3. /\ MoveTo(s, "Executing").state = "Executing"
      /\ MoveTo(s, "Executing").selected = q
      /\ MoveTo(s, "Executing").quotes = r.quotes
  BY <1>1, <1>2, MoveToFacts
<1>4. QED
  BY <1>3 DEF StartExecution, s

\* The type invariant alone is not inductive: that an execution at the venue
\* is for a known quote follows from what the request holds at that await.
LEMMA TypeStep ==
  ASSUME TypeOK, RequestsInStep, [Next]_vars
  PROVE  TypeOK'
<1> USE DEF TypeOK, Awaits, Requests
<1>1. /\ store.version \in Nat
      /\ \A t \in Tasks : pc[t] \in {"venue", "saveTrade"} => want[t] \in Quotes
  BY DEF Rfqs, RequestsInStep, InStep
<1>2. ASSUME NEW t \in Tasks, CreateLoad(t) PROVE TypeOK'
  BY <1>1, <1>2, NewRfqFacts DEF CreateLoad, Begin
<1>3. ASSUME NEW t \in Tasks, CollectLoad(t) PROVE TypeOK'
  BY <1>1, <1>3, CopyTypes DEF CollectLoad, Begin
<1>4. ASSUME NEW t \in Tasks, CancelLoad(t) PROVE TypeOK'
  BY <1>1, <1>4, CopyTypes DEF CancelLoad, Begin
<1>5. ASSUME NEW t \in Tasks, NEW q \in Quotes, ExecuteLoad(t, q) PROVE TypeOK'
  BY <1>1, <1>5, CopyTypes DEF ExecuteLoad, Begin
<1>6. ASSUME NEW t \in Tasks, NEW o \in Requests \ {"create"}, Refuse(t, o)
      PROVE  TypeOK'
  BY <1>6 DEF Refuse, Return
<1>7. ASSUME NEW t \in Tasks, CollectFinish(t) PROVE TypeOK'
  <2>1. ReceiveAll(loc[t], got[t], expired) \in Rfqs
    BY ReceiveAllFacts
  <2>2. QED
    BY <1>7, <2>1 DEF CollectFinish
<1>8. ASSUME NEW t \in Tasks,
             \/ CollectFails(t) \/ SaveFails(t) \/ PublishPosition(t)
             \/ PublishFails(t) \/ Abort(t)
      PROVE  TypeOK'
  BY <1>8 DEF CollectFails, SaveFails, PublishPosition, PublishFails, Abort, Return
<1>9. ASSUME NEW t \in Tasks, VenueFills(t) PROVE TypeOK'
  BY <1>1, <1>9, CopyTypes DEF VenueFills
<1>10. ASSUME NEW t \in Tasks, VenueErrs(t) PROVE TypeOK'
  BY <1>1, <1>10 DEF VenueErrs, Return
<1>11. ASSUME NEW t \in Tasks, SaveTrade(t) PROVE TypeOK'
  BY <1>1, <1>11 DEF SaveTrade
<1>12. ASSUME NEW t \in Tasks, Save(t) PROVE TypeOK'
  BY <1>12 DEF Save, Return
<1>13. ASSUME NEW t \in Tasks, Publish(t) PROVE TypeOK'
  BY <1>13 DEF Publish, Return
<1>14. ASSUME NEW t \in Tasks, NEW q \in Quotes, VenueQuotes(t, q) PROVE TypeOK'
  BY <1>14 DEF VenueQuotes
<1>15. ASSUME NEW t \in Tasks, NEW q \in Quotes, VenueFillsLate(t, q) PROVE TypeOK'
  BY <1>15 DEF VenueFillsLate, local
<1>16. ASSUME NEW q \in Quotes, QuoteExpires(q) PROVE TypeOK'
  BY <1>16 DEF QuoteExpires, local
<1>17. CASE UNCHANGED vars
  BY <1>17 DEF vars, local
<1>18. QED
  BY <1>2, <1>3, <1>4, <1>5, <1>6, <1>7, <1>8, <1>9, <1>10, <1>11, <1>12,
     <1>13, <1>14, <1>15, <1>16, <1>17 DEF Next, Start, Proceed
-----------------------------------------------------------------------------
\* What a step of request t leaves alone.
Frame(t) ==
  /\ \A u \in Tasks \ {t} : /\ pc'[u] = pc[u] /\ op'[u] = op[u] /\ loc'[u] = loc[u]
                            /\ want'[u] = want[u] /\ reply'[u] = reply[u]
                            /\ u \in announced' => u \in announced
  /\ fills \subseteq fills' /\ trades \subseteq trades' /\ committed \subseteq committed'

\* The other requests stay in step: nothing they rely on is taken back.
LEMMA OthersInStep ==
  ASSUME RequestsInStep, NEW t \in Tasks, Frame(t), InStep(t)'
  PROVE  RequestsInStep'
<1>1. ASSUME NEW u \in Tasks, u # t PROVE InStep(u)'
  BY <1>1 DEF RequestsInStep, InStep, Frame, Consistent
<1>2. QED
  BY <1>1 DEF RequestsInStep

LEMMA StepInStep ==
  ASSUME TypeOK, NoHalfDoneRow, RequestsInStep, [Next]_vars
  PROVE  RequestsInStep'
<1> USE DEF TypeOK
<1>1. store \in Rfqs /\ Consistent(store)
  BY DEF NoHalfDoneRow
<1>2. ASSUME NEW t \in Tasks, CreateLoad(t) PROVE RequestsInStep'
  <2>1. Frame(t)
    BY <1>2 DEF Frame, CreateLoad, Begin
  <2>2. InStep(t)'
    BY <1>2 DEF InStep, CreateLoad, Begin, NewRfq, Consistent
  <2>3. QED
    BY <2>1, <2>2, OthersInStep
<1>3. ASSUME NEW t \in Tasks, CollectLoad(t) PROVE RequestsInStep'
  <2>1. Frame(t)
    BY <1>3 DEF Frame, CollectLoad, Begin
  <2>2. store.state = "Created" /\ store.quotes = {}
    BY <1>1, <1>3 DEF CollectLoad, CanStartQuoteCollection, CanTransition, Transitions,
                      Consistent
  <2>3. /\ StartQuoteCollection(store).state = "QuoteRequesting"
        /\ StartQuoteCollection(store).quotes = {}
    BY <1>1, <2>2, MoveToFacts DEF StartQuoteCollection, RfqStates
  <2>4. InStep(t)'
    BY <1>3, <2>3 DEF InStep, CollectLoad, Begin
  <2>5. QED
    BY <2>1, <2>4, OthersInStep
<1>4. ASSUME NEW t \in Tasks, CancelLoad(t) PROVE RequestsInStep'
  <2>1. Frame(t)
    BY <1>4 DEF Frame, CancelLoad, Begin
  <2>2. Cancel(store).state = "Cancelled"
    BY <1>1, MoveToFacts DEF Cancel, RfqStates
  <2>3. InStep(t)'
    BY <1>4, <2>2 DEF InStep, CancelLoad, Begin, Consistent
  <2>4. QED
    BY <2>1, <2>3, OthersInStep
<1>5. ASSUME NEW t \in Tasks, NEW q \in Quotes, ExecuteLoad(t, q) PROVE RequestsInStep'
  <2>1. Frame(t)
    BY <1>5 DEF Frame, ExecuteLoad, Begin
  <2> DEFINE r == StartExecution(SelectQuote(store, q))
  <2>2. r.state = "Executing" /\ r.selected = q /\ r.quotes = store.quotes
    BY <1>1, TakeQuoteFacts
  <2>3. loc'[t] = r /\ want'[t] = q /\ pc'[t] = "venue" /\ op'[t] = "execute" /\ q \in store.quotes
    BY <1>5 DEF ExecuteLoad, Begin, CanSelectQuote
  <2> HIDE DEF r
  <2>4. InStep(t)'
    BY <2>2, <2>3 DEF InStep
  <2>5. QED
    BY <2>1, <2>4, OthersInStep
<1>6. ASSUME NEW t \in Tasks, NEW o \in Requests \ {"create"}, Refuse(t, o)
      PROVE  RequestsInStep'
  <2>1. Frame(t)
    BY <1>6 DEF Frame, Refuse, Return
  <2>2. InStep(t)'
    BY <1>6 DEF InStep, Refuse, Return
  <2>3. QED
    BY <2>1, <2>2, OthersInStep
<1>7. ASSUME NEW t \in Tasks, CollectFinish(t) PROVE RequestsInStep'
  <2>1. Frame(t)
    BY <1>7 DEF Frame, CollectFinish
  <2> DEFINE r == ReceiveAll(loc[t], got[t], expired)
  <2>2. loc[t].state = "QuoteRequesting" /\ loc[t].quotes = {} /\ op[t] = "collect"
    BY <1>7 DEF CollectFinish, RequestsInStep, InStep
  <2>3. r = loc[t] \/ (r.state = "QuotesReceived" /\ r.quotes # {})
    BY ReceiveAllFacts
  <2>4. loc'[t] = r /\ op'[t] = op[t] /\ pc'[t] = "save"
    BY <1>7 DEF CollectFinish
  <2> HIDE DEF r
  <2>5. InStep(t)'
    BY <2>2, <2>3, <2>4 DEF InStep, Consistent
  <2>6. QED
    BY <2>1, <2>5, OthersInStep
<1>8. ASSUME NEW t \in Tasks,
             \/ CollectFails(t) \/ VenueErrs(t) \/ SaveFails(t) \/ PublishPosition(t)
             \/ PublishFails(t) \/ Abort(t)
      PROVE  RequestsInStep'
  <2>1. Frame(t)
    BY <1>8 DEF Frame, CollectFails, VenueErrs, SaveFails, PublishPosition, PublishFails,
                Abort, Return
  <2>2. pc'[t] = "done"
    BY <1>8 DEF CollectFails, VenueErrs, SaveFails, PublishPosition, PublishFails,
                Abort, Return
  <2>3. InStep(t)'
    BY <2>2 DEF InStep
  <2>4. QED
    BY <2>1, <2>3, OthersInStep
<1>9. ASSUME NEW t \in Tasks, VenueFills(t) PROVE RequestsInStep'
  <2>1. Frame(t)
    BY <1>9 DEF Frame, VenueFills
  <2>2. /\ MarkExecuted(loc[t]).state = "Executed"
        /\ MarkExecuted(loc[t]).selected = loc[t].selected
        /\ MarkExecuted(loc[t]).quotes = loc[t].quotes
    BY MoveToFacts DEF MarkExecuted, RfqStates
  <2>3. InStep(t)'
    BY <1>9, <2>2 DEF VenueFills, RequestsInStep, InStep
  <2>4. QED
    BY <2>1, <2>3, OthersInStep
<1>10. ASSUME NEW t \in Tasks, SaveTrade(t) PROVE RequestsInStep'
  <2>1. Frame(t)
    BY <1>10 DEF Frame, SaveTrade
  <2>2. InStep(t)'
    BY <1>10 DEF SaveTrade, RequestsInStep, InStep, Consistent
  <2>3. QED
    BY <2>1, <2>2, OthersInStep
<1>11. ASSUME NEW t \in Tasks, Save(t) PROVE RequestsInStep'
  <2>1. Frame(t)
    BY <1>11 DEF Frame, Save, Return
  <2>2. InStep(t)'
    BY <1>11 DEF Save, Return, RequestsInStep, InStep
  <2>3. QED
    BY <2>1, <2>2, OthersInStep
<1>12. ASSUME NEW t \in Tasks, Publish(t) PROVE RequestsInStep'
  <2>1. Frame(t)
    BY <1>12 DEF Frame, Publish, Return
  <2>2. InStep(t)'
    BY <1>12 DEF Publish, Return, RequestsInStep, InStep
  <2>3. QED
    BY <2>1, <2>2, OthersInStep
<1>13. ASSUME NEW t \in Tasks, NEW q \in Quotes, VenueQuotes(t, q) PROVE RequestsInStep'
  BY <1>13 DEF VenueQuotes, RequestsInStep, InStep, Consistent
<1>14. ASSUME NEW t \in Tasks, NEW q \in Quotes, VenueFillsLate(t, q) PROVE RequestsInStep'
  BY <1>14 DEF VenueFillsLate, local, RequestsInStep, InStep, Consistent
<1>15. ASSUME NEW q \in Quotes, QuoteExpires(q) PROVE RequestsInStep'
  BY <1>15 DEF QuoteExpires, local, RequestsInStep, InStep, Consistent
<1>16. CASE UNCHANGED vars
  BY <1>16 DEF vars, local, RequestsInStep, InStep, Consistent
<1>17. QED
  BY <1>2, <1>3, <1>4, <1>5, <1>6, <1>7, <1>8, <1>9, <1>10, <1>11, <1>12,
     <1>13, <1>14, <1>15, <1>16 DEF Next, Start, Proceed
-----------------------------------------------------------------------------
\* What each step may do to the shared state.
LEMMA SharedSteps ==
  ASSUME TypeOK, [Next]_vars
  PROVE  /\ fills \subseteq fills' /\ trades \subseteq trades' /\ committed \subseteq committed'
         /\ store' # store => \E t \in Tasks : Save(t)
         /\ trades' # trades => \E t \in Tasks : SaveTrade(t)
         /\ \A t \in announced' \ announced : pc[t] = "publish" /\ op[t] = "execute"
BY DEF TypeOK, Next, Start, Proceed, CreateLoad, CollectLoad, CancelLoad, ExecuteLoad, Refuse,
       CollectFinish, CollectFails, VenueFills, VenueErrs, SaveTrade, Save, SaveFails,
       Publish, PublishPosition, PublishFails, Abort, VenueQuotes, VenueFillsLate,
       QuoteExpires, vars

LEMMA RowStep ==
  ASSUME TypeOK, NoHalfDoneRow, ExecutedIsBacked, RequestsInStep, [Next]_vars
  PROVE  NoHalfDoneRow' /\ ExecutedIsBacked'
<1>1. CASE store' = store
  BY <1>1, SharedSteps DEF NoHalfDoneRow, Consistent, ExecutedIsBacked
<1>2. CASE store' # store
  <2>1. PICK t \in Tasks : Save(t)
    BY <1>2, SharedSteps
  <2>2. store' = loc[t] /\ pc[t] = "save" /\ trades' = trades /\ fills' = fills
    BY <2>1 DEF Save
  <2>3. QED
    BY <2>2 DEF NoHalfDoneRow, Consistent, ExecutedIsBacked, RequestsInStep, InStep
<1>3. QED
  BY <1>1, <1>2

LEMMA TradeStep ==
  ASSUME TypeOK, TradesAreFilled, RequestsInStep, [Next]_vars
  PROVE  TradesAreFilled'
<1>1. CASE trades' = trades
  BY <1>1, SharedSteps DEF TradesAreFilled
<1>2. CASE trades' # trades
  <2>1. PICK t \in Tasks : SaveTrade(t)
    BY <1>2, SharedSteps
  <2>2. <<t, want[t]>> \in fills /\ trades' = trades \cup {<<t, want[t]>>} /\ fills' = fills
    BY <2>1 DEF SaveTrade, RequestsInStep, InStep
  <2>3. QED
    BY <2>2 DEF TradesAreFilled
<1>3. QED
  BY <1>1, <1>2

\* Requests and quote ids are fixed once a request has begun, and an execute
\* request is answered with success by its last step only.
LEMMA ReplySteps ==
  ASSUME TypeOK, [Next]_vars, NEW t \in Tasks
  PROVE  /\ pc[t] # "idle" => op'[t] = op[t] /\ want'[t] = want[t]
         /\ reply'[t] = "ok" /\ reply[t] # "ok" =>
              pc[t] # "idle" /\ (op[t] = "execute" => pc[t] = "position")
<1> USE DEF TypeOK
<1>1. CASE \E u \in Tasks : Start(u)
  BY <1>1 DEF Start, CreateLoad, CollectLoad, CancelLoad, ExecuteLoad, Begin, Refuse, Return
<1>2. CASE \E u \in Tasks : Proceed(u)
  <2>1. PICK u \in Tasks : Proceed(u)
    BY <1>2
  <2>2. op' = op /\ want' = want
    BY <2>1 DEF Proceed, CollectFinish, CollectFails, VenueFills, VenueErrs, SaveTrade,
       Save, SaveFails, Publish, PublishPosition, PublishFails
  <2>3. CASE CollectFinish(u) \/ CollectFails(u) \/ VenueFills(u) \/ VenueErrs(u) \/ SaveTrade(u)
    BY <2>2, <2>3 DEF CollectFinish, CollectFails, VenueFills, VenueErrs, SaveTrade, Return
  <2>4. CASE Save(u) \/ SaveFails(u)
    BY <2>2, <2>4 DEF Save, SaveFails, Return
  <2>5. CASE Publish(u) \/ PublishPosition(u) \/ PublishFails(u)
    BY <2>2, <2>5 DEF Publish, PublishPosition, PublishFails, Return
  <2>6. QED
    BY <2>1, <2>3, <2>4, <2>5 DEF Proceed
<1>3. CASE \E u \in Tasks : Abort(u) \/ \E q \in Quotes : VenueQuotes(u, q)
  BY <1>3 DEF Abort, Return, VenueQuotes
<1>4. CASE \/ \E q \in Quotes : QuoteExpires(q) \/ \E u \in Tasks : VenueFillsLate(u, q)
           \/ UNCHANGED vars
  BY <1>4 DEF QuoteExpires, VenueFillsLate, vars, local
<1>5. QED
  BY <1>1, <1>2, <1>3, <1>4 DEF Next

LEMMA AnnounceStep ==
  ASSUME TypeOK, AnnouncedIsDurable, RequestsInStep, [Next]_vars
  PROVE  AnnouncedIsDurable'
<1> SUFFICES ASSUME NEW t \in Tasks,
                    t \in announced' \/ (op'[t] = "execute" /\ reply'[t] = "ok")
             PROVE  t \in committed' /\ <<t, want'[t]>> \in trades'
  BY DEF AnnouncedIsDurable
<1>1. CASE t \in announced \/ (op[t] = "execute" /\ reply[t] = "ok")
  <2>1. t \in committed /\ <<t, want[t]>> \in trades
    BY <1>1 DEF AnnouncedIsDurable
  <2>2. pc[t] # "idle"
    BY <1>1 DEF RequestsInStep, InStep
  <2>3. want'[t] = want[t]
    BY <2>2, ReplySteps
  <2>4. QED
    BY <2>1, <2>3, SharedSteps
<1>2. CASE ~(t \in announced \/ (op[t] = "execute" /\ reply[t] = "ok"))
  <2>1. pc[t] \in {"publish", "position"} /\ op[t] = "execute"
    BY <1>2, SharedSteps, ReplySteps DEF RequestsInStep, InStep
  <2>2. t \in committed /\ <<t, want[t]>> \in trades
    BY <2>1 DEF RequestsInStep, InStep
  <2>3. want'[t] = want[t]
    BY <2>1, ReplySteps
  <2>4. QED
    BY <2>2, <2>3, SharedSteps
<1>3. QED
  BY <1>1, <1>2

-----------------------------------------------------------------------------
\* The inductive invariant: the properties of the row together with what each
\* request holds at its await.
IInv == /\ TypeOK /\ NoHalfDoneRow /\ ExecutedIsBacked /\ TradesAreFilled
        /\ AnnouncedIsDurable /\ RequestsInStep

LEMMA InitHolds ==
  ASSUME Init
  PROVE  IInv
<1>1. TypeOK
  BY NoRowFacts DEF Init, TypeOK
<1>2. NoHalfDoneRow /\ ExecutedIsBacked /\ TradesAreFilled
  BY NoRowFacts DEF Init, NoHalfDoneRow, Consistent, ExecutedIsBacked, TradesAreFilled
<1>3. AnnouncedIsDurable /\ RequestsInStep
  BY DEF Init, AnnouncedIsDurable, RequestsInStep, InStep
<1>4. QED
  BY <1>1, <1>2, <1>3 DEF IInv

LEMMA StepHolds ==
  ASSUME IInv, [Next]_vars
  PROVE  IInv'
BY TypeStep, StepInStep, RowStep, TradeStep, AnnounceStep DEF IInv

LEMMA Inductive == Spec => []IInv
BY InitHolds, StepHolds, PTL DEF Spec

\* Every variable keeps its type.
THEOREM TypeCorrect == Spec => []TypeOK
BY Inductive, PTL DEF IInv

\* No crash, dropped request or failed save leaves an executed RFQ without the
\* trade and the venue execution behind it.
THEOREM ExecutedBacked == Spec => []ExecutedIsBacked
BY Inductive, PTL DEF IInv

\* No trade is recorded for an execution that did not happen.
THEOREM TradesFilled == Spec => []TradesAreFilled
BY Inductive, PTL DEF IInv

\* A restart finds no RFQ in the middle of a selection or an execution.
THEOREM RowNeverHalfDone == Spec => []NoHalfDoneRow
BY Inductive, PTL DEF IInv

\* Nothing is announced or confirmed to the caller before it is durable.
THEOREM AnnouncedDurable == Spec => []AnnouncedIsDurable
BY Inductive, PTL DEF IInv

\* A versioned repository only moves the row to larger versions.
THEOREM VersionGrows == VersionChecked => (Spec => RowVersionGrows)
<1> SUFFICES ASSUME VersionChecked PROVE Spec => RowVersionGrows
  OBVIOUS
<1>1. TypeOK /\ [Next]_vars => [store' # store => store'.version > store.version]_vars
  <2> SUFFICES ASSUME TypeOK, [Next]_vars, store' # store
               PROVE  store'.version > store.version
    OBVIOUS
  <2>1. PICK t \in Tasks : Save(t)
    BY SharedSteps
  <2>2. store.version \in Nat /\ loc[t].version \in Nat
    BY DEF TypeOK, Rfqs
  <2>3. QED
    BY <2>1, <2>2 DEF Save, MayReplace
<1>2. QED
  BY <1>1, TypeCorrect, PTL DEF Spec, RowVersionGrows

-----------------------------------------------------------------------------
\* Outside a save, a row and a record of executions stay as they were, so only
\* the acting request has to be looked at.
LEMMA OthersFromRow ==
  ASSUME RequestsInStep, ServedAlone, ~overlapped, NEW t \in Tasks, Frame(t),
         store' = store, committed' = committed, committed \subseteq Tasks,
         Unsaved(t)' => FromRow(t)',
         t \in committed => op'[t] = op[t]
  PROVE  /\ \A u \in Tasks : Unsaved(u)' => FromRow(u)'
         /\ (\E u \in committed' : op'[u] = "execute") => store'.state = "Executed"
<1>1. ASSUME NEW u \in Tasks, u # t, Unsaved(u)' PROVE FromRow(u)'
  BY <1>1 DEF Frame, Unsaved, FromRow, ServedAlone
<1>2. \A u \in committed : op'[u] = op[u]
  BY DEF Frame
<1>3. QED
  BY <1>1, <1>2 DEF ServedAlone

\* A request that begins takes the row as it is, and the row is open.
LEMMA StartFromRow ==
  ASSUME IInv, ServedAlone, ~overlapped, NEW t \in Tasks, Start(t)
  PROVE  /\ \A u \in Tasks : Unsaved(u)' => FromRow(u)'
         /\ (\E u \in committed' : op'[u] = "execute") => store'.state = "Executed"
<1> USE DEF IInv, TypeOK
<1>1. store \in Rfqs /\ Consistent(store)
  BY DEF NoHalfDoneRow
<1>2. CASE CreateLoad(t)
  <2>1. store = NoRow
    BY <1>2 DEF CreateLoad, ServedAlone
  <2>2. Frame(t) /\ FromRow(t)'
    BY <1>2, <2>1, NoRowFacts DEF Requests, Frame, FromRow, CreateLoad, Begin
  <2>3. QED
    BY <1>2, <2>2, OthersFromRow DEF CreateLoad, Begin, ServedAlone
<1>3. CASE CollectLoad(t)
  <2>1. store.state = "Created" /\ store.quotes = {}
    BY <1>1, <1>3 DEF CollectLoad, CanStartQuoteCollection, CanTransition, Transitions,
                      Consistent
  <2>2. /\ StartQuoteCollection(store).selected = store.selected
        /\ StartQuoteCollection(store).state = "QuoteRequesting"
    BY <1>1, MoveToFacts DEF StartQuoteCollection, RfqStates
  <2>3. Frame(t) /\ FromRow(t)'
    BY <1>3, <2>1, <2>2 DEF Requests, Frame, FromRow, CollectLoad, Begin
  <2>4. QED
    BY <1>3, <2>3, OthersFromRow DEF CollectLoad, Begin, ServedAlone
<1>4. CASE CancelLoad(t)
  <2>1. store.state \notin {"Executed", "Cancelled"}
    BY <1>4, TransitionEnds DEF CancelLoad, CanCancel, TerminalStates
  <2>2. /\ Cancel(store).state = "Cancelled" /\ Cancel(store).quotes = store.quotes
        /\ Cancel(store).selected = store.selected
    BY <1>1, MoveToFacts DEF Cancel, RfqStates
  <2>3. Frame(t) /\ FromRow(t)'
    BY <1>4, <2>1, <2>2 DEF Requests, Frame, FromRow, CancelLoad, Begin
  <2>4. QED
    BY <1>4, <2>3, OthersFromRow DEF CancelLoad, Begin, ServedAlone
<1>5. CASE \E q \in Quotes : ExecuteLoad(t, q)
  <2>1. PICK q \in Quotes : ExecuteLoad(t, q)
    BY <1>5
  <2> DEFINE r == StartExecution(SelectQuote(store, q))
  <2>2. store.state \notin {"Executed", "Cancelled"} /\ q \in store.quotes
    BY <2>1, TransitionEnds DEF ExecuteLoad, CanSelectQuote, TerminalStates
  <2>3. r.quotes = store.quotes
    BY <1>1, TakeQuoteFacts
  <2>4. loc'[t] = r /\ want'[t] = q /\ op'[t] = "execute" /\ store' = store
    BY <2>1 DEF ExecuteLoad, Begin
  <2> HIDE DEF r
  <2>5. FromRow(t)'
    BY <2>2, <2>3, <2>4 DEF FromRow, Requests
  <2>6. Frame(t)
    BY <2>1 DEF Frame, ExecuteLoad, Begin
  <2>7. QED
    BY <2>1, <2>5, <2>6, OthersFromRow DEF ExecuteLoad, Begin, ServedAlone
<1>6. CASE \E o \in Requests \ {"create"} : Refuse(t, o)
  <2>1. Frame(t) /\ ~Unsaved(t)'
    BY <1>6 DEF Frame, Unsaved, Refuse, Return
  <2>2. QED
    BY <1>6, <2>1, OthersFromRow DEF Refuse, Return, ServedAlone
<1>7. QED
  BY <1>2, <1>3, <1>4, <1>5, <1>6 DEF Start

\* Until it saves, a request keeps what it took from the row.
LEMMA AwaitFromRow ==
  ASSUME IInv, ServedAlone, ~overlapped, NEW t \in Tasks,
         \/ Proceed(t) \/ Abort(t)
         \/ \E q \in Quotes : VenueQuotes(t, q),
         ~Save(t)
  PROVE  /\ \A u \in Tasks : Unsaved(u)' => FromRow(u)'
         /\ (\E u \in committed' : op'[u] = "execute") => store'.state = "Executed"
<1> USE DEF IInv, TypeOK
<1>1. /\ op' = op /\ want' = want /\ store' = store /\ committed' = committed
  BY DEF Proceed, CollectFinish, CollectFails, VenueFills, VenueErrs, SaveTrade, SaveFails,
         Publish, PublishPosition, PublishFails, Abort, VenueQuotes, Return
<1>2. CASE CollectFinish(t)
  <2>1. /\ ReceiveAll(loc[t], got[t], expired).selected = loc[t].selected
        /\ \/ ReceiveAll(loc[t], got[t], expired) = loc[t]
           \/ ReceiveAll(loc[t], got[t], expired).state = "QuotesReceived"
    BY ReceiveAllFacts
  <2>2. op[t] = "collect" /\ FromRow(t)
    BY <1>2 DEF CollectFinish, RequestsInStep, InStep, ServedAlone, Unsaved
  <2>3. loc'[t] = ReceiveAll(loc[t], got[t], expired)
    BY <1>2 DEF CollectFinish
  <2>4. FromRow(t)'
    BY <1>1, <2>1, <2>2, <2>3 DEF FromRow
  <2>5. Frame(t)
    BY <1>2 DEF Frame, CollectFinish
  <2>6. QED
    BY <1>1, <2>4, <2>5, OthersFromRow
<1>3. CASE VenueFills(t)
  <2>1. MarkExecuted(loc[t]).quotes = loc[t].quotes
    BY MoveToFacts DEF MarkExecuted, RfqStates
  <2>2. op[t] = "execute" /\ FromRow(t)
    BY <1>3 DEF VenueFills, RequestsInStep, InStep, ServedAlone, Unsaved
  <2>3. loc'[t] = MarkExecuted(loc[t])
    BY <1>3 DEF VenueFills
  <2>4. FromRow(t)'
    BY <1>1, <2>1, <2>2, <2>3 DEF FromRow
  <2>5. Frame(t)
    BY <1>3 DEF Frame, VenueFills
  <2>6. QED
    BY <1>1, <2>4, <2>5, OthersFromRow
<1>4. CASE SaveTrade(t) \/ (\E q \in Quotes : VenueQuotes(t, q))
  <2>1. loc' = loc /\ Unsaved(t)
    BY <1>4 DEF SaveTrade, VenueQuotes, Unsaved
  <2>2. FromRow(t)'
    BY <1>1, <2>1 DEF FromRow, ServedAlone
  <2>3. Frame(t)
    BY <1>4 DEF Frame, SaveTrade, VenueQuotes
  <2>4. QED
    BY <1>1, <2>2, <2>3, OthersFromRow
<1>5. CASE \/ CollectFails(t) \/ VenueErrs(t) \/ SaveFails(t) \/ Publish(t)
           \/ PublishPosition(t) \/ PublishFails(t) \/ Abort(t)
  <2>1. Frame(t)
    BY <1>5 DEF Frame, CollectFails, VenueErrs, SaveFails, Publish, PublishPosition,
                PublishFails, Abort, Return
  <2>2. ~Unsaved(t)'
    BY <1>5 DEF Unsaved, CollectFails, VenueErrs, SaveFails, Publish, PublishPosition,
                PublishFails, Abort, Return
  <2>3. QED
    BY <1>1, <2>1, <2>2, OthersFromRow
<1>6. QED
  BY <1>2, <1>3, <1>4, <1>5 DEF Proceed

\* The save of a request served alone replaces the row it was made from: it
\* was open, so no execution had been recorded, and no other request waits.
LEMMA SaveAlone ==
  ASSUME IInv, ServedAlone, ~overlapped, NEW t \in Tasks, Save(t)
  PROVE  /\ \A u \in Tasks : ~Unsaved(u)'
         /\ (\E u \in committed' : op'[u] = "execute") => store'.state = "Executed"
         /\ \A u \in committed : op[u] # "execute"
<1> USE DEF IInv, TypeOK
<1>1. pc[t] = "save" /\ FromRow(t) /\ t \in InFlight
  BY DEF Save, ServedAlone, Unsaved, InFlight, Awaits
<1>2. \A u \in committed : op[u] # "execute"
  BY <1>1 DEF ServedAlone, FromRow
<1>3. ASSUME NEW u \in Tasks PROVE ~Unsaved(u)'
  <2>1. CASE u = t
    BY <2>1 DEF Save, Return, Unsaved
  <2>2. CASE u # t
    <3>1. u \notin InFlight /\ pc'[u] = pc[u]
      BY <1>1, <2>2 DEF ServedAlone, Save, Return
    <3>2. QED
      BY <3>1 DEF InFlight, Awaits, Unsaved
  <2>3. QED
    BY <2>1, <2>2
<1>4. op' = op /\ committed' = committed \cup {t} /\ store' = loc[t]
  BY DEF Save
<1>5. op[t] = "execute" => loc[t].state = "Executed"
  BY <1>1 DEF RequestsInStep, InStep
<1>6. QED
  BY <1>2, <1>3, <1>4, <1>5

\* Until a create request has begun there is no row, and nothing is in flight.
LEMMA CreateFirst ==
  ASSUME IInv, ServedAlone, [Next]_vars
  PROVE  /\ \A t \in committed' : pc'[t] # "idle"
         /\ (\A t \in Tasks : op'[t] # "create") =>
              store' = NoRow /\ \A t \in Tasks : pc'[t] \in {"idle", "done"}
<1> USE DEF IInv, TypeOK
<1>1. ~Stored <=> store.version = 0
  BY DEF Stored, Rfqs
<1>2. NoRow.version = 0
  BY DEF NoRow, NewRfq
<1>3. CASE \E t \in Tasks : Start(t)
  <2>1. PICK t \in Tasks : Start(t)
    BY <1>3
  <2>2. store' = store /\ committed' = committed /\ pc' = [pc EXCEPT ![t] = pc'[t]]
        /\ op' = [op EXCEPT ![t] = op'[t]] /\ pc'[t] # "idle" /\ pc[t] = "idle"
    BY <2>1 DEF Start, CreateLoad, CollectLoad, CancelLoad, ExecuteLoad, Begin, Refuse, Return
  <2>3. op'[t] = "create" \/ pc'[t] = "done" \/ Stored
    BY <2>1 DEF Start, CreateLoad, CollectLoad, CancelLoad, ExecuteLoad, Begin, Refuse, Return
  <2>4. op[t] # "create"
    BY <2>2 DEF RequestsInStep, InStep
  <2>5. QED
    BY <1>1, <1>2, <2>2, <2>3, <2>4 DEF ServedAlone
<1>4. CASE \E t \in Tasks : Proceed(t) \/ Abort(t) \/ (\E q \in Quotes : VenueQuotes(t, q))
  <2>1. PICK t \in Tasks : Proceed(t) \/ Abort(t) \/ (\E q \in Quotes : VenueQuotes(t, q))
    BY <1>4
  <2>2. op' = op /\ pc[t] \in Awaits /\ pc'[t] # "idle"
    BY <2>1 DEF Proceed, CollectFinish, CollectFails, VenueFills, VenueErrs, SaveTrade, Save,
                SaveFails, Publish, PublishPosition, PublishFails, Abort, VenueQuotes, Return,
                Awaits
  <2>3. committed' \subseteq committed \cup {t} /\ \A u \in Tasks \ {t} : pc'[u] = pc[u]
    BY <2>1 DEF Proceed, CollectFinish, CollectFails, VenueFills, VenueErrs, SaveTrade, Save,
                SaveFails, Publish, PublishPosition, PublishFails, Abort, VenueQuotes, Return
  <2>4. QED
    BY <2>2, <2>3 DEF ServedAlone, Awaits
<1>5. CASE \/ \E q \in Quotes : QuoteExpires(q) \/ \E t \in Tasks : VenueFillsLate(t, q)
           \/ UNCHANGED vars
  BY <1>5 DEF ServedAlone, QuoteExpires, VenueFillsLate, vars, local
<1>6. QED
  BY <1>3, <1>4, <1>5 DEF Next

LEMMA HistorySteps ==
  ASSUME [HistoryNext]_hvars
  PROVE  [Next]_vars /\ (~overlapped' => ~overlapped)
<1>1. [Next]_vars
  BY DEF HistoryNext, hvars
<1>2. ~overlapped' => ~overlapped
  BY DEF HistoryNext, hvars
<1>3. QED
  BY <1>1, <1>2

\* A venue is called by an execute request that has just loaded the row.
LEMMA VenueEntry ==
  ASSUME TypeOK, [Next]_vars, NEW t \in Tasks, pc'[t] = "venue", pc[t] # "venue"
  PROVE  \E q \in Quotes : ExecuteLoad(t, q)
<1> USE DEF TypeOK
<1>1. CASE \E u \in Tasks : Start(u)
  BY <1>1 DEF Start, CreateLoad, CollectLoad, CancelLoad, ExecuteLoad, Begin, Refuse, Return
<1>2. CASE \E u \in Tasks : Proceed(u) \/ Abort(u) \/ \E q \in Quotes : VenueQuotes(u, q)
  BY <1>2 DEF Proceed, CollectFinish, CollectFails, VenueFills, VenueErrs, SaveTrade, Save,
     SaveFails, Publish, PublishPosition, PublishFails, Abort, Return, VenueQuotes
<1>3. CASE \/ \E q \in Quotes : QuoteExpires(q) \/ \E u \in Tasks : VenueFillsLate(u, q)
           \/ UNCHANGED vars
  BY <1>3 DEF QuoteExpires, VenueFillsLate, vars, local
<1>4. QED
  BY <1>1, <1>2, <1>3 DEF Next

\* How a request leaves the save of its row, and that it does not come back.
LEMMA RequestLeaves ==
  ASSUME TypeOK, [Next]_vars, NEW t \in Tasks, pc[t] # "idle"
  PROVE  /\ pc'[t] # "idle"
         /\ pc[t] = "done" => pc'[t] = "done" /\ reply'[t] = reply[t]
         /\ pc[t] = "save" => \/ pc'[t] = "save" \/ t \in committed'
                              \/ (pc'[t] = "done" /\ reply'[t] \in {"err", "lost"})
<1> USE DEF TypeOK
<1>1. CASE \E u \in Tasks : Start(u)
  BY <1>1 DEF Start, CreateLoad, CollectLoad, CancelLoad, ExecuteLoad, Begin, Refuse, Return
<1>2. CASE \E u \in Tasks : Proceed(u)
  <2>1. PICK u \in Tasks : Proceed(u)
    BY <1>2
  <2>2. CASE CollectFinish(u) \/ CollectFails(u) \/ VenueFills(u) \/ VenueErrs(u) \/ SaveTrade(u)
    BY <2>2 DEF CollectFinish, CollectFails, VenueFills, VenueErrs, SaveTrade, Return
  <2>3. CASE Save(u) \/ SaveFails(u)
    BY <2>3 DEF Save, SaveFails, Return
  <2>4. CASE Publish(u) \/ PublishPosition(u) \/ PublishFails(u)
    BY <2>4 DEF Publish, PublishPosition, PublishFails, Return
  <2>5. QED
    BY <2>1, <2>2, <2>3, <2>4 DEF Proceed
<1>3. CASE \E u \in Tasks : Abort(u) \/ \E q \in Quotes : VenueQuotes(u, q)
  BY <1>3 DEF Abort, Return, VenueQuotes, Awaits
<1>4. CASE \/ \E q \in Quotes : QuoteExpires(q) \/ \E u \in Tasks : VenueFillsLate(u, q)
           \/ UNCHANGED vars
  BY <1>4 DEF QuoteExpires, VenueFillsLate, vars, local
<1>5. QED
  BY <1>1, <1>2, <1>3, <1>4 DEF Next

LEMMA AloneStep ==
  ASSUME IInv, ServedAlone, [HistoryNext]_hvars
  PROVE  ServedAlone'
<1>1. [Next]_vars
  BY HistorySteps
<1>2. ASSUME ~overlapped'
      PROVE  /\ \A t, u \in InFlight' : t = u
             /\ \A t \in Tasks : Unsaved(t)' => FromRow(t)'
             /\ (\E t \in committed' : op'[t] = "execute") => store'.state = "Executed"
  <2>1. ~overlapped
    BY <1>2, HistorySteps
  <2>2. \A t, u \in InFlight' : t = u
    BY <1>2, <2>1 DEF HistoryNext, hvars, vars, local, InFlight, ServedAlone
  <2>3. CASE \E t \in Tasks : Start(t)
    BY <2>1, <2>2, <2>3, StartFromRow
  <2>4. CASE \E t \in Tasks : Save(t)
    BY <2>1, <2>2, <2>4, SaveAlone
  <2>5. CASE /\ ~\E t \in Tasks : Save(t)
             /\ \E t \in Tasks : \/ Proceed(t) \/ Abort(t)
                                 \/ \E q \in Quotes : VenueQuotes(t, q)
    BY <2>1, <2>2, <2>5, AwaitFromRow
  <2>6. CASE \/ \E q \in Quotes : QuoteExpires(q) \/ \E t \in Tasks : VenueFillsLate(t, q)
             \/ UNCHANGED vars
    BY <2>1, <2>2, <2>6 DEF QuoteExpires, VenueFillsLate, vars, local, ServedAlone, Unsaved,
                            FromRow
  <2>7. QED
    BY <1>1, <2>3, <2>4, <2>5, <2>6 DEF Next
<1>3. QED
  BY <1>1, <1>2, CreateFirst DEF ServedAlone

\* A saved trade stays accounted for: the request that saved it leaves its row
\* save with the row, with an error, or dropped, and changes no more.
LEMMA AccountedStep ==
  ASSUME IInv, ServedAlone, TradesAccounted, [Next]_vars
  PROVE  TradesAccounted'
<1> USE DEF IInv, TypeOK
<1> SUFFICES ASSUME NEW t \in Tasks, NEW q \in Quotes, <<t, q>> \in trades'
             PROVE  /\ op'[t] = "execute" /\ pc'[t] # "idle"
                    /\ \/ t \in committed' \/ pc'[t] = "save"
                       \/ (pc'[t] = "done" /\ reply'[t] \in {"err", "lost"})
  BY DEF TradesAccounted
<1>1. CASE <<t, q>> \notin trades
  <2>1. PICK u \in Tasks : SaveTrade(u)
    BY <1>1, SharedSteps
  <2>2. u = t /\ pc'[t] = "save" /\ op'[t] = op[t] /\ pc[t] = "saveTrade"
    BY <1>1, <2>1 DEF SaveTrade
  <2>3. QED
    BY <2>2 DEF RequestsInStep, InStep
<1>2. CASE <<t, q>> \in trades
  <2>1. /\ op[t] = "execute" /\ pc[t] # "idle"
        /\ \/ t \in committed \/ pc[t] = "save"
           \/ (pc[t] = "done" /\ reply[t] \in {"err", "lost"})
    BY <1>2 DEF TradesAccounted
  <2>2. op'[t] = "execute" /\ committed \subseteq committed'
    BY <2>1, ReplySteps, SharedSteps
  <2>3. /\ pc'[t] # "idle"
        /\ pc[t] = "done" => pc'[t] = "done" /\ reply'[t] = reply[t]
        /\ pc[t] = "save" => \/ pc'[t] = "save" \/ t \in committed'
                             \/ (pc'[t] = "done" /\ reply'[t] \in {"err", "lost"})
    BY <2>1, RequestLeaves
  <2>4. QED
    BY <2>1, <2>2, <2>3
<1>3. QED
  BY <1>1, <1>2

\* Without overlap a trade is saved, or a venue called, while the row is open:
\* the request has the row to itself since it loaded it.
LEMMA RetryStep ==
  ASSUME IInv, ServedAlone, TradesAccounted, [HistoryNext]_hvars, ~overlapped'
  PROVE  /\ store.state \in {"Executed", "Cancelled"} =>
              /\ trades' = trades
              /\ \A t \in Tasks : pc'[t] = "venue" => pc[t] = "venue"
         /\ trades' # trades =>
              \A t \in Tasks, q \in Quotes : <<t, q>> \in trades =>
                t \notin committed /\ reply[t] \in {"err", "lost"}
<1>1. ~overlapped /\ [Next]_vars
  BY HistorySteps
<1>2. ASSUME NEW u \in Tasks, SaveTrade(u)
      PROVE  /\ store.state \notin {"Executed", "Cancelled"}
             /\ u \in InFlight /\ pc[u] = "saveTrade"
  BY <1>1, <1>2 DEF SaveTrade, ServedAlone, Unsaved, FromRow, InFlight, Awaits
<1>3. ASSUME store.state \in {"Executed", "Cancelled"} PROVE trades' = trades
  BY <1>1, <1>2, <1>3, SharedSteps DEF IInv
<1>4. ASSUME NEW t \in Tasks, pc'[t] = "venue", pc[t] # "venue"
      PROVE  store.state \notin {"Executed", "Cancelled"}
  <2>1. PICK q \in Quotes : ExecuteLoad(t, q)
    BY <1>1, <1>4, VenueEntry DEF IInv
  <2>2. QED
    BY <2>1, TransitionEnds DEF ExecuteLoad, CanSelectQuote, TerminalStates
<1>5. ASSUME trades' # trades, NEW t \in Tasks, NEW q \in Quotes, <<t, q>> \in trades
      PROVE  t \notin committed /\ reply[t] \in {"err", "lost"}
  <2>1. PICK u \in Tasks : SaveTrade(u)
    BY <1>1, <1>5, SharedSteps DEF IInv
  <2>2. /\ op[t] = "execute"
        /\ t \in committed \/ pc[t] = "save" \/ reply[t] \in {"err", "lost"}
    BY <1>5 DEF TradesAccounted
  <2>3. t \notin committed
    BY <1>1, <1>2, <2>1, <2>2 DEF ServedAlone
  <2>4. pc[t] # "save"
    BY <1>1, <1>2, <2>1 DEF ServedAlone, InFlight, Awaits
  <2>5. QED
    BY <2>2, <2>3, <2>4
<1>6. QED
  BY <1>3, <1>4, <1>5

LEMMA AloneInductive == HistorySpec => [](IInv /\ ServedAlone /\ TradesAccounted)
<1>1. HistoryInit => IInv /\ ServedAlone /\ TradesAccounted
  <2> SUFFICES ASSUME HistoryInit PROVE IInv /\ ServedAlone /\ TradesAccounted
    OBVIOUS
  <2>1. IInv
    BY InitHolds DEF HistoryInit
  <2>2. ServedAlone /\ TradesAccounted
    BY DEF HistoryInit, Init, ServedAlone, TradesAccounted, InFlight, Awaits, Unsaved
  <2>3. QED
    BY <2>1, <2>2
<1>2. IInv /\ ServedAlone /\ TradesAccounted /\ [HistoryNext]_hvars
        => IInv' /\ ServedAlone' /\ TradesAccounted'
  BY HistorySteps, StepHolds, AloneStep, AccountedStep
<1>3. QED
  BY <1>1, <1>2, PTL DEF HistorySpec

\* As long as no two requests overlap, an execution is repeated only after one
\* that left no row and told no success, and never once the row is closed.
THEOREM RetriesEnd == HistorySpec => RetriesEndWithTheRow
<1>1. IInv /\ ServedAlone /\ TradesAccounted /\ [HistoryNext]_hvars =>
        [~overlapped' =>
           /\ store.state \in {"Executed", "Cancelled"} =>
                /\ trades' = trades
                /\ \A t \in Tasks : pc'[t] = "venue" => pc[t] = "venue"
           /\ trades' # trades =>
                \A t \in Tasks, q \in Quotes : <<t, q>> \in trades =>
                  t \notin committed /\ reply[t] \in {"err", "lost"}]_hvars
  BY RetryStep
<1>2. QED
  BY <1>1, AloneInductive, PTL DEF HistorySpec, RetriesEndWithTheRow

\* As long as no two requests overlap, the row implements the contract of the
\* RFQ: the only step that writes it is the save of a copy made from it.
THEOREM RowContract == HistorySpec => RowKeepsContract
<1>1. HistoryInit => Contract!Init
  BY NoRowFacts DEF HistoryInit, Init, Contract!Init, Status, NoRow, NewRfq
<1>2. IInv /\ ServedAlone /\ [HistoryNext]_hvars
        => [overlapped' \/ Contract!Next]_<<Status, store.quotes, store.selected>>
  <2> SUFFICES ASSUME IInv, ServedAlone, [HistoryNext]_hvars, ~overlapped', store' # store
               PROVE  Contract!Next \/ UNCHANGED <<Status, store.quotes, store.selected>>
    BY DEF Status
  <2>1. ~overlapped /\ [Next]_vars
    BY HistorySteps
  <2>2. PICK t \in Tasks : Save(t)
    BY <2>1, SharedSteps DEF IInv
  <2>3. /\ store' = loc[t] /\ FromRow(t) /\ op[t] \in Requests
        /\ store \in Rfqs /\ loc[t] \in Rfqs
    BY <2>1, <2>2 DEF Save, ServedAlone, Unsaved, IInv, TypeOK, FromRow
  <2>4. Status = "open"
    BY <2>3 DEF FromRow, Status
  <2>5. CASE op[t] = "create"
    BY <2>3, <2>5 DEF FromRow, Status, NoRow, NewRfq
  <2>6. CASE op[t] = "collect"
    <3>1. /\ loc[t].state \notin {"Executed", "Cancelled"} /\ store.quotes = {}
          /\ loc[t].selected = store.selected /\ loc[t].quotes \in SUBSET Quotes
      BY <2>3, <2>6 DEF FromRow, Rfqs
    <3>2. store'.quotes = store.quotes \cup loc[t].quotes
      BY <2>3, <3>1
    <3>3. Contract!Offer
      BY <2>3, <2>4, <3>1, <3>2 DEF Contract!Offer, Status
    <3>4. QED
      BY <3>3 DEF Contract!Next
  <2>7. CASE op[t] = "execute"
    <3>1. /\ loc[t].state = "Executed" /\ loc[t].selected = want[t]
          /\ loc[t].quotes = store.quotes /\ want[t] \in store.quotes
      BY <2>2, <2>3, <2>7 DEF Save, IInv, RequestsInStep, InStep, FromRow
    <3>2. Contract!Settle(want[t]) /\ want[t] \in Quotes
      BY <2>3, <2>4, <3>1 DEF Contract!Settle, Status, Rfqs
    <3>3. QED
      BY <3>2 DEF Contract!Next
  <2>8. CASE op[t] = "cancel"
    BY <2>3, <2>4, <2>8 DEF FromRow, Status, Contract!Next, Contract!Close
  <2>9. QED
    BY <2>3, <2>5, <2>6, <2>7, <2>8 DEF Requests
<1>3. QED
  BY <1>1, <1>2, AloneInductive, PTL DEF HistorySpec, RowKeepsContract
=============================================================================
