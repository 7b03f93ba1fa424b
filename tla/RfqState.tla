------------------------------ MODULE RfqState ------------------------------
(***************************************************************************)
(* The states of a request for quote and the transitions between them     *)
(* (src/domain/value_objects/rfq_state.rs).  The Rust code states the      *)
(* relation twice, as the predicate can_transition_to and as the list      *)
(* valid_transitions; the pairs are the same.                              *)
(***************************************************************************)

RfqStates == {"Created", "QuoteRequesting", "QuotesReceived", "Negotiating",
              "ClientSelecting", "Executing",
              "Executed", "Failed", "Cancelled", "Expired"}

\* RfqState::is_terminal
TerminalStates == {"Executed", "Failed", "Cancelled", "Expired"}

\* RfqState::can_transition_to, as the set of pairs its matches! accepts.
Transitions ==
       {"Created"} \X {"QuoteRequesting", "Cancelled", "Expired"}
  \cup {"QuoteRequesting"} \X {"QuotesReceived", "Failed", "Cancelled", "Expired"}
  \cup {"QuotesReceived"} \X {"ClientSelecting", "Negotiating",
                              "Failed", "Cancelled", "Expired"}
  \cup {"Negotiating"} \X {"ClientSelecting", "Failed", "Cancelled", "Expired"}
  \cup {"ClientSelecting"} \X {"Executing", "Failed", "Cancelled", "Expired"}
  \cup {"Executing"} \X {"Executed", "Failed"}

CanTransition(from, to) == <<from, to>> \in Transitions
=============================================================================
