----------------------------- MODULE BlockTrade -----------------------------
(***************************************************************************)
(* The BlockTrade aggregate (src/domain/entities/block_trade.rs): a trade     *)
(* that two counterparties agreed on elsewhere, to be validated, confirmed by *)
(* both, and executed off the book.  Its calls as operators: Can... is the    *)
(* guard, the other the result.  Terms, reporting tier, reasons and pending   *)
(* events are left out.                                                      *)
(***************************************************************************)
EXTENDS Naturals

Roles == {"buyer", "seller"}

BlockTradeStates == {"Submitted", "Validating", "Approved", "Rejected",
                     "Executing", "Executed", "Failed"}

TerminalStates == {"Executed", "Failed", "Rejected"}

\* can_transition_to
Transitions == {<<"Submitted", "Validating">>,
                <<"Validating", "Approved">>,  <<"Validating", "Rejected">>,
                <<"Approved", "Executing">>,   <<"Approved", "Rejected">>,
                <<"Executing", "Executed">>,   <<"Executing", "Failed">>}

BlockTrades == [state : BlockTradeStates,
                validation : {"none", "passed", "failed"},
                confirmed : SUBSET Roles]

NewTrade == [state |-> "Submitted", validation |-> "none", confirmed |-> {}]

CanMoveTo(b, s) == <<b.state, s>> \in Transitions
MoveTo(b, s)    == [b EXCEPT !.state = s]

CanRecordValidation(b) == b.state = "Validating"

\* A failed validation rejects the trade; a passed one may be repeated.
RecordValidation(b, result) ==
  [b EXCEPT !.validation = result,
            !.state = IF result = "failed" THEN "Rejected" ELSE @]

CanConfirm(b) == b.state = "Validating" /\ b.validation = "passed"

\* Mutant: one confirmation is enough.
ConfirmAlone(b, role) ==
  [b EXCEPT !.confirmed = @ \cup {role}, !.state = "Approved"]

Confirm(b, role) ==
  [b EXCEPT !.confirmed = @ \cup {role},
            !.state = IF b.confirmed \cup {role} = Roles THEN "Approved" ELSE @]
=============================================================================
