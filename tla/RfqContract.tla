---------------------------- MODULE RfqContract ----------------------------
(***************************************************************************)
(* What an RFQ promises the client, whatever its states are called: quotes   *)
(* are collected while it is open, at most one of them becomes the deal,     *)
(* the deal is one of the quotes collected, and an RFQ that was executed or  *)
(* closed stays as it is.  RfqLifecycle and the persisted RFQ of             *)
(* RfqWorkflow are checked to implement it.                                  *)
(***************************************************************************)
CONSTANTS Quotes, NoQuote

VARIABLES status,   \* "open", "committed", "executed" or "closed"
          offers,   \* quotes collected
          deal      \* the quote the client took

cvars == <<status, offers, deal>>

Init == status = "open" /\ offers = {} /\ deal = NoQuote

\* A batch of quotes arrives.
Offer == /\ status = "open"
         /\ \E batch \in SUBSET Quotes : offers' = offers \cup batch
         /\ UNCHANGED <<status, deal>>

\* The client takes a quote.
Commit(q) == /\ status = "open" /\ q \in offers
             /\ status' = "committed" /\ deal' = q
             /\ UNCHANGED offers

\* The deal is executed; a client of the store sees Commit and Settle at once.
Settle(q) == /\ status = "open" \/ (status = "committed" /\ deal = q)
             /\ q \in offers
             /\ status' = "executed" /\ deal' = q
             /\ UNCHANGED offers

\* Cancelled, expired or failed.
Close == /\ status \in {"open", "committed"}
         /\ status' = "closed"
         /\ UNCHANGED <<offers, deal>>

Next == Offer \/ Close \/ \E q \in Quotes : Commit(q) \/ Settle(q)

Spec == Init /\ [][Next]_cvars
=============================================================================
