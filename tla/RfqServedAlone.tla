---------------------------- MODULE RfqServedAlone ----------------------------
(***************************************************************************)
(* What RfqWorkflow promises as long as the requests for one RFQ are served  *)
(* one at a time, whatever fails, is dropped or is retried between them.  The *)
(* code does not serialise them (workflow_two_executions shows what follows), *)
(* so the promises end with the first overlap.                               *)
(***************************************************************************)
EXTENDS RfqWorkflow

VARIABLE overlapped   \* two requests have been in flight at once (history)

hvars == <<vars, overlapped>>

HistoryInit == Init /\ overlapped = FALSE
HistoryNext == Next /\ overlapped' = (overlapped \/ \E t, u \in InFlight' : t # u)
HistorySpec == HistoryInit /\ [][HistoryNext]_hvars
-----------------------------------------------------------------------------
(***************************************************************************)
(* When an execution may be repeated.  A failed save, a lost answer or a      *)
(* dropped request leaves a fill or a trade without a row, and the retry      *)
(* fills and records again; but that ends with the row.  Once it says         *)
(* Executed or Cancelled no request goes to a venue and no trade is recorded; *)
(* until then a further trade is recorded only beside trades whose requests   *)
(* ended without their row and without telling the caller of a success.       *)
(***************************************************************************)
RetriesEndWithTheRow ==
  [][~overlapped' =>
       /\ store.state \in {"Executed", "Cancelled"} =>
            /\ trades' = trades
            /\ \A t \in Tasks : pc'[t] = "venue" => pc[t] = "venue"
       /\ trades' # trades =>
            \A t \in Tasks, q \in Quotes : <<t, q>> \in trades =>
              t \notin committed /\ reply[t] \in {"err", "lost"}]_hvars

Status == IF store.state = "Executed" THEN "executed"
          ELSE IF store.state = "Cancelled" THEN "closed" ELSE "open"

Contract == INSTANCE RfqContract
              WITH status <- Status, offers <- store.quotes, deal <- store.selected

(***************************************************************************)
(* The row seen by its readers keeps the contract of the RFQ: its deal is an  *)
(* offer, an executed or cancelled row is never written again, although the   *)
(* save itself does not look at the state it replaces.                       *)
(***************************************************************************)
RowKeepsContract ==
  Contract!Init /\ [][overlapped' \/ Contract!Next]_<<Status, store.quotes, store.selected>>

\* Each saved trade belongs to an execute request that still has its row to
\* save, has saved it, or ended with an error or without an answer.
TradesAccounted ==
  \A t \in Tasks, q \in Quotes : <<t, q>> \in trades =>
    /\ op[t] = "execute" /\ pc[t] # "idle"
    /\ t \in committed \/ pc[t] = "save" \/ (pc[t] = "done" /\ reply[t] \in {"err", "lost"})

(***************************************************************************)
(* What makes both inductive: a request that is served alone works on a copy  *)
(* of the row as it still is, and that row is open; once an execution is      *)
(* recorded the row is executed, and no request gets past its load again.     *)
(***************************************************************************)
FromRow(t) ==
  /\ store.state \notin {"Executed", "Cancelled"} /\ op[t] \in Requests
  /\ op[t] = "create"  => store = NoRow /\ loc[t] = NewRfq
  /\ op[t] = "collect" => /\ loc[t].state \in {"QuoteRequesting", "QuotesReceived"}
                           /\ store.quotes = {} /\ loc[t].selected = store.selected
  /\ op[t] = "execute" => want[t] \in store.quotes /\ loc[t].quotes = store.quotes
  /\ op[t] = "cancel"  => /\ loc[t].state = "Cancelled"
                          /\ loc[t].quotes = store.quotes /\ loc[t].selected = store.selected

Unsaved(t) == pc[t] \in {"gather", "venue", "saveTrade", "save"}

ServedAlone ==
  /\ \A t \in committed : pc[t] # "idle"
  /\ (\A t \in Tasks : op[t] # "create") =>
       store = NoRow /\ \A t \in Tasks : pc[t] \in {"idle", "done"}
  /\ ~overlapped =>
       /\ \A t, u \in InFlight : t = u
       /\ \A t \in Tasks : Unsaved(t) => FromRow(t)
       /\ (\E t \in committed : op[t] = "execute") => store.state = "Executed"
=============================================================================
