---------------------------- MODULE RfqWorkflow ----------------------------
(***************************************************************************)
(* The life of one RFQ row under concurrent requests: the use cases         *)
(* create_rfq, collect_quotes and execute_trade                             *)
(* (src/application/use_cases/) and the cancel handlers of the REST and SBE *)
(* APIs (src/api/), with the RFQ repository they share.                     *)
(*                                                                         *)
(* A task is one request.  Every one of them loads the RFQ, works on its own *)
(* copy across awaits and saves the copy; nothing is locked between the load *)
(* and the save, so tasks interleave at each await.  A request that is       *)
(* dropped (client gone, process crash) stops at an await and leaves what it *)
(* has saved.                                                               *)
(***************************************************************************)
EXTENDS RfqAggregate

CONSTANTS Tasks,           \* requests
          VersionChecked,  \* TRUE: infrastructure/persistence (in_memory, postgres)
                           \* FALSE: the overwriting repository of main.rs
          MinQuotes,       \* CollectQuotesConfig::min_quotes
          MaxInFlight      \* requests served at a time

ASSUME WorkflowAssumption == /\ VersionChecked \in BOOLEAN
                             /\ MinQuotes \in Nat
                             /\ MaxInFlight \in Nat \ {0}

VARIABLES store,      \* the RFQ row; version 0 stands for no row
          expired,    \* quotes whose valid_until has passed
          issued,     \* quotes a venue has returned
          op,         \* op[t]: the request t makes
          pc,         \* pc[t]: the await t is at
          loc,        \* loc[t]: t's copy of the RFQ
          want,       \* want[t]: quote_id of an execute request
          got,        \* got[t]: successful venue responses of a collect request
          reply,      \* reply[t]: what the caller has been told
          fills,      \* <<t, q>>: the venue has executed q for t
          trades,     \* <<t, q>>: trade saved by t in the trade repository
          committed,  \* tasks whose copy reached the row (history)
          announced   \* tasks whose TradeExecuted event was published

local == <<op, pc, loc, want, got, reply>>
vars  == <<store, expired, issued, local, fills, trades, committed, announced>>

Requests == {"create", "collect", "execute", "cancel"}
Awaits   == {"gather", "venue", "saveTrade", "save", "publish", "position"}

NoRow  == [NewRfq EXCEPT !.version = 0]
Stored == store.version > 0

InFlight == {t \in Tasks : pc[t] \in Awaits}
Room     == Cardinality(InFlight) < MaxInFlight

TypeOK ==
  /\ store \in Rfqs
  /\ expired \subseteq Quotes /\ issued \subseteq Quotes
  /\ op \in [Tasks -> Requests \cup {"none"}]
  /\ pc \in [Tasks -> Awaits \cup {"idle", "done"}]
  /\ loc \in [Tasks -> Rfqs]
  /\ want \in [Tasks -> Quotes \cup {NoQuote}]
  /\ got \in [Tasks -> SUBSET Quotes]
  /\ reply \in [Tasks -> {"none", "ok", "err", "lost"}]
  /\ fills \subseteq Tasks \X Quotes
  /\ trades \subseteq Tasks \X Quotes
  /\ committed \subseteq Tasks
  /\ announced \subseteq Tasks

Init ==
  /\ store = NoRow /\ expired = {} /\ issued = {}
  /\ op = [t \in Tasks |-> "none"]
  /\ pc = [t \in Tasks |-> "idle"]
  /\ loc = [t \in Tasks |-> NoRow]
  /\ want = [t \in Tasks |-> NoQuote]
  /\ got = [t \in Tasks |-> {}]
  /\ reply = [t \in Tasks |-> "none"]
  /\ fills = {} /\ trades = {} /\ committed = {} /\ announced = {}
-----------------------------------------------------------------------------
\* t takes up request o with its own copy r of the row and awaits at a.
Begin(t, o, r, a) ==
  /\ pc[t] = "idle" /\ Room
  /\ op' = [op EXCEPT ![t] = o]
  /\ pc' = [pc EXCEPT ![t] = a]
  /\ loc' = [loc EXCEPT ![t] = r]

\* t's handler returns.
Return(t, answer) ==
  /\ pc' = [pc EXCEPT ![t] = "done"]
  /\ reply' = [reply EXCEPT ![t] = answer]

\* create_rfq: the checks on client, instrument and compliance have passed and
\* the aggregate is built under a fresh id, which one request only can have.
CreateLoad(t) ==
  /\ \A u \in Tasks : op[u] # "create"
  /\ Begin(t, "create", NewRfq, "save")
  /\ UNCHANGED <<store, expired, issued, want, got, reply, fills, trades, committed, announced>>

CollectLoad(t) ==
  /\ Stored /\ CanStartQuoteCollection(store)
  /\ Begin(t, "collect", StartQuoteCollection(store), "gather")
  /\ UNCHANGED <<store, expired, issued, want, got, reply, fills, trades, committed, announced>>

\* One of the spawned venue requests returns a quote before its timeout.
VenueQuotes(t, q) ==
  /\ pc[t] = "gather" /\ q \notin issued
  /\ issued' = issued \cup {q}
  /\ got' = [got EXCEPT ![t] = @ \cup {q}]
  /\ UNCHANGED <<store, expired, op, pc, loc, want, reply, fills, trades, committed, announced>>

\* Every venue has answered, failed or timed out; the quotes that are still
\* live are added to the copy, the others are skipped with a warning.
CollectFinish(t) ==
  /\ pc[t] = "gather" /\ Cardinality(got[t]) >= MinQuotes
  /\ loc' = [loc EXCEPT ![t] = ReceiveAll(@, got[t], expired)]
  /\ pc' = [pc EXCEPT ![t] = "save"]
  /\ UNCHANGED <<store, expired, issued, op, want, got, reply, fills, trades, committed, announced>>

\* No venue available, or fewer than min_quotes responses.
CollectFails(t) ==
  /\ pc[t] = "gather"
  /\ got[t] = {} \/ Cardinality(got[t]) < MinQuotes
  /\ Return(t, "err")
  /\ UNCHANGED <<store, expired, issued, op, loc, want, got, fills, trades, committed, announced>>

\* Mutant: the executing copy is saved before the venue is called.
ExecuteLoadSaving(t, q) ==
  /\ Stored /\ CanSelectQuote(store, q, expired)
  /\ Begin(t, "execute", StartExecution(SelectQuote(store, q)), "venue")
  /\ want' = [want EXCEPT ![t] = q]
  /\ store' = StartExecution(SelectQuote(store, q))
  /\ UNCHANGED <<expired, issued, got, reply, fills, trades, committed, announced>>

\* execute_trade: the quote is found, live, selected and execution started, all
\* on the copy; the next await is the venue adapter.
ExecuteLoad(t, q) ==
  /\ Stored /\ CanSelectQuote(store, q, expired)
  /\ Begin(t, "execute", StartExecution(SelectQuote(store, q)), "venue")
  /\ want' = [want EXCEPT ![t] = q]
  /\ UNCHANGED <<store, expired, issued, got, reply, fills, trades, committed, announced>>

\* Mutant: the RFQ is saved and the trade forgotten.
VenueFillsTradeless(t) ==
  /\ pc[t] = "venue" /\ CanMarkExecuted(loc[t])
  /\ fills' = fills \cup {<<t, want[t]>>}
  /\ loc' = [loc EXCEPT ![t] = MarkExecuted(@)]
  /\ pc' = [pc EXCEPT ![t] = "save"]
  /\ UNCHANGED <<store, expired, issued, op, want, got, reply, trades, committed, announced>>

\* The venue executes and says so; the copy is marked executed.
VenueFills(t) ==
  /\ pc[t] = "venue" /\ CanMarkExecuted(loc[t])
  /\ fills' = fills \cup {<<t, want[t]>>}
  /\ loc' = [loc EXCEPT ![t] = MarkExecuted(@)]
  /\ pc' = [pc EXCEPT ![t] = "saveTrade"]
  /\ UNCHANGED <<store, expired, issued, op, want, got, reply, trades, committed, announced>>

\* Mutant: the adapter's error is logged and the trade recorded all the same.
VenueErrsIgnored(t) ==
  /\ pc[t] = "venue"
  /\ loc' = [loc EXCEPT ![t] = MarkExecuted(@)]
  /\ pc' = [pc EXCEPT ![t] = "saveTrade"]
  /\ UNCHANGED <<store, expired, issued, op, want, got, reply, fills, trades, committed, announced>>

\* The venue is unknown, refuses, or gives no answer in time: the adapter
\* returns an error and the use case stops there.
VenueErrs(t) ==
  /\ pc[t] = "venue"
  /\ Return(t, "err")
  /\ UNCHANGED <<store, expired, issued, op, loc, want, got, fills, trades, committed, announced>>

\* The venue executes although nobody waits any more: the request has returned
\* the adapter's error, or was dropped at the call.
VenueFillsLate(t, q) ==
  /\ pc[t] = "done" /\ loc[t].state = "Executing" /\ want[t] = q
  /\ fills' = fills \cup {<<t, q>>}
  /\ UNCHANGED <<store, expired, issued, local, trades, committed, announced>>

SaveTrade(t) ==
  /\ pc[t] = "saveTrade"
  /\ trades' = trades \cup {<<t, want[t]>>}
  /\ pc' = [pc EXCEPT ![t] = "save"]
  /\ UNCHANGED <<store, expired, issued, op, loc, want, got, reply, fills, committed, announced>>

CancelLoad(t) ==
  /\ Stored /\ CanCancel(store)
  /\ Begin(t, "cancel", Cancel(store), "save")
  /\ UNCHANGED <<store, expired, issued, want, got, reply, fills, trades, committed, announced>>

\* A request the loaded row does not admit: not found, wrong state, expired.
Refuse(t, o) ==
  /\ pc[t] = "idle" /\ Room
  /\ \/ ~Stored
     \/ o = "collect" /\ ~CanStartQuoteCollection(store)
     \/ o = "cancel"  /\ ~CanCancel(store)
     \/ o = "execute" /\ \E q \in Quotes : ~CanSelectQuote(store, q, expired)
  /\ op' = [op EXCEPT ![t] = o]
  /\ Return(t, "err")
  /\ UNCHANGED <<store, expired, issued, loc, want, got, fills, trades, committed, announced>>
-----------------------------------------------------------------------------
\* The rule of both versioned repositories: a row is replaced by a copy with a
\* larger version, whichever version that copy was made from.
MayReplace(r) == VersionChecked => store.version < r.version

Save(t) ==
  /\ pc[t] = "save" /\ MayReplace(loc[t])
  /\ store' = loc[t]
  /\ committed' = committed \cup {t}
  /\ IF op[t] = "cancel"
       THEN Return(t, "ok")
       ELSE pc' = [pc EXCEPT ![t] = "publish"] /\ UNCHANGED reply
  /\ UNCHANGED <<expired, issued, op, loc, want, got, fills, trades, announced>>

\* Mutant: a failed save of the RFQ is logged and the request goes on.
SaveFailsLogged(t) ==
  /\ pc[t] \in {"saveTrade", "save"}
  /\ pc' = [pc EXCEPT ![t] = "publish"]
  /\ UNCHANGED <<store, expired, issued, op, loc, want, got, reply, fills, trades, committed, announced>>

\* Version conflict or I/O error, from either repository: returned with `?`.
\* A write that took effect although its answer was lost is the write followed
\* by a failure or an Abort at the next await.
SaveFails(t) ==
  /\ pc[t] \in {"saveTrade", "save"}
  /\ Return(t, "err")
  /\ UNCHANGED <<store, expired, issued, op, loc, want, got, fills, trades, committed, announced>>

\* create: RfqCreated.  collect: one QuoteReceived per response, failures only
\* logged.  execute: TradeExecuted, then PositionUpdated.
Publish(t) ==
  /\ pc[t] = "publish"
  /\ IF op[t] = "execute"
       THEN /\ announced' = announced \cup {t}
            /\ pc' = [pc EXCEPT ![t] = "position"]
            /\ UNCHANGED reply
       ELSE Return(t, "ok") /\ UNCHANGED announced
  /\ UNCHANGED <<store, expired, issued, op, loc, want, got, fills, trades, committed>>

PublishPosition(t) ==
  /\ pc[t] = "position"
  /\ Return(t, "ok")
  /\ UNCHANGED <<store, expired, issued, op, loc, want, got, fills, trades, committed, announced>>

\* A create or execute request fails although its row was saved.
PublishFails(t) ==
  /\ pc[t] \in {"publish", "position"} /\ op[t] # "collect"
  /\ Return(t, "err")
  /\ UNCHANGED <<store, expired, issued, op, loc, want, got, fills, trades, committed, announced>>

\* The request is dropped at an await.
Abort(t) ==
  /\ pc[t] \in Awaits
  /\ Return(t, "lost")
  /\ UNCHANGED <<store, expired, issued, op, loc, want, got, fills, trades, committed, announced>>

QuoteExpires(q) ==
  /\ q \in issued \ expired
  /\ expired' = expired \cup {q}
  /\ UNCHANGED <<store, issued, local, fills, trades, committed, announced>>

Start(t) == \/ CreateLoad(t) \/ CollectLoad(t) \/ CancelLoad(t)
            \/ \E q \in Quotes : ExecuteLoad(t, q)
            \/ \E o \in Requests \ {"create"} : Refuse(t, o)

Proceed(t) == \/ CollectFinish(t) \/ CollectFails(t)
              \/ VenueFills(t) \/ VenueErrs(t) \/ SaveTrade(t)
              \/ Save(t) \/ SaveFails(t)
              \/ Publish(t) \/ PublishPosition(t) \/ PublishFails(t)

Next == \/ \E t \in Tasks : \/ Start(t) \/ Proceed(t) \/ Abort(t)
                            \/ \E q \in Quotes : VenueQuotes(t, q) \/ VenueFillsLate(t, q)
        \/ \E q \in Quotes : QuoteExpires(q)

Spec == Init /\ [][Next]_vars
-----------------------------------------------------------------------------
(***************************************************************************)
(* Properties that hold whatever the interleaving and wherever a request is  *)
(* dropped.                                                                  *)
(***************************************************************************)

(***************************************************************************)
(* A row says Executed only if a trade for its selected quote was saved and  *)
(* the venue executed that quote for the same request: execute_trade saves   *)
(* the trade first, so no crash or failed save leaves an executed RFQ        *)
(* without a trade.                                                          *)
(***************************************************************************)
ExecutedIsBacked ==
  store.state = "Executed" =>
    \E t \in Tasks : <<t, store.selected>> \in trades \cap fills

(***************************************************************************)
(* Every saved trade stands for an execution the venue performed for the     *)
(* same request and quote.                                                   *)
(***************************************************************************)
TradesAreFilled == trades \subseteq fills

\* The rows and copies that may be saved.
Consistent(r) ==
  /\ r.state \in {"Created", "QuoteRequesting", "QuotesReceived", "Cancelled", "Executed"}
  /\ r.state \in {"Created", "QuoteRequesting"} => r.quotes = {}
  /\ r.state \in {"QuotesReceived", "Executed"} => r.quotes # {}

(***************************************************************************)
(* The states an RFQ passes through inside a request are never persisted, so *)
(* a restart finds no RFQ in the middle of a selection or an execution; and  *)
(* a row says QuotesReceived or Executed only when it has quotes.            *)
(***************************************************************************)
NoHalfDoneRow == Consistent(store)

(***************************************************************************)
(* TradeExecuted is published only for a request whose trade and whose RFQ   *)
(* row were both saved, and a caller who is told the trade succeeded can     *)
(* rely on the same.                                                         *)
(***************************************************************************)
AnnouncedIsDurable ==
  \A t \in Tasks :
    t \in announced \/ (op[t] = "execute" /\ reply[t] = "ok") =>
      t \in committed /\ <<t, want[t]>> \in trades

(***************************************************************************)
(* What a request knows at each await: its copy is in the state its next     *)
(* step needs, and what it must have recorded before that step is recorded.  *)
(* This is the strengthening that makes the four invariants above inductive. *)
(***************************************************************************)
InStep(t) ==
  /\ pc[t] = "idle" => op[t] = "none" /\ reply[t] = "none" /\ t \notin announced
  /\ pc[t] = "gather" => /\ op[t] = "collect"
                         /\ loc[t].state = "QuoteRequesting" /\ loc[t].quotes = {}
  /\ pc[t] \in {"venue", "saveTrade"} =>
       /\ op[t] = "execute" /\ want[t] \in loc[t].quotes /\ loc[t].selected = want[t]
       /\ loc[t].state = IF pc[t] = "venue" THEN "Executing" ELSE "Executed"
       /\ pc[t] = "saveTrade" => <<t, want[t]>> \in fills
  /\ pc[t] = "save" =>
       /\ Consistent(loc[t])
       /\ op[t] = "execute" \/ loc[t].state = "Executed" =>
            /\ op[t] = "execute" /\ loc[t].state = "Executed"
            /\ loc[t].selected = want[t]
            /\ <<t, want[t]>> \in trades \cap fills
  /\ pc[t] \in {"publish", "position"} =>
       /\ t \in committed
       /\ op[t] = "execute" => <<t, want[t]>> \in trades
  /\ pc[t] = "position" => op[t] = "execute"

RequestsInStep == \A t \in Tasks : InStep(t)

(***************************************************************************)
(* With a versioned repository the row only moves to larger versions: two    *)
(* requests that load the same version never both save it unchanged.         *)
(***************************************************************************)
RowVersionGrows == [][store' # store => store'.version > store.version]_vars

-----------------------------------------------------------------------------
(***************************************************************************)
(* What the source says and concurrent requests do not keep.                 *)
(***************************************************************************)

\* rfq.rs: "Single active execution at a time".
SingleActiveExecution ==
  Cardinality({t \in InFlight : op[t] = "execute"}) <= 1
=============================================================================
