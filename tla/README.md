# Formal model of the OTC RFQ engine

This directory holds a TLA+ model of the parts of the engine in which a wrong
interleaving, a lost answer, an expired lock or a stale copy can do damage. TLC
checks the modules on small instances (`MC*.tla` with a `.cfg` each), and TLAPS
proves the main safety properties for every value of the constants
(`*Proofs.tla`). Source paths below are relative to the crate
(`src/domain/...`). `PROJECT.json` maps every definition to its lines.

Contents: 1 the system, 2 the modules, 3 the runs, 4 fairness, 5 what the code
does not keep, 6 the proofs, 7 what is not modelled, 8 what could be added.

## 1. The system

A client's request for quote (RFQ) is created, quotes are collected from venues,
the client takes one, the venue executes it and a trade is recorded. Beside this
main path stand the acceptance of quotes with last look, the locking of several
resources for one match, block trades executed off book, and packages of several
legs. All of it is asynchronous Rust: every `await` lets another request run, and
every future can be dropped at an `await`.

| Part | State it keeps | Operations | Hard because | Must hold |
|---|---|---|---|---|
| RFQ aggregate (`domain/entities/rfq.rs`) | state, quotes, selected quote, failure text, version | one method per transition | any order of calls, quotes that expire between two of them | the selection is an own quote and final, a closed RFQ stays closed, the version covers every change |
| Use cases and RFQ repositories (`application/use_cases/`, `infrastructure/persistence/`, `main.rs`) | the row; a copy per request | create, collect, execute, cancel | load, long awaits, save, without a lock; answers lost, saves refused, requests dropped | the row and the announcements are backed by what the venue did |
| Quote acceptance (`acceptance_flow.rs`, `quote_lock.rs`) | quote locks with a time to live | accept: lock, risk, last look, execute, release | expiry races the steps, calls are dropped with the lock held | one execution at a time until the time to live is over; every lock ends |
| Resource locks (`lock_manager.rs`, `resource_lock.rs`, `atomic_matcher.rs`) | lock map, guards | acquire_all, rollback, release_all, Drop | several locks with waiting in between, partial failure, two resources with one key | no circular wait, nothing left locked, exclusion until expiry |
| Block trades (`block_trade.rs`, `off_book_executor.rs`) | aggregate state, validation, confirmations; collateral, chain, positions, report | validate, confirm, reject, execute with rollback | five services, each may fail or act without answering | only agreed trades settle, an executed one is complete, collateral is not lost |
| Multi-leg packages (`multi_leg_executor.rs`, `compensating_trade.rs`) | executed and compensated legs | execute legs in order, compensate in reverse | a saga whose steps and whose compensations may fail or be lost | the result tells what is open at the venue |
| Market-maker capacity (`capacity_manager.rs`, `mm_capacity.rs`) | one row of reservations and counters per market maker, its limits, its mutex | reserve, release, update_config, adjust_capacity | the repository fails inside the mutex, the limits change outside it | counters are the reservations, limits hold at the reservation, no update is lost |
| Delayed reports (`report_publisher.rs`, `delayed_report.rs`) | reports with a due time and a mark | schedule, process_ready | two workers, failed marks, a dropped batch, an execute that fails after it scheduled | what becomes public is done, a worker announces it once |
| Circuit breaker (`circuit_breaker.rs`) | atomics and a locked state | can_execute, record_success, record_failure, reset | load, compare and add are separate; answers of an earlier period | counters overshoot by the concurrent calls only, it never stays open or half-open |
| Negotiation (`negotiation.rs`, `counter_quote.rs`) | rounds, state | counter, accept, reject, expire | who may answer what | the accepted price is an offer of the other side |
| FIX adapter (`fix_adapter.rs`) | two tables of pending calls, a channel to the engine | request_quote, execute_trade, callbacks | timeout races the late report, the session ends, reports repeat | an answer agrees with the venue, nobody waits without an entry, every call ends |
| Event delivery (`dispatcher.rs`, `nats_worker.rs`) | bounded channel, the message in hand, stream, dead-letter file | dispatch, publish with retries, shutdown | full or closed channel, lost acknowledgements, crash | order of acceptance is kept, an accepted event is in the stream or the file |
| Streaming quotes (`streaming_quote.rs`) | books, cached best | update, expire, unregister | a cached best that is stale | the best is in the book |
| Incentive settlements (`incentive_settlement_service.rs`) | monthly settlement | record, finalise | find, change, save without a lock | a final settlement stays final |
| SBE server (`api/sbe/server.rs`, `subscriptions.rs`) | channels and subscriptions per connection | subscribe, push, close | cleanup order | nothing survives its connection |

Interactions. REST and SBE handlers call the use cases (cancel works on the
repository itself). The use cases share only the repository and publish to the
event dispatcher. `AcceptanceFlow` and `AtomicMatcher` receive their lock service,
risk, last-look and execution services as traits. `OffBookExecutor` borrows the
block trade for the whole of `execute` and calls four service traits that have no
implementation here; the report it schedules is published by `ReportPublisher`.
`MultiLegExecutor` calls a `LegExecutor` trait. A venue call of the execute use
case ends in an adapter, for instance `FixMMAdapter`, behind a circuit breaker;
what the use cases publish goes to `DomainEventDispatcher`. `PROJECT.json` lists
all components and the hazards at their lines, each with the properties that would
catch it or the reason why none does.

## 2. The modules

| Module | Models | State and actions |
|---|---|---|
| `RfqState` | `RfqState` | the ten states, `Transitions` |
| `RfqAggregate` | `impl Rfq` | per method an operator `CanM` (the conditions of Ok) and `M` (the aggregate afterwards). `NewRfq`, `ReceiveAll` (the loop of collect_quotes) |
| `RfqLifecycle` | one owner calling the methods in any order | `rfq`, `lapsed`; one action per method, `QuoteLapses` |
| `RfqContract` | abstract: what an RFQ promises | `status`, `offers`, `deal`; Offer, Commit, Settle, Close. `RfqLifecycle` and the row of `RfqWorkflow` implement it |
| `RfqWorkflow` | the requests over one persisted row | `store` is the row, `loc[t]` the request's own copy, `pc[t]` the await it is at, `fills` what the venue did. One action per stretch between awaits; `Abort` drops a request, `VenueErrs` is an error, and `VenueFillsLate` the fill that comes after one or after a drop |
| `RfqServedAlone` | the same, with the history variable `overlapped` | what holds until two requests have been in flight at once |
| `TtlLocks` | `QuoteLock`, `LockInfo` | holder and ticks left. Expired equals absent, because every operation treats it so |
| `QuoteAcceptance` | `AcceptanceFlow::accept` over the quote locks | one action per step and per way it ends; `Drop`; `Tick` ages locks and calls |
| `ResourceLocking` | `SharedLockManager` and `LockGuard` as `AtomicMatcher` uses them | a resource is its rank, `Key` its lock_key; Acquire, GiveUp, Rollback, Release, ReleaseStops, Drop, Tick |
| `BlockTrade`, `OffBookExecution` | `BlockTrade` and `OffBookExecutor::execute` | the calls of the parties, then one action per await of execute and answer of the service |
| `BlockTradeReporting` | `ReportPublisher`, composed with `OffBookExecution` | `reported` is the content of the report repository; BecomesDue, ProcessReady, PublishReport, MarkFails, ReturnEvents, DropCall |
| `MultiLegExecution` | `MultiLegExecutor::execute` | `executed`, `rolledBack`, `attempts` as in the code; `position` is the venue's book, `hidden` the legs for which it acted without saying so |
| `CapacityManager` | `CapacityManager` and `MmCapacityState` | `row`, `config`, `mutex`; `copy[c]` is what the call will save. One action per await; `Fails` is a failed access or a dropped call, the save done or not |
| `CapacityLedger` | abstract: what a market maker's capacity promises | `book` and its counters; Reserve within set limits, Release. `CapacityManager` implements it |
| `CircuitBreaker` | `CircuitBreaker` | the atomics as variables, one action per load, addition or transition of a caller |
| `EventDelivery` | `DomainEventDispatcher` and `NatsPublisherWorker` | `channel`, `current`, `retry_count`; `stream` and `dlq` survive a `Crash`; `ConnectFails` drops the receiver, which closes the channel; `accepted` is the order in which the channel took messages |
| `FixOrders` | `FixMMAdapter::request_quote`, `execute_trade` and the callbacks of `FixApplication` | `pending` are the entries of both tables, `answer[c]` the oneshot channel, `venue` and `reports` the other side |
| `*Proofs` | lemmas and theorems | section 6 |
| `MC*` | instances for TLC | symmetry sets and constants only |

Definitions commented `Mutant:` are plausible bugs of the definition that
follows; replacing that definition by one of them makes a property fail. Nothing
else uses them.

Abstractions. Prices, quantities, parties, identifiers, texts and event payloads
are left out: no property tells them apart. A reservation is the notional of its
instrument. Time is a set of expired quotes or due reports, a number of ticks, or
whether an interval has passed. Outside services answer freely. `committed`,
`overlapped`, `base`, `position`, `hidden`, `fills`, `settled`, `stuck`,
`announced`, `accepted` and `forgotten` record what happened outside the process
or earlier, so that properties can relate to it.

## 3. The runs

| Run | Instance | Result |
|---|---|---|
| `lifecycle` | 3 quotes, one of another RFQ, version at most 7 | holds: nothing but an own quote is selected, once and for all; versions order the contents, the batch operator is the loop, `RfqContract` is implemented |
| `workflow` | version-checked repository, 4 requests, 3 in flight, 2 quotes, min_quotes 0 | holds: an Executed row has a saved trade that was filled, no intermediate state is persisted, what was announced was saved; until requests overlap, an execution is repeated only after one that left no row and never once the row is closed, and the row implements `RfqContract` |
| `acceptance` | 3 calls, one quote, time to live 2, total timeout 1 | holds: executions overlap only after expiry and start under the lock, only the holder releases, every lock ends |
| `locking` | 2 executions over 3 resources, requests of none, two or three of them, time to live 2, timeout 1 | holds: exclusion until expiry, no circular wait, ended executions hold nothing, every lock ends |
| `offbook` | 2 block trades, 2 report workers, 2 events counted | holds: agreed, complete, on chain first, collateral held long enough and freed, what is announced is done, once per worker |
| `multileg` | 4 legs, 3 attempts | holds: counts, results, partial failure and order |
| `capacity` | 3 calls, 2 RFQs, 2 instruments of different size, 2 configurations | holds: `CapacityLedger` is implemented, limits, no lost update |
| `breaker` | 3 threads, all thresholds 2 | holds: overshoot bounded by the threads, recovery |
| `delivery` | 2 events of 2 messages, channel of 2, 1 retry | holds: order, nothing vanishes, everything is settled |
| `fix` | one order, one quote request, a channel of 1, 2 reports on their way | holds: entries, answers, every call ends |
| `workflow_two_executions`, `offbook_leak` | as above, smaller | counterexamples, section 5 |

Bounds, and why they are enough. `lifecycle`: two own quotes suffice to select
another than the first, the third tests ownership; the longest path to a terminal
state raises the version five times, so 7 leaves room for repeated receive and
compliance calls, the only calls `MaxVersion` guards. `workflow`: four requests
are create, collect and two that compete; with three in flight a third overtakes
the pair. The conflicts are between pairs of requests, and the theorems cover any
number, and the overwriting repository of main.rs. `acceptance`: the third call
meets the successor of an expired lock; ages beyond time to live plus timeout are
not told apart. `locking`: two executions meet on one or two resources in either
order, and a third request is among three locks where a release can stop half way;
that no longer circle arises is the theorem. `offbook`: trades share nothing but
the workers' batches, for which two trades and two workers are the smallest
instance; the second announcement, which must not happen, is within the bound.
`multileg`: four legs give an executed leg below, at and above the one being
compensated. `capacity`: two calls conflict and a third replaces or releases what
one of them made; either configuration has room for one RFQ that the other has
not. `breaker`: with three threads two pass the comparison together while the third
brings an answer of an earlier period. `delivery`: the third message finds the
channel full, a message is retried once and then given up, and the two events
interleave. `fix`: entries are independent of each other except for the channel,
which the second call fills; two reports are a partial fill and the last word, or
the last word twice. Only `MaxVersion`, `MaxAnnounced` and `MaxReports` cut
behaviour off; all other runs explore their complete state space.

Modules that can always go on (time, callers that come again, crashes) are checked
for deadlock; in `lifecycle`, `workflow`, `offbook` and `multileg` requests simply
end, and the configurations say so (CHECK_DEADLOCK FALSE). That no execution waits
in a circle is a property of its own, `NoCircularWait`. Symmetry is used only where
no liveness is checked.

## 4. Fairness

- `QuoteAcceptance`, `ResourceLocking`: `WF(Tick)`, time passes. Nothing is assumed
  of services, callers or the scheduler; `LocksEnd` must hold even if every call
  hangs or is dropped, which is what the time to live is for.
- `CircuitBreaker`: reset_timeout passes, and each thread goes on: it calls again,
  and an admitted request records how it ended. A request that is dropped instead
  records nothing, see section 5.
- `EventDelivery`: the worker is scheduled, and connecting and its publications
  return, with an error at the latest when they time out. What is sent over the one
  connection is stored in that order, so that a store after a timed-out
  acknowledgement stands where it was sent. Nothing is assumed of the broker; crashes
  and shutdowns are not fair.
- `FixOrders`: the engine, while it lives, empties its channel; a call that can go
  on again and again does. This is strong fairness because a send waits for room
  that others take too, and tokio's channel serves waiters in turn. Nothing is
  assumed of the venue or the session.

The other modules make no liveness claim: their services are traits that may never
answer, and requests may be dropped.

## 5. What the code does not keep

Two of these are runs that end in a counterexample.

- `workflow_two_executions` / `SingleActiveExecution`. The Executing state is
  only in the request's copy while the venue executes, so two execute requests
  reach the venue ("Single active execution at a time", `rfq.rs:97`).
- `offbook_leak` / `FailureFreesCollateral`. When the report is refused, the
  trade is marked Failed, `mark_executed()?` returns an error, and the release is
  never reached: a settled trade ends Failed with the collateral locked. (A lock
  that the collateral service takes but answers with an error is not released
  either; it is its own answer that hides it, and the property excepts it.)

Met while modelling, with no run of their own:

- Both versioned repositories compare the version of the copy with that of the
  row. A request raises its copy's version several times, so a slow request
  replaces a row written since it loaded (`in_memory/rfq_repository.rs:95`),
  although `persistence/traits.rs:197` documents a VersionConflict then. This is
  why `RetriesEndWithTheRow` and `RowKeepsContract` end with the first overlap.
- Without any overlap an execution can still be repeated: if the venue's answer is
  lost, or the row cannot be saved after the trade, the request fails
  (`execute_trade.rs:224`, `:241`), the row still offers the quote, and a retry
  fills and records it again. `RetriesEndWithTheRow` bounds this: each trade but the
  last one is of a request that ended without the row, and nothing follows the
  save that closes it.
- When client and venue are one account, its lock key is released twice; another
  execution may take it in between, the second release is refused and
  `release_all` returns before it reaches the remaining locks
  (`lock_manager.rs:500`), although l.125 says that locks are always released.
- `mark_failed` writes the failure reason before its transition is refused, so an
  RFQ that has not failed can carry one (`rfq.rs:149` "Reason for failure, if
  failed."). `VersionCoversChange` excepts this field for that reason.
- `README.md:251` of the repository draws Executing to Cancelled; `rfq_state.rs:173`
  does not allow it. `README.md:242` draws an expiry of QuoteRequesting; no use
  case calls `expire`, so with min_quotes 0 a collection without quotes leaves a
  row that only cancel can move.
- `acceptance_flow.rs:212` promises AcceptanceTimeout if the total timeout is
  exceeded; the deadline is looked at between the steps only, and an executor may
  take any time. `quote_lock.rs:10-11` says that only one process can accept a
  quote at any time; what holds is `OverlapOnlyAfterTtl`.
- `multi_leg_executor.rs:302` promises all legs or a rollback; the overall timeout
  drops the execution with its records and rolls nothing back (`CutOff`). The counts
  of a PartialFailure leave out the failed leg, which is open at the venue if only
  its answer was lost; `PartialFailureIsBounded` names it beside the leg whose
  compensation failed last. With
  max_rollback_attempts 0 the result is RolledBack with every leg open, which is
  why `ResultIsTrue` asks for at least one attempt.
- Two workers that read the same ready report both return an event for it, and a
  worker that is dropped after a mark loses the event: across workers the events of
  a report number from none to one per worker.
- The diagram of `circuit_breaker.rs:8-23` has four transitions. A success counted
  late, or a reset, closes an Open breaker, and a caller that found the timeout
  lapsed makes a Closed one HalfOpen. `aggressive()` (l.143) admits one request per
  half-open period and asks for two successes, so it never closes again; `Recovers`
  needs half_open_max_requests >= success_threshold. An admitted call that is
  dropped records nothing, and its place in the half-open period is gone.
- `dispatcher.rs:151` returns "the first encountered error", but `dispatch` answers
  Ok when the channel is full or closed: of a position update one message may go
  out without the other, and nobody is told. The channel is closed as soon as
  `NatsPublisherWorker::connect` fails, which takes the receiver with it
  (`nats_worker.rs:69`), and every event after that is dropped.
- `fix_adapter.rs`: an entry stays in its table for ever when encoding or sending
  fails after it was made (l.1114) or the call is dropped; a fill after the timeout
  (l.1149) finds no entry and is ignored, so a trade the engine reports as timed out
  may exist. A fill report without a usable price (l.315) is answered with an error
  too, although the venue filled. `AnswersHold` says that every other error means
  there is no trade.

## 6. The proofs

Every theorem of `PROJECT.json` "theorems" holds for all constants that satisfy
the named assumptions (`QuotesAssumption`, `WorkflowAssumption`, `TtlAssumption`,
`AcceptanceAssumption`, `ResourcesAssumption`, `BoundAssumption`,
`MultiLegAssumption`, `FixAssumption`, `CapacityAssumption`, `ConfigAssumption`,
`DeliveryAssumption`, `NoMessageAssumption`) and, where stated, an extra
hypothesis. Every safety property of the runs that hold is among them. The argument
in each module:

- `RfqProofs`, the aggregate: type and selection are one inductive invariant, from
  which no method touches a selection that is made (`SelectionSafe`); each
  method is then shown to be a step of `RfqContract` or a stutter. `VersionCovers`
  goes through the methods once more: all but mark_failed raise the version.
  `BatchLooped` says that the loop of collect_quotes, in any order, is the batch
  operator: one more quote leads from the batch without it to the batch
  (`OneMore`), the batch operator solves the equation that defines the loop, and a
  smallest batch on which the loop differs cannot exist.
- `RfqProofs`, the workflow: `IInv` adds `RequestsInStep` to the four invariants.
  They are not inductive alone: Save copies `loc[t]` into the row, so the row is
  sound only if every copy that waits to be saved is, and a request remembers what
  it had recorded. It holds for either repository, any number of requests and any
  bound. `VersionGrows` assumes `VersionChecked`. `RetriesEnd` and `RowContract`
  add `ServedAlone`: until requests overlap, an unsaved copy was made from the row
  as it still is, and that row is open; so the save is a step of `RfqContract`, and
  none comes after a recorded execution. `TradesAccounted` says whose the saved
  trades are, which makes `RetriesEnd` go through: beside the request at work only
  requests that ended without the row.
- `QuoteAcceptanceProofs`: `YoungCallsHold` is the invariant: the ticks left on
  a lock and the age of its call add up to at least the time to live. Exclusion
  follows, because two young calls would both be the holder. `StartsLocked`
  assumes `TotalTimeout <= LockTtl`; without it a call starts after its lock ended.
- `ResourceLockingProofs`: with distinct keys, `IInv` says that what is held lies
  below what is still to do (`Progress`), that every lock is accounted for by its
  holder (`LocksAccounted`), and that the locks of one execution end in the order
  they were taken (`ExpireInOrder`): a release, which starts with the last lock,
  stops only at an expired one, and then all earlier ones are expired too. This is
  why `EndedHoldNothing` holds although `release_all` returns at the first error,
  and why it fails with shared keys. `OrderPreventsDeadlock` assumes that ranks are
  bounded: a circle would need the awaited rank to grow for ever. `HolderReleases`
  needs no assumption on keys.
- `OffBookExecutionProofs`: `IInv` adds `StepsInOrder`, what holds at each await,
  and is proved trade by trade (`Sound`). The theorems about the composition with
  the publication of reports add `ReportsInStep`: what a worker holds is due, what
  it announces is marked, and it holds nothing it has announced.
- `MultiLegExecutionProofs`: `IInv` adds to the counts where doubt can be: only at
  the leg being tried and at compensated legs (`DoubtIsLocal`), and by how much
  (`DoubtIsBounded`: one opening, or as many unwindings as attempts).
- `FixOrdersProofs`: neither invariant is inductive. What a caller is told stays
  true because a message leaves at most once (`Sent`), the reports on their way and
  an unread answer agree with the venue's last word (`Told`), and an entry is gone
  once its answer is there (`Entries`).

- `EventDeliveryProofs`: order and completeness are about pairs of messages, the
  code about one at a time. `Inv` says that the messages the worker took are the
  first ones accepted, the one in hand the last of them and the channel the rest
  (`Tailed`), that the stream holds taken messages only, in the order in which they
  were taken (`Stored`), and that every taken message but that
  one is stored, in the file or forgotten (`Kept`). A retry stores a message twice
  at the same place, so `StreamInOrder` is about places.
- `AdmissionProofs`, the breaker: a counter may pass its limit because load,
  comparison and addition are separate. Counting the callers past the comparison
  with it makes the bound inductive (`Admitting`): an addition takes a caller out of
  the count, and a comparison that lets one in knows the counter below the limit.
  A full success or failure counter is matched by callers still to make the
  transition (`Healing`, `Failing`); failure_count outlives it, so its callers are
  counted in every state.
- `AdmissionProofs`, the capacity: `CapacityInv` says that a call past the lock
  holds the mutex (`Exclusive`), so that the row it has read is still the row when
  it saves (`Prepared`) and its comparison still holds (`Compared`), and that the
  counters are the reservations (`Counted`). A replaced reservation is reverted
  first, and in between the counters are those of the book without it, which is why
  `Counts` has the book as a second argument. The subtractions cut off at zero
  (`max(ZERO)`) never do: what is reverted is in the counter (`HeldIsCounted`). The
  sum over the instruments changes by one summand (`TotalChange`).
  From this `LedgerKept`: only a save changes the row, to one reservation or
  release of `CapacityLedger`; a failed or dropped save is that step or none.

Induction. The library's induction theorems take an operator as parameter, which
the provers here cannot instantiate. Where a proof needs induction it is stated
about sets: a set of numbers that holds 0 and successors holds all (`NatSets`), a
set of subsets closed under adding an element holds all of them (`SubsetSets`), and
a nonempty set of finite sets has a smallest one (`SmallestSet`), each from the
well-foundedness of `<` on the naturals. That a recursive function satisfies its
equation is shown where it is used (`SumsUnfold`, `LoopIsBatch`).

Only model-checked: the liveness properties (`LocksEnd`, `Recovers`, `AllSettle`,
`CallsEnd`), which with ENABLED are out of this prover's reach. No module uses a
RECURSIVE operator.

## 7. What is not modelled

Within the core: negotiation (`negotiation.rs`, `counter_quote.rs`) has no caller
in the code, and its turn and price rules are guards of single calls. Incentive
settlements find, change and save over a repository trait without an
implementation, which decides how concurrent calls end. Streaming quotes keep the
latest quote per market maker behind one lock each; nothing consumes them yet. The
SBE server keeps two channels per connection and closes them with it. The states of
trade settlement have no caller outside tests. The multi-leg quote collector is a
fan-out with a timeout that keeps nothing.

Outside it: codecs (SBE, FIX messages), the FIX session of the external engine,
venue and blockchain adapters (requests to remote services), HTTP routing and
middleware, configuration, pricing, fees, ranking, fill and normalisation
(functions over decimals), compliance and risk (verdicts, chosen freely where a
flow asks for them), the last-look channels (stubs; their answers are chosen
freely), confirmations (a status nobody reads), performance records, event store
and audit log (append-only), counterparties and the venue registry (configuration).
These are most of the lines of the repository: they compute or translate, and
hold no state over an await that a property here could be about.

Inside modelled parts: the finders of the repositories, the confirmation task
spawned after a trade, and the SBE and REST create handlers, which build an RFQ
without the use case's checks, are not in `RfqWorkflow`. `QuoteLockService::extend`
has no caller. `retry_interval` is any number of repetitions of a refused Acquire.
`retry.rs` is a bounded loop around one call. Decimal overflow of the capacity
counters, and `handle_incoming_message` of the FIX adapter, which tests alone call,
are left out. The set-up of the JetStream stream is one step that may fail
(`Connect`, `ConnectFails`), its deduplication is outside the process.

## 8. What could be added

1. `FixOrders` as a refinement of the venue step of `RfqWorkflow`: an answer of
   execute_trade is VenueFills or VenueErrs; `AnswersHold` is the fact it rests on.
2. Two nodes with one report repository, once it has an implementation that says
   what a second mark returns.
3. Negotiation, incentive settlements and streaming books, when the code uses them.
