# Treasury orchestration: a TLA+ development

The service batches completed on-ramp transactions per asset pair, closes a batch
when it is old or large enough, executes it as one aggregate order through
liquidity-routing, and accounts for what follows: the float it creates, the hedge it
needs, the ledger postings and audit events it owes. This directory models the parts
of it that keep state and race with each other, checks them with TLC and proves the
most important of what is checked with TLAPS. Paths below are relative to
`src/internal/` unless they say otherwise.

## The system

| part | code | state | operations |
|---|---|---|---|
| event bus | `eventbus` | subscription channels, Kafka offsets | Subscribe, Push, stop, reader loop |
| event consumer | `consumer` | none of its own; `batches`, `batch_memberships`, `tx:` keys | handle: dedupe, OpenBatch, AddMembership, rolling total |
| batch scheduler | `batch` | `batches`, `cadence:` keys | tick, shouldClose, close; manual close over HTTP (`api`) |
| aggregate executor | `aggregate` | `aggregate_orders`, `batches.status`, `agg:` keys | SubmitBatch, called by OnClose, calling OnFill (`app`) |
| float tracker | `float` | `float_positions` | OnAggregateFill, enforceBounds, SweepMatured |
| hedger | `hedge` | `aggregate_orders`, `hedge:` keys | OnAggregateFill |
| outbox | `ledger` | `outbox` | Append, Dispatch |
| retry, circuit breaker | `clients` | failures, open, halfOpen, openedAt | Do, Allow, RecordSuccess, RecordFailure |
| idempotency | `idempotency` | keys with a TTL, in Redis or in memory | CheckAndMark, Acquire |
| funding | `funding`, `api` | `funding_requests`, `rebalancing_jobs`, `fund:` and `rebal:` keys | CreateFundingRequest, Rebalance, checkAndRebalance |
| demand projection | `projection` | the samples of a sliding window, in memory | Observe, ProjectedDemand, VelocityPerSecond |
| stores | `store/postgres`, `store/memstore` | the tables | one method per operation |
| migrations, start-up | `store/migrations`, `src/cmd/migrate`, `postgres.Open` | the tables, `schema_migrations` | Up, Down |

**Interaction.** Four loops run in every replica (`app/app.go:283`): scheduler,
consumer, outbox dispatcher, float sweeper; HTTP handlers run beside them. The parts
call each other synchronously (`tick` → `close` → `OnClose` → `SubmitBatch` →
`OnFill` → float, hedge, settle), and share state only through the database, Redis
and the breakers of the clients. Replicas share the database and Redis. Of the
funding package the program uses `CreateFundingRequest` only, for its endpoint: nothing
in `src/` starts `RunRebalanceLoop` or calls `Rebalance` or `Observe`, so that the demand
it projects is 0 and no job exists. They are modelled as the package offers them.

**What is hard.** Hardly any operation is a transaction: each is a chain of store,
Redis and HTTP calls, with decisions taken on what an earlier call returned. Chains of
several goroutines and replicas interleave between the calls; most errors are logged
and dropped; keys are marked before the work they stand for; nothing at start-up looks
for work that was left half done. `PROJECT.json` lists the hazards by line, each with
the properties that would catch it.

## The modules

| module | models | used by |
|---|---|---|
| `BatchLifecycle` | the abstract life of a batch and its order | instantiated by the next two |
| `BatchFormation` | consumer, scheduler, manual close, cadence lock, over Postgres and Redis shared by replicas | `MCFormation`, `BatchFormation_proofs` |
| `AggregateExecution` | OnClose, SubmitBatch, OnFill: executor, float call, hedger, settlement, outbox appends | `MCExecution`, `AggregateExecution_proofs` |
| `Outbox` | the outbox table and the dispatcher loops | `MCOutbox`, `Outbox_proofs` |
| `FloatPosition` | AddFloat, the maximum check and the sweeper, over `float_positions` or the store in memory | `MCFloat`, `FloatPosition_proofs` |
| `CircuitBreaker` | `Do` and the breaker it shares | its own run, `CircuitBreaker_proofs` |
| `EventBus` | HTTP push, the Kafka reader, `Consumer.Run`, shutdown and restart of one process | its own runs, `EventBus_proofs` |
| `Projection` | the sliding window of the demand projection | extended by `Funding` |
| `Funding` | funding requests, the rebalance loop and rebalancing jobs against wallet-management | its own run, `Funding_proofs` |
| `Startup` | replicas that migrate before they serve, the migrate command | its own run, `Startup_proofs` |

### BatchLifecycle

What the service promises of a batch to whoever looks at its rows, without threads,
calls or failures: OPEN, CLOSED, EXECUTING, SETTLED in this order (`CanTransitionTo` in
`store/store.go:29`), one order, created while the batch is closed, whose notional never
changes, and a batch or order that is SETTLED only with the fill on record. It is
implemented twice, under different mappings. `BatchFormation` maps what it sees up to the
order row: a batch has an order when it is in `ordered`, and nothing is filled.
`AggregateExecution` maps the order row's columns. In both the property
`LifecyclePromise` is `Lifecycle!Spec`, checked by TLC and proved.

### BatchFormation

A replica has one consumer frame (`frame[r]`), one ticker and, if it is `Served`, one
close request at a time (`closing[<<"tick", r>>]`, `closing[<<"api", r>>]`). Each
store or Redis call is one action; what a goroutine keeps between calls is in its
frame. `OpenBatch` is two actions, `FindOpen` and `InsertBatch`: its transaction runs
at Postgres's default isolation and the schema has nothing that keeps two OPEN rows
of a pair apart. `UpdateBatchStatus` locks its row, so it is one. An amount is
abstracted to the set of transactions it sums; this keeps apart every two sums that
could differ. `Receive` may deliver an event up to `MaxDeliveries` times, to any
replica; `ReceiveFails`, `ConsumerFails`, `CloserFails` and `Crash` are the failures,
with the error path the code takes at that call. In `ConsumerUnanswered` and
`CloserUnanswered` the call fails for its caller although its write took effect, as when
the answer to a COMMIT is lost: a row nobody knows of, a member whose `batch.open` is
not emitted, a closed batch nobody hands over. `ReceiveFails` may leave the key marked.
The statuses after CLOSED are one
state here. `HandOver` is OnClose up to the creation of the order row, which is as
far as formation can influence execution; `AggregateExecution` takes over from there.

What may go wrong is counted. `OpenPerReplica` allows each replica one open batch of a
pair, `LossPerFault` and `OpenAudited` one lost event and one unaudited batch per fault.

### AggregateExecution

A worker is a goroutine inside `OnClose` or `SubmitBatch`; `pc[w]` names its next
call. `CloseBatch` is the scheduler's compare-and-set, which happens once per batch
(proved in `BatchFormation_proofs`); `Resubmit` is any other call of `SubmitBatch`,
the replay its comment allows for. In `StoreFails` and `DownstreamFails` a failed
call may or may not have taken effect. `lost` records the keys that ran out or whose
check failed. While the key of a batch is not lost, `EffectsOnce` allows one submission,
float adjustment and hedge; afterwards, one more for each key that ran out and each
fault. `SubmittedAsOrdered` allows one batch per replay that asked the venue for
another notional than its order row has, and `RecordsAgree` one batch per fault of which
something is not on record. `LateTotal` is the consumer's
`SetBatchNotional`, which is unconditional. Retries inside the resilient client carry
the same idempotency key and count as one call.

The fill moves the float by `AddFloat`, counted per batch in `floated`; what becomes
of the position is in `FloatPosition`.

### Outbox

An entry is its id. `List` takes the snapshot that `ListPending` returns, the first
`Limit` by id; `Post`, `Audit` and `MarkEmitted` are the three calls for each entry, and
every error goes on with the next entry. `Rejected` entries are those the ledger answers
400 for; `ConflictOnReplay` says whether it answers 409 to a posting it knows
(`clients/common.go:11` has an error for that) or repeats its answer.

### FloatPosition

A fill is a call of `OnAggregateFill`; fills are numbered in the order in which they
compute their due date. A position holds the set of fills it sums and the fill whose
due date it has, which is the last one written. `GetFloat` sums all rows of the
currency, settled or not. `due` is the clock: the fills whose settlement date has
passed. Of the bounds only the maximum is modelled: both checks just report.

`postgres` is the choice `Build` makes (`app/app.go:95`), so the run covers both stores.

- On Postgres `AddFloat` is one action when it finds a row (`FOR UPDATE` locks it) and
  two, `FindNone` and `InsertRow`, when it does not. A failed call may have taken effect,
  which includes the read with which `AddFloat` ends. The sweeper takes no step:
  `ListMaturedFloat` calls `uuid_nil()` (`store/postgres/postgres.go:591`), a function of
  the extension `uuid-ossp`, and nothing in the repository creates that. Postgres refuses
  the query on every tick, whatever is in the table, and the tick ends with a line in the
  log: `ListAnswers` is false. `SettleFloat`, which nothing else calls, is never reached
  (the read with which it ends has the same fault, `:615`) and has no action on Postgres.
- In memory every operation is one action, under the mutex, and none fails. The sweeper's
  list is a copy; `SettleFloat` marks a row by id and leaves its amounts in it. A `Crash`
  takes the store with it.

### Projection and Funding

A sample has the time it was taken; `Observe` may be given one of the past, and evicts
as of that time, `ProjectDemand` evicts as of now. `Notional` is what one sample counts,
so that the sum is a number of samples. A call of `CreateFundingRequest` (by a request,
a client's repetition or the loop) or of `Rebalance` goes through the same calls:
`Persist`, `Audit` (the outbox entry), `Mark`, `Take` and `Answered` (the wallet's two
halves), `Confirm` or `Reject`. What differs is what the caller is told: after a failed
move the client gets 201 and the request as it was created, `Rebalance` returns the
error. The wallet may take a move without completing it; the code does not look at that.
`Repeat` is what a client can do about an error or a lost connection: the same request
again, as a new row, since the endpoint takes no key. It is an assumption on clients
that they do not repeat what was answered with 201. `lost` records outbox entries and
wallet answers that were lost, which is what `RecordMatchesWallet` excuses.

### Startup

A process, replica or command, is at one migration. `CreateBookkeeping`, `Query`,
`ApplyScript` or `RevertScript`, and `Record` are the runner's calls. Postgres runs a
script as one transaction (one simple query); two sessions that both find a table missing
both try to create it and the second fails, which is `Losing`. The script of a version is
taken to be like the only one there is: it also records itself, so that the runner's own
`INSERT` repeats it. An error ends the process; a replica is started again. `raced` says
that an Up and a Down overlapped.

### CircuitBreaker

Each breaker method holds the mutex and is a step. `elapsed` stands for
`time.Since(openedAt) >= resetTimeout`. A caller is `"closed"` or `"probe"` by how it
was admitted; stale calls, admitted before the circuit opened, end whenever they like.

### EventBus

One process and its single subscription. `kafka` is the choice `Build` makes, so every
run covers both buses. `chan` is the channel, with a capacity of `Cap` for the code's
1024, and `sub` says whether it is there and open. Kafka-go is external and modelled by
what the code uses of it: `Fetch` and `Commit` are the halves of `ReadMessage`, which
commits before it returns. `CommitFails` is its error; the commit may have taken effect.
A request is a `Post` (which takes the list of channels under the mutex) and an `Offer`
(which sends, without blocking, after it); both interleave with others and with a
shutdown. A `Restart` is a crash as well as an exit after a shutdown; `begun` remembers
the group's offset at that moment, so that a property can tell what earlier processes
committed from what the live one did. `SendOrDrop` and `SendOrWait` are the two ways of
sending on the channel: requests drop what does not fit, the Kafka reader waits. The
events handed on here are those `Receive` takes in `BatchFormation`, which goes further
in what may go wrong: it lets them be delivered again and in any order.

## The runs

| run | question | result |
|---|---|---|
| `formation_one` | what does one replica open, close, order and audit, what does a fault cost, and is it the abstract life? | holds |
| `formation_shared` | do two replicas close or order anything twice? | holds |
| `formation_stranded` | is every member in its batch's order? | violated |
| `execution` | replays, failures, crash, expired key, late total against one closing; is it the abstract life? | holds |
| `execution_replay` | does a replay apply a missing fill? | violated |
| `outbox` | two dispatchers, failures, one entry never accepted | holds |
| `float` | is the float what was added, is a breach reported, what does the sweep in memory settle, and when? | holds |
| `breaker` | is the breaker's state right, and does it recover? | holds |
| `eventbus` | are events handled once, in order, what is lost, and does a live process leave any behind? | holds |
| `eventbus_restart` | does the consumer survive a broker's restart? | violated |
| `funding` | are rows true of the wallet, moves bounded, the demand the window's? | holds |
| `startup` | does the record tell which tables exist, and does everyone serve? | holds |

### What the violations show

- `formation_stranded`: `OpenBatch`, then a close, then `AddMembership`. The member
  belongs to a closed batch whose order was summed without it; nothing executes it.
  Without faults this overlap is the only way: `CoveredUnlessOverlapping` proves the
  property for every behaviour in which no close sums, closes or hands over a batch
  while a consumer is between finding it and writing its total.
- `execution_replay`: `SubmitAggregate` fails after the `agg:` key is marked. A replay
  stops at the key and returns an order without a fill, against its comment.
- `eventbus_restart`: one commit fails. The reader returns, its `defer` closes the
  channel, `Consumer.Run` returns nil and nothing calls it again; the process stays up
  and healthy, and consumes nothing.

Further disagreements are visible in the models without a run of their own.

- A batch of no notional is settled while its order stays EXECUTING, with nothing failing:
  the hedger returns before `SettleOrder`, `OnFill` settles the batch all the same. A
  failed hedge does the same to any batch. `PROJECT_PLAN.md:70` has them mirror each
  other; `RecordsAgree` says that they do for a batch with a notional, but for one batch
  per fault.
- `OpenBatch` reads and inserts without isolation, so two replicas may each open a batch
  of one pair, although the consumer counts on "the currently-open batch"
  (`consumer/consumer.go:4`). `OpenPerReplica` says that it goes no further, and
  `SingleConsumerOpensOne` that one consumer opens one.
- On Postgres no float is ever settled, since Postgres refuses the sweeper's query (see
  FloatPosition above). `PROJECT_PLAN.md:88` has the fiat leg marked settled and
  `short_fiat_amount` decremented on the due date, `:94` has matured floats "swept within
  bounded latency of `settlement_due_at`". `SettlesInMemory` is therefore a promise of the
  store in memory alone; without its `~postgres` it is violated by the first fill.
- In memory a settled position keeps its amounts, so that the float does not fall there
  either, against "consistent with sum of delivered crypto minus settled fiat"
  (`PROJECT_PLAN.md:92`) and `float/tracker.go:100`. `FloatAddsUp` says what the float is in
  both stores: everything that was ever added.
- In memory the sweeper lists a matured position, a fill is added to it, the sweeper
  settles it by id: the new fill is settled days before it is due, against
  `float/tracker.go:100`. `SweptWithDue` says that this happens only along with a fill
  that is due. A position that keeps receiving fills never matures: each pushes its due
  date on (`SettlesInMemory` is about fills that come to an end).
- A breach of the maximum is counted and logged, and no more: `PROJECT_PLAN.md:93` and
  `float/tracker.go:4` add "a forced rebalance/hedge signal" through `OnBreach`, which
  `Build` does not set (`app/app.go:137`). `BreachReported` is about the report.
- `README.md:48` says that all write-side endpoints accept an idempotency key and that
  replays are safe. `POST /v1/funding-requests` takes none, and its key is made from the
  new row's id: each repetition moves funds again. `MovesBounded` bounds it.
- The rebalance loop asks at each tick for the whole shortfall, as demand does not
  shrink by a top-up, against "never hold excess beyond policy" (`funding/loop.go:16`).
- A migration may be recorded whose tables do not exist: Up has run the script, a Down
  reverts it and deletes the record, Up's own `INSERT` brings the record back. No
  start-up creates the tables again. `SchemaSound` excludes only this overlap.
- `Allow` sets `halfOpen` and never looks at it, so any number of callers probe at once,
  against `clients/retry.go:23`: `Call` in `CircuitBreaker` admits them all.
- With `ConflictOnReplay = TRUE` (a ledger that answers 409 to a key it knows)
  `Delivered` does not hold: a lost answer makes `Dispatch` refuse the entry for ever.

### Bounds

- `formation_one`: one replica, its endpoint called, two transactions of one pair, two
  batch ids, one fault. Two transactions are needed to reach the threshold and to find
  a batch that has members; two batches for a member that arrives after a close.
- `formation_shared`: two replicas, two deliveries per event, one expired key, no fault
  (crashes and failed calls are in `formation_one` and in the proofs, which have no
  bounds). Transactions, batches and replicas are interchangeable there, hence the
  symmetry; no liveness is checked in that run.
- `execution`: one batch, since chains of different batches share no row or key (the
  proofs are for any number); two workers; two replays, two faults, one expired key, one
  late total. Two faults are enough for a failed call followed by a crash, or a failed
  key check in each of two workers. Amounts 0 and 1 tell a positive notional from none.
- `outbox`: three entries, of which the first is rejected, and lists of two: a rejected
  entry at the head, one behind it and one beyond the limit.
- `float`: three fills, the second in another currency, two of them over the maximum
  together; a position for each, in any order of ids; two faults. On Postgres two fills
  of one currency race on its first row and the third on a row of its own; in memory a
  fill joins a position the sweeper has listed, or starts a new one after a settlement.
  Two faults fail a fill in each currency, or end the process twice.
- `eventbus`: five messages of which one is poison, or three posts; a channel of two; two
  faults. A process then holds three messages at most, so that five fill it and leave
  some for its successor, and the two faults allow two restarts, a failed commit and a
  restart, or a shutdown and a restart. `eventbus_restart` needs one message and one
  fault.
- `funding`: two calls, so that a request meets its own repetition, the loop or a job;
  two faults, for a failed move with a failed status update, or a crash and a repetition;
  two samples and a clock of two instants with a window of one: a sample in the window,
  at its edge, and one observed later for an earlier time; amounts within and over the
  ceiling, and a shortfall (of both samples) over it.
- `startup`: two replicas that collide on one script, two commands, of which one may
  revert while the other or a replica applies; two migrations, so that there is a state
  between them; one death. Invocations of commands are one each, so Downs end.
- `breaker`: three callers, threshold and attempts 2, six failed attempts: enough to
  open, re-open from half-open and end stale calls in either.

Deadlock is not checked where the system may stop: events, requests and faults are
bounded or not obliged to come. `breaker` checks it.

### Fairness

- `BatchFormation!Fairness`: a handler that is in the middle of a chain goes on, since
  every call returns (it has a timeout or a connection error); the ticker fires; a Redis
  TTL runs out. Arrival of events and requests, and all failures, are not assumed.
  The ticker's fairness is per replica and per step: with failures bounded, the last
  tick after them runs undisturbed.
- `AggregateExecution!FairSpec`: a worker in a chain goes on.
- `Outbox!FairSpec`: the dispatcher's ticker fires and its calls return.
- `FloatPosition!FairSpec`: time passes, and the sweeper's ticker fires and its calls
  return. No fill has to arrive or to be completed.
- `EventBus!FairSpec`: the consumer and the reader goroutine go on when they can, and
  Kafka answers. No message, request, shutdown or restart has to come, so a consumer
  that is done may stay so.
- `Funding!FairSpec`: a call that has begun goes on, since store, Redis and wallet answer
  or their timeouts fail it (the wallet's client has one of 10 s). No call has to begin.
- `Startup!FairSpec`: a process in its migrations goes on, and a replica that exited is
  started again: `main` ends with `log.Fatalf`, which leaves that to the platform.
- `CircuitBreaker!FairSpec`: time passes, calls end, and there is traffic: callers keep
  calling. The last is an assumption on the environment: a breaker nobody calls
  stays open, as `Allow` is the only place that looks at the time.

## The proofs

Every theorem is for all values of the constants that satisfy the modules' assumptions.
Every invariant and action property of the runs that hold is the subject of one.

`BatchFormation_proofs`

- `TypeCorrect`; from it `ClosedOnce`: a closer about to hand over holds a closed batch
  that was not handed over, and no two hold the same (`CloseOnceInv`). `NoDoubleClose`
  alone does not say that the one hand-over still to come is the only one.
- `OrderedOnce`: every set of transactions that may reach an order (a stored total, a sum
  read and not yet written, an order) is a subset of the members of its batch
  (`SumInv`), and memberships never move, so two orders are disjoint.
- `OpensPerReplica`: the open batches of a pair, and the replicas about to insert one,
  are together no more than the replicas (`OpenInv`): a consumer comes to `"insert"` only
  when it has seen none. It needs that the replicas are finitely many
  (`ReplicaAssumption`). `SingleConsumerOpensOne` is its case of one replica, stated as
  `OneOpenPerPair`; the hypothesis `OneConsumer` is part of that theorem, since two
  replicas do break it.
- `ImplementsLifecycle`: only three steps touch what the abstract life sees. That the
  hand-over finds its batch closed and without an order is `CloseOnceInv`.
- `EventsKept` and `OpeningsAudited`, from `KnownInv`: a `tx:` key was set for an event
  that was received, an idle consumer holds none, a consumer past `AddMembership` has
  made its event a member, and one at `"add"` knows a member of its batch. The two
  properties say nothing of where a consumer is, which is what decides whether an event
  that is skipped for its key is stored or being stored. A step that is no fault then
  loses nothing, and a fault stops one consumer, so that it loses one (`LostCases`,
  `UnauditedCases`).
- `CoveredUnlessOverlapping`: a member of a closed batch is in every sum a close has read
  and in the total stored with it (`CoverInv`), as long as nothing fails and `NoOverlap`
  holds, which is a hypothesis on the behaviour and not on the constants.

`AggregateExecution_proofs`

- `TypeCorrect`, then `AppliedOnce`, in two halves. For a batch whose key is not lost, an
  unmarked key means nothing was done, and between the key check and the last effect at
  most one worker is in that stretch: one invariant for `agg:` (`Executions`), one for
  `hedge:` (`Hedges`). For all others effects are counted (`Bounded`): those done, the
  workers past the key check that are still heading for one, and one more if the key is
  free, are together no more than one and the keys that ran out and the faults.
- `Sound` relates rows to workers: the statuses that the batch and order rows may have
  together, and what a worker at each call may rely on. `PersistedBeforeActing`
  and `ImplementsLifecycle` follow from it.
- `RecordsKept`: there is a set of batches, at most one per fault, outside of which all is
  on record or about to be, and a batch whose hedge is claimed has its order persisted, and
  settled or with a worker about to settle it (`RecordsInv`). A bound on the batches that
  are off the record now would not be inductive: a fault may only show in the records
  later, when the fault itself is long past.
- `AskedAsOrdered`: a worker that started with the close holds the notional on the order
  row until it submits it; a replay may hold a newer one, and then spoils one batch. The
  invariant is again about a set of batches, at most one per replay (`AskedInv`).

`Outbox_proofs`

- `TypeCorrect`, which needs that a non-empty set of ids has a least element: `FirstOf`
  of pending rows is not empty.
- `EmittedOnlyDelivered`: a dispatcher at `"audit"` works on a posted entry, one at
  `"mark"` on an audited one.
- `PostedSeldom`: the postings of an entry are counted by the dispatchers whose current
  list is past it, and by the faults (`OncePerLoop`).

`FloatPosition_proofs`

- `TypeCorrect` and `FloatIsAddedUp` from one invariant (`FloatInv`): a position contains
  only fills of its currency that were added, every added fill is in a position, and a
  fill that was added is past `AddFloat`. The last part is what keeps `AddFloat` from
  counting a fill twice; `FloatAddsUp` alone says nothing of where a fill is in its chain.
- `BreachesReported`: with the float equal to what was added, only `AddFloat` raises it,
  and its caller is then about to check. What is over the maximum and not reported is a
  fault's doing, and a fault has one fill and so one currency; a crash empties the store.
- `EarlyOnlyWithDue` (in memory): a position on the sweeper's list is not settled yet and
  still contains a fill that is due, since positions lose no fills but in a crash; and a
  position that is not settled has no fill that was swept before (`ListInv`).

`CircuitBreaker_proofs`

- `TypeCorrect`; `BreakerCorrect` and `HalfOpenIsProbed`, whose invariants are inductive
  together only.

`EventBus_proofs`

- `TypeCorrect`, then `InOrder`. What was handled says nothing about what will be, so the
  invariant is about the flow: `delivered` followed by what is in the channel. Each
  event of the flow may follow all before it, and is committed and older than the one
  the reader holds (or answered 202). `Take` leaves the flow as it is, a send
  appends to it and a restart cuts it back to `delivered`.
- `LossIsBounded`: what is committed and held by nobody is at most a channel and a reader
  for each process that ended, and one event more if the reader of this one did
  (`LossInv`). The bound counts a set, so its lemmas are about cardinalities.

`Funding_proofs`

- `TypeCorrect`; `ProjectsWindow`: samples are of now or earlier, and none is missing from
  `kept` that is in the window (`WindowInv`).
- `RecordsMatch`: at each place of the chain, what is on record, what is in the outbox
  and what the wallet did (`Place`, `Matches`). A call disturbs its own part only.
- `MovesAreBounded`: the attempts of a request that ended in an error are no more than the
  faults, and at most one attempt did not (`RepeatInv`).

`Startup_proofs`

- `TypeCorrect`; `SchemaIsSound`: as long as no Up and Down overlap, everybody under way
  has one direction, an Up leaves the migrations below its own in place and a Down has
  taken away those above, so the tables are a prefix and the record equals them.

Only model-checked: `DueCloses`, `ClosedSettles`, `Delivered`, `SettlesInMemory`, `Recovers`,
`Consumed`, `Resolves` and `AllServe`. They are liveness under fairness, and that and
ENABLED are beyond the prover used.

## Not modelled

- Read-only endpoints, JSON and routing (`api`), metrics and tracing: no state.
- `store/memstore`, but for its floats: the DEV_MODE store of a single process. Every
  operation is atomic under a mutex, `OpenBatch` included, so most of its behaviours are
  among those modelled. One is not: its `CreateFunding` (`store/memstore/memstore.go:313`)
  hands out its own row, so that the endpoint answers with the status after the move;
  Postgres answers PENDING.
- A Postgres that somebody gave `uuid-ossp` by hand: its sweep would work, and its
  `SettleFloat` zero the amounts.
- Configuration: read once; its values are the constants of the models.
- Venue routes, prices, slippage: data that no decision depends on.
- The sub-chains of a ledger posting inside ledger-accounting and the audit broker.

## Plan

What would come next, each with its configuration, mutants and proofs.

1. Compose `FloatPosition` with `AggregateExecution`: the fills are those `OnFill`
   makes, so that a batch's amount is in the float as often as it was executed.
2. Compose `EventBus` with `BatchFormation`: `Receive` takes what the bus hands on, so
   that the loss the bus allows and the duplicates the consumer expects meet.
3. `memstore` as a second reading of the table operations of `Funding` and
   `BatchFormation`, as `FloatPosition` has it, against the same properties.
