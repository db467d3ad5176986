---------------------------- MODULE BatchFormation ----------------------------
(***************************************************************************)
(* Batch formation: the event consumer (internal/consumer), which turns    *)
(* completion events into memberships, racing the batch scheduler and the  *)
(* manual-close endpoint (internal/batch, internal/api), which close       *)
(* batches and hand them to the aggregate executor.                        *)
(*                                                                         *)
(* Several replicas of the service may share one Postgres and one Redis.   *)
(* Every store or Redis call is one atomic step and what a thread keeps    *)
(* between two calls is in its frame, so the interleavings are those of    *)
(* the calls.                                                              *)
(*                                                                         *)
(* An amount is abstracted to the SET of transactions whose amounts it     *)
(* sums: SumNotional of a batch is the set of its members.                 *)
(***************************************************************************)
EXTENDS Naturals, FiniteSets

CONSTANTS
    Replica,           \* instances of the service
    Served,            \* bound: the replicas whose close endpoint is called,
                       \* by one request at a time
    Tx,                \* well-formed completion events, by tx_id
    Pair,              \* asset pairs
    PairOf,            \* the pair of each transaction
    BatchId,           \* the ids OpenBatch may generate
    ReachesThreshold,  \* the sums at or above the size threshold
    MaxDeliveries,     \* bound: how often one event is delivered
    MaxExpiries,       \* bound: how many tx keys expire
    MaxFaults,         \* bound: failed calls and crashes
    None

ASSUME ReplicaAssumption == IsFiniteSet(Replica) /\ Served \subseteq Replica
ASSUME PairOfAssumption == PairOf \in [Tx -> Pair]
\* Amounts are not negative, so a sum that has reached the threshold stays there.
ASSUME ThresholdAssumption ==
    /\ ReachesThreshold \subseteq SUBSET Tx
    /\ \A S \in ReachesThreshold, T \in SUBSET Tx : S \subseteq T => T \in ReachesThreshold
ASSUME BoundsAssumption ==
    MaxDeliveries \in Nat /\ MaxExpiries \in Nat /\ MaxFaults \in Nat
ASSUME NoneAssumption == None \notin Tx \cup Pair \cup BatchId

VARIABLES
    status,      \* batches.status: "NONE" before the row exists; "CLOSED" and
                 \* everything after it are one state here
    pair,        \* batches.asset_pair
    notional,    \* batches.notional_usd
    aged,        \* batches whose interval has elapsed since opened_at
    member,      \* batch_memberships: the batch of each tx, unique on tx_id
    order,       \* aggregate_orders: the notional the order was created with
    ordered,     \* batches that have an aggregate order
    opened,      \* batches whose batch.open entry is in the outbox
    txKey,       \* live "tx:" idempotency keys
    cadence,     \* live "cadence:" keys, by pair
    frame,       \* the consumer goroutine of each replica
    closing,     \* the ticker and the close request of each replica
    deliveries,  \* how often each event was received
    handovers,   \* how often OnClose ran for each batch
    expiries, faults            \* used-up bounds

batchVars == <<status, pair, notional, aged>>
orderVars == <<order, ordered, handovers>>
keyVars   == <<txKey, cadence, expiries>>
vars == <<batchVars, member, orderVars, opened, keyVars, frame, closing, deliveries, faults>>

\* A replica closes batches from its scheduler loop and from the HTTP endpoint.
Closer == ({"tick"} \X Replica) \cup ({"api"} \X Served)

NoFrame == [pc |-> "idle", tx |-> None, batch |-> None, sum |-> {}]
NoClose == [pc |-> "idle", todo |-> {}, batch |-> None, sum |-> {}]

Members(b) == {t \in Tx : member[t] = b}
Open == {b \in BatchId : status[b] = "OPEN"}

Init ==
    /\ status = [b \in BatchId |-> "NONE"]
    /\ pair = [b \in BatchId |-> None]
    /\ notional = [b \in BatchId |-> {}]
    /\ aged = {}
    /\ member = [t \in Tx |-> None]
    /\ order = [b \in BatchId |-> {}]
    /\ ordered = {}
    /\ opened = {}
    /\ txKey = {}
    /\ cadence = {}
    /\ frame = [r \in Replica |-> NoFrame]
    /\ closing = [c \in Closer |-> NoClose]
    /\ deliveries = [t \in Tx |-> 0]
    /\ handovers = [b \in BatchId |-> 0]
    /\ expiries = 0
    /\ faults = 0

-------------------------------------------------------------------------------
(* The consumer: handle, one step per store call.                          *)

\* The open batches OpenBatch would reuse for a pair.
NeverReuses(p) == {}
OpenFor(p) == {b \in Open : pair[b] = p}

\* isNew: no membership is listed for the batch yet.
ListedAfterAdd(b) == Cardinality(Members(b)) = 1
IsNew(b) == Members(b) = {}

\* AddMembership inserts unless tx_id is taken: ON CONFLICT (tx_id) DO NOTHING.
Overwrites(t, b) == TRUE
OnlyIntoOpen(t, b) == member[t] = None /\ status[b] = "OPEN"
Inserts(t, b) == member[t] = None

\* The sum the consumer stores as the batch's rolling total.
RunningTotal(b) == Members(b)

At(r, here) == frame[r].pc = here
Goto(r, there) == frame' = [frame EXCEPT ![r].pc = there]
Finish(r) == frame' = [frame EXCEPT ![r] = NoFrame]

\* An event arrives on the subscription channel (again, if it is a replay);
\* CheckAndMark("tx:") drops it when its key is live.
Receive(r, t) ==
    /\ At(r, "idle")
    /\ deliveries[t] < MaxDeliveries
    /\ deliveries' = [deliveries EXCEPT ![t] = @ + 1]
    /\ txKey' = txKey \cup {t}
    /\ frame' = IF t \in txKey THEN frame
                ELSE [frame EXCEPT ![r] = [NoFrame EXCEPT !.pc = "exists", !.tx = t]]
    /\ UNCHANGED <<batchVars, member, orderVars, opened, cadence, expiries, closing, faults>>

\* CheckAndMark fails: the event is dropped, although its key may have been marked.
ReceiveFails(r, t) ==
    /\ At(r, "idle")
    /\ deliveries[t] < MaxDeliveries /\ faults < MaxFaults
    /\ deliveries' = [deliveries EXCEPT ![t] = @ + 1]
    /\ faults' = faults + 1
    /\ txKey' \in {txKey, txKey \cup {t}}
    /\ UNCHANGED <<batchVars, member, orderVars, opened, cadence, expiries, frame, closing>>

\* ExistsByTxID, the dedupe that survives the key.
CheckExists(r) ==
    /\ At(r, "exists")
    /\ IF member[frame[r].tx] = None THEN Goto(r, "open") ELSE Finish(r)
    /\ UNCHANGED <<batchVars, member, orderVars, opened, keyVars, closing, deliveries, faults>>

\* OpenBatch, its SELECT ... WHERE status='OPEN' LIMIT 1.
FindOpen(r) ==
    LET found == OpenFor(PairOf[frame[r].tx]) IN
    /\ At(r, "open")
    /\ \/ found = {} /\ Goto(r, "insert")
       \/ \E b \in found : frame' = [frame EXCEPT ![r].pc = "list", ![r].batch = b]
    /\ UNCHANGED <<batchVars, member, orderVars, opened, keyVars, closing, deliveries, faults>>

\* OpenBatch, its INSERT; nothing in the schema keeps two OPEN rows apart.
InsertRow(r, b) ==
    /\ At(r, "insert") /\ status[b] = "NONE"
    /\ status' = [status EXCEPT ![b] = "OPEN"]
    /\ pair' = [pair EXCEPT ![b] = PairOf[frame[r].tx]]

InsertBatch(r) ==
    /\ \E b \in BatchId :
        InsertRow(r, b) /\ frame' = [frame EXCEPT ![r].pc = "list", ![r].batch = b]
    /\ UNCHANGED <<notional, aged, member, orderVars, opened, keyVars, closing, deliveries, faults>>

\* ListMemberships decides whether OnBatchOpen will run after the insert.
ListMembers(r) ==
    /\ At(r, "list")
    /\ Goto(r, IF IsNew(frame[r].batch) THEN "addFirst" ELSE "add")
    /\ UNCHANGED <<batchVars, member, orderVars, opened, keyVars, closing, deliveries, faults>>

\* AddMembership, whatever became of the batch since FindOpen.
Join(t, b) == member' = IF Inserts(t, b) THEN [member EXCEPT ![t] = b] ELSE member
AddMember(r) ==
    /\ \/ At(r, "addFirst") /\ Goto(r, "emit")
       \/ At(r, "add") /\ Goto(r, "sum")
    /\ Join(frame[r].tx, frame[r].batch)
    /\ UNCHANGED <<batchVars, orderVars, opened, keyVars, closing, deliveries, faults>>

\* OnBatchOpen: append batch.open, deduplicated by the outbox on the batch id.
EmitOpen(r) ==
    /\ At(r, "emit") /\ Goto(r, "sum")
    /\ opened' = opened \cup {frame[r].batch}
    /\ UNCHANGED <<batchVars, member, orderVars, keyVars, closing, deliveries, faults>>

ReadTotal(r) ==
    /\ At(r, "sum")
    /\ frame' = [frame EXCEPT ![r].pc = "set", ![r].sum = RunningTotal(frame[r].batch)]
    /\ UNCHANGED <<batchVars, member, orderVars, opened, keyVars, closing, deliveries, faults>>

\* SetBatchNotional: an unconditional UPDATE by id, whatever the batch's status.
WriteTotal(r) ==
    /\ At(r, "set") /\ Finish(r)
    /\ notional' = [notional EXCEPT ![frame[r].batch] = frame[r].sum]
    /\ UNCHANGED <<status, pair, aged, member, orderVars, opened, keyVars, closing,
                   deliveries, faults>>

\* A call fails. Where the handler returns on the error the event is dropped with
\* its key marked; a failed ListMemberships, OnBatchOpen or SumNotional is ignored.
ConsumerFails(r) ==
    /\ faults < MaxFaults
    /\ faults' = faults + 1
    /\ \/ frame[r].pc \in {"exists", "open", "insert", "addFirst", "add", "set"} /\ Finish(r)
       \/ At(r, "list") /\ Goto(r, "addFirst")
       \/ At(r, "emit") /\ Goto(r, "sum")
       \/ At(r, "sum") /\ Goto(r, "set")
    /\ UNCHANGED <<batchVars, member, orderVars, opened, keyVars, closing, deliveries>>

\* The same with a write that took effect before it failed (its answer is lost, or that
\* of the COMMIT). For OnBatchOpen and SetBatchNotional that is as good as an answer.
ConsumerUnanswered(r) ==
    /\ faults < MaxFaults
    /\ faults' = faults + 1
    /\ Finish(r)
    /\ \/ \E b \in BatchId : InsertRow(r, b) /\ UNCHANGED member
       \/ /\ frame[r].pc \in {"addFirst", "add"}
          /\ Join(frame[r].tx, frame[r].batch) /\ UNCHANGED <<status, pair>>
    /\ UNCHANGED <<notional, aged, orderVars, opened, keyVars, closing, deliveries>>

-------------------------------------------------------------------------------
(* The closers: Scheduler.tick and CloseBatch, one step per call.          *)

\* shouldClose: the interval has elapsed or the sum has reached the threshold.
SizeOnly(b) == Members(b) \in ReachesThreshold
Due(b) == b \in aged \/ Members(b) \in ReachesThreshold

\* The status test UpdateBatchStatus makes under the row lock.
Unchecked(b) == TRUE
StillOpen(b) == status[b] = "OPEN"

ClosingAt(c, here) == closing[c].pc = here
CloseGoto(c, there) == closing' = [closing EXCEPT ![c].pc = there]

\* The close is over: the tick goes on with its list, the request ends.
AlwaysScans(c) == [closing[c] EXCEPT !.pc = "scan", !.batch = None, !.sum = {}]
AfterClose(c) ==
    IF c[1] = "tick" THEN [closing[c] EXCEPT !.pc = "scan", !.batch = None, !.sum = {}]
    ELSE NoClose
CloseReturns(c) == closing' = [closing EXCEPT ![c] = AfterClose(c)]

\* ListOpenBatches, a snapshot; a tick that finds no batch changes nothing.
StartTick(r) ==
    LET c == <<"tick", r>> IN
    /\ ClosingAt(c, "idle")
    /\ Open # {}
    /\ closing' = [closing EXCEPT ![c].pc = "scan", ![c].todo = Open]
    /\ UNCHANGED <<batchVars, member, orderVars, opened, keyVars, frame, deliveries, faults>>

\* shouldClose on the next batch of the snapshot.
Scan(c) ==
    /\ ClosingAt(c, "scan")
    /\ \E b \in closing[c].todo :
        LET rest == closing[c].todo \ {b} IN
        closing' = [closing EXCEPT ![c] =
            IF Due(b) THEN [pc |-> "lock", todo |-> rest, batch |-> b, sum |-> {}]
            ELSE [pc |-> "scan", todo |-> rest, batch |-> None, sum |-> {}]]
    /\ UNCHANGED <<batchVars, member, orderVars, opened, keyVars, frame, deliveries, faults>>

EndTick(c) ==
    /\ ClosingAt(c, "scan")
    /\ closing[c].todo = {}
    /\ closing' = [closing EXCEPT ![c] = NoClose]
    /\ UNCHANGED <<batchVars, member, orderVars, opened, keyVars, frame, deliveries, faults>>

\* CadenceLock.Acquire: SET NX with a TTL; nothing ever releases it.
Acquire(c) ==
    LET p == pair[closing[c].batch] IN
    /\ ClosingAt(c, "lock")
    /\ IF p \in cadence THEN CloseReturns(c) ELSE CloseGoto(c, "get")
    /\ cadence' = cadence \cup {p}
    /\ UNCHANGED <<batchVars, member, orderVars, opened, txKey, expiries, frame,
                   deliveries, faults>>

\* POST /v1/batches/:id/close, which takes no lock.
RequestClose(r, b) ==
    LET c == <<"api", r>> IN
    /\ ClosingAt(c, "idle")
    /\ status[b] # "NONE"
    /\ closing' = [closing EXCEPT ![c].pc = "get", ![c].batch = b]
    /\ UNCHANGED <<batchVars, member, orderVars, opened, keyVars, frame, deliveries, faults>>

\* close: GetBatch, ErrNotOpen unless the batch is open.
CheckOpen(c) ==
    /\ ClosingAt(c, "get")
    /\ IF status[closing[c].batch] = "OPEN" THEN CloseGoto(c, "sum") ELSE CloseReturns(c)
    /\ UNCHANGED <<batchVars, member, orderVars, opened, keyVars, frame, deliveries, faults>>

\* OnClose runs after the compare-and-set, and only if that succeeded.
HandsOverFirst == "handover"
AfterSum == "cas"

SumForClose(c) ==
    /\ ClosingAt(c, "sum")
    /\ closing' = [closing EXCEPT ![c].pc = AfterSum, ![c].sum = Members(closing[c].batch)]
    /\ UNCHANGED <<batchVars, member, orderVars, opened, keyVars, frame, deliveries, faults>>

\* UpdateBatchStatus OPEN -> CLOSED; its mutator stores the sum read one step earlier.
CloseRow(c) ==
    LET b == closing[c].batch IN
    /\ StillOpen(b)
    /\ status' = [status EXCEPT ![b] = "CLOSED"]
    /\ notional' = [notional EXCEPT ![b] = closing[c].sum]

CasClosed(c) ==
    LET b == closing[c].batch IN
    /\ ClosingAt(c, "cas")
    /\ \/ CloseRow(c) /\ CloseGoto(c, "handover")
       \/ /\ ~StillOpen(b)
          /\ CloseReturns(c)
          /\ UNCHANGED <<status, notional>>
    /\ UNCHANGED <<pair, aged, member, orderVars, opened, keyVars, frame, deliveries, faults>>

\* OnClose up to the order row: SubmitBatch reads the batch again and creates the
\* order with the notional it finds (ON CONFLICT (batch_id) DO NOTHING).
HandOver(c) ==
    LET b == closing[c].batch IN
    /\ ClosingAt(c, "handover")
    /\ CloseReturns(c)
    /\ handovers' = [handovers EXCEPT ![b] = @ + 1]
    /\ ordered' = ordered \cup {b}
    /\ order' = IF b \in ordered THEN order ELSE [order EXCEPT ![b] = notional[b]]
    /\ UNCHANGED <<batchVars, member, opened, keyVars, frame, deliveries, faults>>

\* A call fails: every error ends the close except that of SumNotional, whose
\* zero result is used (by shouldClose too, which then only looks at the age).
CloserFails(c) ==
    /\ faults < MaxFaults
    /\ faults' = faults + 1
    /\ \/ closing[c].pc \in {"lock", "get", "cas", "handover"} /\ CloseReturns(c)
       \/ ClosingAt(c, "sum") /\ CloseGoto(c, AfterSum)
       \/ /\ ClosingAt(c, "scan")
          /\ \E b \in closing[c].todo \ aged : closing' = [closing EXCEPT ![c].todo = @ \ {b}]
    /\ UNCHANGED <<batchVars, member, orderVars, opened, keyVars, frame, deliveries>>

\* The same with the lock taken, or the batch closed: then nobody calls OnClose for it.
CloserUnanswered(c) ==
    /\ faults < MaxFaults
    /\ faults' = faults + 1
    /\ CloseReturns(c)
    /\ \/ /\ ClosingAt(c, "lock")
          /\ cadence' = cadence \cup {pair[closing[c].batch]}
          /\ UNCHANGED <<status, notional>>
       \/ ClosingAt(c, "cas") /\ CloseRow(c) /\ UNCHANGED cadence
    /\ UNCHANGED <<pair, aged, member, orderVars, opened, txKey, expiries, frame, deliveries>>

-------------------------------------------------------------------------------
(* The environment: time, Redis TTLs, crashes.                             *)

Age(b) ==
    /\ status[b] = "OPEN" /\ b \notin aged
    /\ aged' = aged \cup {b}
    /\ UNCHANGED <<status, pair, notional, member, orderVars, opened, keyVars, frame,
                   closing, deliveries, faults>>

CadenceExpires(p) ==
    /\ p \in cadence
    /\ cadence' = cadence \ {p}
    /\ UNCHANGED <<batchVars, member, orderVars, opened, txKey, expiries, frame, closing,
                   deliveries, faults>>

\* The 24h TTL, or the loss of a MemStore with its process.
KeyExpires(t) ==
    /\ t \in txKey /\ expiries < MaxExpiries
    /\ expiries' = expiries + 1
    /\ txKey' = txKey \ {t}
    /\ UNCHANGED <<batchVars, member, orderVars, opened, cadence, frame, closing,
                   deliveries, faults>>

\* A replica dies and is restarted: its threads forget what they were doing, and
\* nothing at start-up looks for work left half done.
Crash(r) ==
    /\ faults < MaxFaults
    /\ faults' = faults + 1
    /\ Finish(r)
    /\ closing' = [c \in Closer |-> IF c[2] = r THEN NoClose ELSE closing[c]]
    /\ UNCHANGED <<batchVars, member, orderVars, opened, keyVars, deliveries>>

-------------------------------------------------------------------------------

Handle(r) ==
    \/ CheckExists(r) \/ FindOpen(r) \/ InsertBatch(r) \/ ListMembers(r)
    \/ AddMember(r) \/ EmitOpen(r) \/ ReadTotal(r) \/ WriteTotal(r)

CloseStep(c) ==
    \/ Scan(c) \/ EndTick(c) \/ Acquire(c) \/ CheckOpen(c) \/ SumForClose(c)
    \/ CasClosed(c) \/ HandOver(c)

Next ==
    \/ \E r \in Replica, t \in Tx : Receive(r, t) \/ ReceiveFails(r, t)
    \/ \E r \in Replica :
        Handle(r) \/ ConsumerFails(r) \/ ConsumerUnanswered(r) \/ StartTick(r) \/ Crash(r)
    \/ \E r \in Served, b \in BatchId : RequestClose(r, b)
    \/ \E c \in Closer : CloseStep(c) \/ CloserFails(c) \/ CloserUnanswered(c)
    \/ \E b \in BatchId : Age(b)
    \/ \E p \in Pair : CadenceExpires(p)
    \/ \E t \in Tx : KeyExpires(t)

Spec == Init /\ [][Next]_vars

\* Goroutines in the middle of a handler go on, the ticker keeps firing and a Redis
\* TTL runs out. Nothing is assumed of the arrival of events or requests, nor of faults.
Fairness ==
    /\ \A r \in Replica : WF_vars(Handle(r)) /\ WF_vars(StartTick(r))
    /\ \A c \in Closer : WF_vars(CloseStep(c))
    /\ \A p \in Pair : WF_vars(CadenceExpires(p))

FairSpec == Spec /\ Fairness

-------------------------------------------------------------------------------
(* Correctness.                                                            *)

FrameType ==
    [pc : {"idle", "exists", "open", "insert", "list", "addFirst", "add", "emit", "sum", "set"},
     tx : Tx \cup {None}, batch : BatchId \cup {None}, sum : SUBSET Tx]
ClosingType ==
    [pc : {"idle", "scan", "lock", "get", "sum", "cas", "handover"},
     todo : SUBSET BatchId, batch : BatchId \cup {None}, sum : SUBSET Tx]

StoreTypeOK ==
    /\ status \in [BatchId -> {"NONE", "OPEN", "CLOSED"}]
    /\ pair \in [BatchId -> Pair \cup {None}]
    /\ \A b \in BatchId : status[b] # "NONE" => pair[b] \in Pair
    /\ notional \in [BatchId -> SUBSET Tx]
    /\ aged \subseteq BatchId
    /\ member \in [Tx -> BatchId \cup {None}]
    /\ order \in [BatchId -> SUBSET Tx]
    /\ ordered \subseteq BatchId
    /\ handovers \in [BatchId -> Nat]
    /\ opened \subseteq BatchId
    /\ txKey \subseteq Tx
    /\ cadence \subseteq Pair
    /\ deliveries \in [Tx -> Nat]
    /\ expiries \in Nat
    /\ faults \in Nat

FrameTypeOK ==
    /\ frame \in [Replica -> FrameType]
    /\ \A r \in Replica : ~At(r, "idle") =>
        /\ frame[r].tx \in Tx
        /\ frame[r].pc \notin {"exists", "open", "insert"} => frame[r].batch \in BatchId

ClosingTypeOK ==
    /\ closing \in [Closer -> ClosingType]
    /\ \A c \in Closer :
        /\ closing[c].pc \notin {"idle", "scan"} =>
              closing[c].batch \in BatchId /\ status[closing[c].batch] # "NONE"
        /\ \A b \in closing[c].todo : status[b] # "NONE"
    /\ \A r \in Served : closing[<<"api", r>>].pc \notin {"scan", "lock"}

\* Type correctness: a handler works on a transaction, and from "list" on it has a
\* batch; a close has an existing batch; a request never runs a tick's steps.
TypeOK == StoreTypeOK /\ FrameTypeOK /\ ClosingTypeOK

\* However many replicas tick and however early the cadence key expires, a batch
\* is closed and handed to the executor at most once (UpdateBatchStatus is a CAS).
NoDoubleClose == \A b \in BatchId : handovers[b] <= 1

\* No transaction's amount is in two aggregate orders, across replays, key
\* expiry, stale totals and late writes of SetBatchNotional.
NoTxOrderedTwice ==
    \A b, d \in ordered : b # d => order[b] \cap order[d] = {}

\* OpenBatch reuses the open batch of a pair; its SELECT and INSERT are not isolated, so
\* each replica may open one, but no more: "one OPEN batch per pair" holds for one consumer.
OpenPerReplica ==
    \A p \in Pair : Cardinality({b \in Open : pair[b] = p}) <= Cardinality(Replica)
OneOpenPerPair == \A b, d \in Open : pair[b] = pair[d] => b = d

\* An event that was received is a membership or is being made one, although its key is
\* marked before anything is stored, but for one event per fault.
Handling(t) == \E r \in Replica : frame[r].tx = t
Lost == {t \in Tx : deliveries[t] > 0 /\ member[t] = None /\ ~Handling(t)}
LossPerFault == Cardinality(Lost) <= faults

\* A batch with members has its batch.open audit entry or is about to, but for one batch
\* per fault: the first member always finds isNew, even among late joiners.
Emitting(b) == \E r \in Replica : At(r, "emit") /\ frame[r].batch = b
Unaudited == {b \in BatchId : Members(b) # {} /\ b \notin opened /\ ~Emitting(b)}
OpenAudited == Cardinality(Unaudited) <= faults

\* A batch past its interval is eventually closed, although the cadence key is
\* never released and a tick may die holding it.
DueCloses == \A b \in BatchId : (b \in aged /\ status[b] = "OPEN") ~> status[b] = "CLOSED"

\* Every member of a batch is in the batch's aggregate order, once the order
\* exists and the consumer is done with the member.
OrderCoversMembers ==
    faults = 0 => \A t \in Tx :
        member[t] \in ordered => t \in order[member[t]] \/ Handling(t)

-------------------------------------------------------------------------------
\* This module sees a batch until its order row exists: neither fills nor settlements.
Lifecycle == INSTANCE BatchLifecycle WITH
    Batch <- BatchId, Notional <- SUBSET Tx,
    order <- [b \in BatchId |-> IF b \in ordered THEN {order[b]} ELSE {}],
    filled <- {}, settledOrder <- {}

\* However consumers, tickers, requests and crashes interleave, a batch opens, closes
\* and gets one order, of one notional, in that order.
LifecyclePromise == Lifecycle!Spec
===============================================================================
