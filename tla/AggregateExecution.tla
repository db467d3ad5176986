-------------------------- MODULE AggregateExecution --------------------------
(***************************************************************************)
(* What happens to a batch once it is closed: OnClose (internal/app) runs  *)
(* Executor.SubmitBatch (internal/aggregate), whose OnFill adjusts the     *)
(* float (internal/float), hedges (internal/hedge) and settles the batch.  *)
(*                                                                         *)
(* A worker is a goroutine in the middle of such a chain.  Every store,    *)
(* Redis or HTTP call is one step; a call that fails may still have taken  *)
(* effect (its response is lost, or the SELECT after its UPDATE fails).    *)
(* Retries inside a resilient client are part of its one call: they reuse  *)
(* the idempotency key.                                                    *)
(***************************************************************************)
EXTENDS Naturals, FiniteSets

CONSTANTS
    Worker,         \* goroutines running OnClose or SubmitBatch
    Batch,
    Amount,         \* USD amounts a batch may sum to, 0 included
    Bound,          \* how often each of Budget happens
    None

\* What is bounded: calls of SubmitBatch other than OnClose's, late writes of a
\* batch's notional, idempotency keys that run out, failed calls and crashes.
Budget == {"resubmit", "total", "expiry", "fault"}

ASSUME AmountAssumption == Amount \subseteq Nat /\ 0 \in Amount
ASSUME BoundAssumption == Bound \in [Budget -> Nat]
ASSUME NoneAssumption == None \notin Batch

VARIABLES
    status,      \* batches.status
    notional,    \* batches.notional_usd
    order,       \* aggregate_orders, one row per batch: status, notional, fill
    outbox,      \* outbox entries, as event and batch (the dedup key)
    keys,        \* live idempotency keys, as kind and batch
    lost,        \* the keys that ran out or whose check failed
    placed,      \* SubmitAggregate calls that reached liquidity-routing
    asked,       \* the amounts they asked for
    floated,     \* times the order's notional was added to the float
    hedged,      \* SubmitExposure calls that reached fx-hedging
    pc, job, seen,              \* per worker: next call, batch, notional read
    used         \* the used-up part of Bound

dbVars     == <<status, order, outbox, floated>>
keyVars    == <<keys, lost>>
outside    == <<placed, asked, hedged>>
workerVars == <<pc, job, seen>>
vars == <<dbVars, notional, keyVars, outside, workerVars, used>>

NoOrder == [status |-> "NONE", notional |-> 0, filled |-> FALSE]
Key(kind, b) == <<kind, b>>

Init ==
    /\ status = [b \in Batch |-> "OPEN"]
    /\ notional \in [Batch -> Amount]
    /\ order = [b \in Batch |-> NoOrder]
    /\ outbox = {}
    /\ keys = {}
    /\ lost = {}
    /\ placed = [b \in Batch |-> 0]
    /\ asked = [b \in Batch |-> {}]
    /\ floated = [b \in Batch |-> 0]
    /\ hedged = [b \in Batch |-> 0]
    /\ pc = [w \in Worker |-> "idle"]
    /\ job = [w \in Worker |-> None]
    /\ seen = [w \in Worker |-> 0]
    /\ used = [x \in Budget |-> 0]

Use(x) == used[x] < Bound[x] /\ used' = [used EXCEPT ![x] = @ + 1]

At(w, here) == pc[w] = here
Goto(w, there) == pc' = [pc EXCEPT ![w] = there] /\ UNCHANGED <<job, seen>>
Finish(w) ==
    /\ pc' = [pc EXCEPT ![w] = "idle"]
    /\ job' = [job EXCEPT ![w] = None]
    /\ seen' = [seen EXCEPT ![w] = 0]

-------------------------------------------------------------------------------
(* The effects of the store calls on the database.                         *)

\* Outbox.Append: the dedup key is the event and the batch.
OncePerBatch(event, b) == IF \E e \in outbox : e[2] = b THEN {} ELSE {<<event, b>>}
Appended(event, b) == {<<event, b>>}
Append(event, b) ==
    outbox' = outbox \cup Appended(event, b) /\ UNCHANGED <<status, order, floated>>

\* UpdateBatchStatus compares the status under the row lock before it sets it.
AnyStatus(b, from) == TRUE
MayMove(b, from) == status[b] = from
MoveBatch(b, from, to) ==
    /\ status' = IF MayMove(b, from) THEN [status EXCEPT ![b] = to] ELSE status
    /\ UNCHANGED <<order, outbox, floated>>

\* CreateOrder: ON CONFLICT (batch_id) DO NOTHING.
ReplacesOrder(b) == TRUE
IsNewOrder(b) == order[b].status = "NONE"
CopiesBatchStatus(b) == status[b]
FirstOrderStatus(b) == "EXECUTING"
CreateRow(b, amount) ==
    LET row == [status |-> FirstOrderStatus(b), notional |-> amount, filled |-> FALSE] IN
    /\ order' = IF IsNewOrder(b) THEN [order EXCEPT ![b] = row] ELSE order
    /\ UNCHANGED <<status, outbox, floated>>

\* UpdateOrderFill and SettleOrder; neither looks at the order's status.
FillRow(b) == order' = [order EXCEPT ![b].filled = TRUE] /\ UNCHANGED <<status, outbox, floated>>
SettleRow(b) ==
    order' = [order EXCEPT ![b].status = "SETTLED"] /\ UNCHANGED <<status, outbox, floated>>

\* AddFloat accumulates: it does not know which batches it has seen.
AddToFloat(b) ==
    floated' = [floated EXCEPT ![b] = @ + 1] /\ UNCHANGED <<status, order, outbox>>

-------------------------------------------------------------------------------
(* OnClose and SubmitBatch.                                                *)

\* The scheduler's compare-and-set OPEN -> CLOSED, which calls OnClose once.
CloseBatch(w, b) ==
    /\ At(w, "idle")
    /\ status[b] = "OPEN"
    /\ MoveBatch(b, "OPEN", "CLOSED")
    /\ pc' = [pc EXCEPT ![w] = "record"]
    /\ job' = [job EXCEPT ![w] = b]
    /\ UNCHANGED <<notional, keyVars, outside, seen, used>>

\* Another call of SubmitBatch for the batch: the replay the executor allows for.
Resubmit(w, b) ==
    /\ At(w, "idle")
    /\ Use("resubmit")
    /\ pc' = [pc EXCEPT ![w] = "load"]
    /\ job' = [job EXCEPT ![w] = b]
    /\ UNCHANGED <<dbVars, notional, keyVars, outside, seen>>

\* OnClose: append batch.close.
Record(w) ==
    /\ At(w, "record") /\ Goto(w, "load")
    /\ Append("batch.close", job[w])
    /\ UNCHANGED <<notional, keyVars, outside, used>>

\* GetBatch; only a closed or executing batch is submitted.
Load(w) ==
    /\ At(w, "load")
    /\ \/ /\ status[job[w]] \in {"CLOSED", "EXECUTING"}
          /\ pc' = [pc EXCEPT ![w] = "create"]
          /\ seen' = [seen EXCEPT ![w] = notional[job[w]]]
          /\ UNCHANGED job
       \/ status[job[w]] \notin {"CLOSED", "EXECUTING"} /\ Finish(w)
    /\ UNCHANGED <<dbVars, notional, keyVars, outside, used>>

\* CreateOrder, status EXECUTING; an order that is settled already ends the call.
Create(w) ==
    /\ At(w, "create")
    /\ CreateRow(job[w], seen[w])
    /\ IF order[job[w]].status = "SETTLED" THEN Finish(w) ELSE Goto(w, "advance")
    /\ UNCHANGED <<notional, keyVars, outside, used>>

\* UpdateBatchStatus CLOSED -> EXECUTING, its result ignored.
Advance(w) ==
    /\ At(w, "advance") /\ Goto(w, "claim")
    /\ MoveBatch(job[w], "CLOSED", "EXECUTING")
    /\ UNCHANGED <<notional, keyVars, outside, used>>

\* CheckAndMark("agg:"): whoever finds the key returns the order as it is.
MissesKey(kind, b) == TRUE
Unclaimed(kind, b) == Key(kind, b) \notin keys
Claim(w) ==
    /\ At(w, "claim")
    /\ IF Unclaimed("agg", job[w]) THEN Goto(w, "submit") ELSE Finish(w)
    /\ keys' = keys \cup {Key("agg", job[w])}
    /\ UNCHANGED <<dbVars, notional, lost, outside, used>>

\* What SubmitAggregate asks for: the notional that GetBatch returned.
RereadNotional(w) == notional[job[w]]
SubmittedNotional(w) == seen[w]
Place(w) ==
    /\ placed' = [placed EXCEPT ![job[w]] = @ + 1]
    /\ asked' = [asked EXCEPT ![job[w]] = @ \cup {SubmittedNotional(w)}]
    /\ UNCHANGED hedged

\* SubmitAggregate is answered with a fill.
Submit(w) ==
    /\ At(w, "submit") /\ Goto(w, "fill")
    /\ Place(w)
    /\ UNCHANGED <<dbVars, notional, keyVars, used>>

-------------------------------------------------------------------------------
(* UpdateOrderFill and OnFill.                                             *)

Fill(w) ==
    /\ At(w, "fill") /\ Goto(w, "float")
    /\ FillRow(job[w])
    /\ UNCHANGED <<notional, keyVars, outside, used>>

Float(w) ==
    /\ At(w, "float") /\ Goto(w, "adjust")
    /\ AddToFloat(job[w])
    /\ UNCHANGED <<notional, keyVars, outside, used>>

\* OnAdjust; enforceBounds after it only reads and reports.
Adjust(w) ==
    /\ At(w, "adjust") /\ Goto(w, "hedge")
    /\ Append("float.adjust", job[w])
    /\ UNCHANGED <<notional, keyVars, outside, used>>

\* Nothing is hedged for an order of no notional, and then the order is not settled.
SkipsSettle(w) == IF order[job[w]].notional > 0 THEN "expose" ELSE "emit"
AfterHedgeClaim(w) == IF order[job[w]].notional > 0 THEN "expose" ELSE "settle"

\* CheckAndMark("hedge:").
ClaimHedge(w) ==
    /\ At(w, "hedge")
    /\ Goto(w, IF Unclaimed("hedge", job[w]) THEN AfterHedgeClaim(w) ELSE "settle")
    /\ keys' = keys \cup {Key("hedge", job[w])}
    /\ UNCHANGED <<dbVars, notional, lost, outside, used>>

Hedge(w) == hedged' = [hedged EXCEPT ![job[w]] = @ + 1] /\ UNCHANGED <<placed, asked>>

\* SubmitExposure.
Expose(w) ==
    /\ At(w, "expose") /\ Goto(w, "settleOrder")
    /\ Hedge(w)
    /\ UNCHANGED <<dbVars, notional, keyVars, used>>

SettleOrder(w) ==
    /\ At(w, "settleOrder") /\ Goto(w, "settle")
    /\ SettleRow(job[w])
    /\ UNCHANGED <<notional, keyVars, outside, used>>

\* UpdateBatchStatus EXECUTING -> SETTLED, whatever became of float and hedge.
Settle(w) ==
    /\ At(w, "settle") /\ Goto(w, "emit")
    /\ MoveBatch(job[w], "EXECUTING", "SETTLED")
    /\ UNCHANGED <<notional, keyVars, outside, used>>

EmitExecuted(w) ==
    /\ At(w, "emit") /\ Finish(w)
    /\ Append("aggregate.execute", job[w])
    /\ UNCHANGED <<notional, keyVars, outside, used>>

-------------------------------------------------------------------------------
(* Failed calls.                                                           *)

\* A store call fails.  An error of GetBatch, CreateOrder or UpdateOrderFill ends
\* SubmitBatch; the others are dropped by their caller, which goes on.
StoreFails(w) ==
    LET b == job[w] IN
    /\ Use("fault")
    /\ \/ At(w, "record") /\ Goto(w, "load") /\ (Append("batch.close", b) \/ UNCHANGED dbVars)
       \/ At(w, "load") /\ Finish(w) /\ UNCHANGED dbVars
       \/ At(w, "create") /\ Finish(w) /\ (CreateRow(b, seen[w]) \/ UNCHANGED dbVars)
       \/ /\ At(w, "advance") /\ Goto(w, "claim")
          /\ MoveBatch(b, "CLOSED", "EXECUTING") \/ UNCHANGED dbVars
       \/ At(w, "fill") /\ Finish(w) /\ (FillRow(b) \/ UNCHANGED dbVars)
       \/ At(w, "float") /\ Goto(w, "hedge") /\ (AddToFloat(b) \/ UNCHANGED dbVars)
       \/ At(w, "adjust") /\ Goto(w, "hedge") /\ (Append("float.adjust", b) \/ UNCHANGED dbVars)
       \/ At(w, "settleOrder") /\ Goto(w, "settle") /\ (SettleRow(b) \/ UNCHANGED dbVars)
       \/ /\ At(w, "settle") /\ Goto(w, "emit")
          /\ MoveBatch(b, "EXECUTING", "SETTLED") \/ UNCHANGED dbVars
       \/ At(w, "emit") /\ Finish(w) /\ (Append("aggregate.execute", b) \/ UNCHANGED dbVars)
    /\ UNCHANGED <<notional, keyVars, outside>>

\* CheckAndMark fails: both callers log it and go on as if they had the key.
KeyCheckFails(w, kind) ==
    LET k == Key(kind, job[w]) IN
    /\ Use("fault")
    /\ \/ kind = "agg" /\ At(w, "claim") /\ Goto(w, "submit")
       \/ kind = "hedge" /\ At(w, "hedge") /\ Goto(w, AfterHedgeClaim(w))
    /\ lost' = lost \cup {k}
    /\ keys' \in {keys, keys \cup {k}}
    /\ UNCHANGED <<dbVars, notional, outside>>

\* A downstream call fails (or the circuit is open), before or after the downstream
\* took it: SubmitBatch returns with its key marked, OnFill goes on to settle.
DownstreamFails(w) ==
    /\ Use("fault")
    /\ \/ At(w, "submit") /\ Finish(w) /\ (Place(w) \/ UNCHANGED outside)
       \/ At(w, "expose") /\ Goto(w, "settle") /\ (Hedge(w) \/ UNCHANGED outside)
    /\ UNCHANGED <<dbVars, notional, keyVars>>

\* A worker's replica dies: nothing at start-up looks for work left half done.
Crash(w) ==
    /\ ~At(w, "idle")
    /\ Use("fault")
    /\ Finish(w)
    /\ UNCHANGED <<dbVars, notional, keyVars, outside>>

-------------------------------------------------------------------------------
(* The environment: a key's TTL, and the consumer's late SetBatchNotional. *)

KeyExpires(k) ==
    /\ k \in keys
    /\ Use("expiry")
    /\ keys' = keys \ {k}
    /\ lost' = lost \cup {k}
    /\ UNCHANGED <<dbVars, notional, outside, workerVars>>

LateTotal(b, amount) ==
    /\ Use("total")
    /\ notional' = [notional EXCEPT ![b] = amount]
    /\ UNCHANGED <<dbVars, keyVars, outside, workerVars>>

-------------------------------------------------------------------------------

Submitting(w) ==
    Record(w) \/ Load(w) \/ Create(w) \/ Advance(w) \/ Claim(w) \/ Submit(w) \/ Fill(w)
Filled(w) ==
    \/ Float(w) \/ Adjust(w) \/ ClaimHedge(w) \/ Expose(w) \/ SettleOrder(w)
    \/ Settle(w) \/ EmitExecuted(w)
Fails(w) ==
    \/ StoreFails(w) \/ DownstreamFails(w) \/ Crash(w)
    \/ \E kind \in {"agg", "hedge"} : KeyCheckFails(w, kind)

Next ==
    \/ \E w \in Worker :
        \/ \E b \in Batch : CloseBatch(w, b) \/ Resubmit(w, b)
        \/ Submitting(w) \/ Filled(w) \/ Fails(w)
    \/ \E k \in keys : KeyExpires(k)
    \/ \E b \in Batch, amount \in Amount : LateTotal(b, amount)

Spec == Init /\ [][Next]_vars

\* A goroutine in the middle of SubmitBatch goes on. Closing a batch, another
\* call of SubmitBatch and everything that fails are not obliged to happen.
FairSpec == Spec /\ \A w \in Worker : WF_vars(Submitting(w) \/ Filled(w))

-------------------------------------------------------------------------------
(* Correctness.                                                            *)

BatchStatus == {"OPEN", "CLOSED", "EXECUTING", "SETTLED"}
Row == [status : {"NONE", "EXECUTING", "SETTLED"}, notional : Amount, filled : BOOLEAN]
Event == {"batch.close", "float.adjust", "aggregate.execute"}
AllKeys == {"agg", "hedge"} \X Batch
Call == {"record", "load", "create", "advance", "claim", "submit", "fill", "float",
           "adjust", "hedge", "expose", "settleOrder", "settle", "emit"}

\* Type correctness: a busy worker has a batch, an idle one has none.
TypeOK ==
    /\ status \in [Batch -> BatchStatus]
    /\ notional \in [Batch -> Amount]
    /\ order \in [Batch -> Row]
    /\ outbox \subseteq Event \X Batch
    /\ keys \subseteq AllKeys /\ lost \subseteq AllKeys
    /\ placed \in [Batch -> Nat]
    /\ asked \in [Batch -> SUBSET Amount]
    /\ floated \in [Batch -> Nat]
    /\ hedged \in [Batch -> Nat]
    /\ pc \in [Worker -> Call \cup {"idle"}]
    /\ job \in [Worker -> Batch \cup {None}]
    /\ \A w \in Worker : pc[w] = "idle" <=> job[w] = None
    /\ seen \in [Worker -> Amount]
    /\ used \in [Budget -> Nat]

NeverFailed == used["fault"] = 0
Working(b, where) == \E w \in Worker : job[w] = b /\ pc[w] \in where

\* "Exactly one parent order", "do not double-hedge": a batch is submitted, floated
\* and hedged at most once, whoever replays SubmitBatch and whatever fails, as
\* long as the idempotency store has not failed or forgotten the key concerned, and
\* each time it has allows for once more.
EffectsOnce ==
    LET most == 1 + used["expiry"] + used["fault"] IN
    \A b \in Batch :
        /\ placed[b] <= most /\ floated[b] <= most /\ hedged[b] <= most
        /\ Key("agg", b) \notin lost => placed[b] <= 1 /\ floated[b] <= 1
        /\ Key("hedge", b) \notin lost => hedged[b] <= 1

\* The order is persisted before it is submitted and its fill before any side
\* effect of the fill, through every failure and replay.
PersistedFirst ==
    \A b \in Batch :
        /\ placed[b] > 0 => order[b].status # "NONE"
        /\ \/ floated[b] > 0 \/ hedged[b] > 0 \/ order[b].status = "SETTLED"
           \/ {<<"float.adjust", b>>, <<"aggregate.execute", b>>} \cap outbox # {}
           => order[b].filled

\* liquidity-routing is asked for the notional the order row has (on which float
\* and hedge are computed), although late events still move the batch's own, but for
\* one batch per replay: a replay that reads a moved total may submit it.
Misasked == {b \in Batch : ~(asked[b] \subseteq {order[b].notional})}
SubmittedAsOrdered == Cardinality(Misasked) <= used["resubmit"]

\* What moved is on record or about to be, but for one batch per fault: a closed batch, a
\* float adjustment and an executed aggregate in the outbox, and the settlement of a
\* batch on its order too, unless that has no notional, which nobody settles ("closed ->
\* executing -> settled to mirror order lifecycle").
Recorded(b) ==
    /\ status[b] # "OPEN" => <<"batch.close", b>> \in outbox \/ Working(b, {"record"})
    /\ floated[b] > 0 => <<"float.adjust", b>> \in outbox \/ Working(b, {"adjust"})
    /\ status[b] = "SETTLED" =>
          <<"aggregate.execute", b>> \in outbox \/ Working(b, {"emit"})
    /\ status[b] = "SETTLED" /\ order[b].notional > 0 =>
          order[b].status = "SETTLED" \/ Working(b, {"expose", "settleOrder"})
Unrecorded == {b \in Batch : ~Recorded(b)}
RecordsAgree == Cardinality(Unrecorded) <= used["fault"]

\* Unless something fails, a closed batch is eventually filled and settled,
\* whatever replays of SubmitBatch it races.
ClosedSettles ==
    \A b \in Batch :
        status[b] = "CLOSED" ~> ~NeverFailed \/ (status[b] = "SETTLED" /\ order[b].filled)

\* "If an order already exists for the batch it returns the existing record (and
\* re-applies the fill if missing)": a replay that ends at the agg key, with nobody
\* else at work on the batch, leaves a filled order.
ReplayAppliesFill ==
    [][\A w \in Worker :
        At(w, "claim") /\ pc'[w] = "idle" /\ used' = used =>
            \/ order[job[w]].filled
            \/ \E v \in Worker \ {w} : job[v] = job[w]]_vars

-------------------------------------------------------------------------------
Lifecycle == INSTANCE BatchLifecycle WITH
    Notional <- Amount,
    order <- [b \in Batch |-> IF order[b].status = "NONE" THEN {} ELSE {order[b].notional}],
    filled <- {b \in Batch : order[b].filled},
    settledOrder <- {b \in Batch : order[b].status = "SETTLED"}

\* Whatever calls of SubmitBatch race and fail, the batch advances one step at a time, it
\* has one order, of one notional, and is settled only when that has its fill; neither
\* the batch nor the order ever goes back.
LifecyclePromise == Lifecycle!Spec
===============================================================================
