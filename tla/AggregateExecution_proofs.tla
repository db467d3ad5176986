---------------------- MODULE AggregateExecution_proofs -----------------------
(***************************************************************************)
(* The execution of closed batches for any number of workers, batches,     *)
(* replays, expiries and faults.                                           *)
(***************************************************************************)
EXTENDS AggregateExecution, FiniteSetTheorems, TLAPS

-------------------------------------------------------------------------------
(* Counting: a set that lost elements, or gained one at most.               *)

LEMMA SubsetCounts ==
    ASSUME NEW S, IsFiniteSet(S), NEW T, T \subseteq S
    PROVE  IsFiniteSet(T) /\ Cardinality(T) <= Cardinality(S)
BY FS_Subset

LEMMA OneMoreCounts ==
    ASSUME NEW S, IsFiniteSet(S), NEW x
    PROVE  /\ IsFiniteSet(S \cup {x})
           /\ Cardinality(S \cup {x}) \in Nat /\ Cardinality(S) \in Nat
           /\ Cardinality(S \cup {x}) <= Cardinality(S) + 1
<1>1. /\ IsFiniteSet(S \cup {x}) /\ Cardinality(S) \in Nat /\ Cardinality(S \cup {x}) \in Nat
      /\ Cardinality(S \cup {x}) = IF x \in S THEN Cardinality(S) ELSE Cardinality(S) + 1
  BY FS_AddElement, FS_CardinalityType
<1> QED
  BY <1>1

-------------------------------------------------------------------------------
(* Frames: what Goto and Finish do to the workers.                          *)

WorkerOK ==
    /\ pc \in [Worker -> Call \cup {"idle"}]
    /\ job \in [Worker -> Batch \cup {None}]
    /\ \A w \in Worker : pc[w] = "idle" <=> job[w] = None
    /\ seen \in [Worker -> Amount]

Others(w) == \A x \in Worker \ {w} : pc'[x] = pc[x] /\ job'[x] = job[x]

LEMMA GotoFrame ==
    ASSUME WorkerOK, NEW w \in Worker, pc[w] # "idle", NEW there \in Call, Goto(w, there)
    PROVE  WorkerOK' /\ pc'[w] = there /\ job' = job /\ job[w] \in Batch /\ Others(w)
BY DEF WorkerOK, Goto, Others, Call

LEMMA FinishFrame ==
    ASSUME WorkerOK, NEW w \in Worker, Finish(w)
    PROVE  WorkerOK' /\ pc'[w] = "idle" /\ Others(w)
BY AmountAssumption DEF WorkerOK, Finish, Others, Call

LEMMA StartFrame ==
    ASSUME WorkerOK, NEW w \in Worker, NEW b \in Batch, NEW there \in Call,
           pc' = [pc EXCEPT ![w] = there], job' = [job EXCEPT ![w] = b], seen' = seen
    PROVE  WorkerOK' /\ pc'[w] = there /\ Others(w)
BY NoneAssumption DEF WorkerOK, Others, Call

LEMMA BusyHasBatch ==
    ASSUME WorkerOK, NEW w \in Worker, pc[w] # "idle"
    PROVE  job[w] \in Batch /\ seen[w] \in Amount
BY DEF WorkerOK

\* Where the hedge claim leads is a place.
LEMMA AfterHedgeClaimPlace ==
    ASSUME NEW w \in Worker
    PROVE  AfterHedgeClaim(w) \in {"expose", "settle"}
BY DEF AfterHedgeClaim

-------------------------------------------------------------------------------
(* The database: every effect of a store call keeps its type.               *)

DbOK ==
    /\ status \in [Batch -> BatchStatus]
    /\ order \in [Batch -> Row]
    /\ outbox \subseteq Event \X Batch
    /\ floated \in [Batch -> Nat]

LEMMA AppendTyped ==
    ASSUME DbOK, NEW b \in Batch, NEW e \in Event, Append(e, b)
    PROVE  DbOK'
BY DEF DbOK, Append, Appended

LEMMA MoveTyped ==
    ASSUME DbOK, NEW b \in Batch, NEW from, NEW to \in BatchStatus, MoveBatch(b, from, to)
    PROVE  DbOK'
BY DEF DbOK, MoveBatch

LEMMA CreateTyped ==
    ASSUME DbOK, NEW b \in Batch, NEW amount \in Amount, CreateRow(b, amount)
    PROVE  DbOK'
BY DEF DbOK, CreateRow, Row, FirstOrderStatus

LEMMA FillTyped ==
    ASSUME DbOK, NEW b \in Batch, FillRow(b)
    PROVE  DbOK'
BY DEF DbOK, FillRow, Row

LEMMA SettleTyped ==
    ASSUME DbOK, NEW b \in Batch, SettleRow(b)
    PROVE  DbOK'
BY DEF DbOK, SettleRow, Row

LEMMA FloatTyped ==
    ASSUME DbOK, NEW b \in Batch, AddToFloat(b)
    PROVE  DbOK'
BY DEF DbOK, AddToFloat

LEMMA DbUnchanged ==
    ASSUME DbOK, UNCHANGED dbVars
    PROVE  DbOK'
BY DEF DbOK, dbVars

LEMMA StoreFailsTyped ==
    ASSUME DbOK, WorkerOK, NEW w \in Worker, StoreFails(w)
    PROVE  DbOK' /\ WorkerOK'
<1> USE DEF At
<1>0. /\ {"batch.close", "float.adjust", "aggregate.execute"} \subseteq Event
      /\ {"CLOSED", "EXECUTING", "SETTLED"} \subseteq BatchStatus
      /\ {"load", "claim", "hedge", "settle", "emit"} \subseteq Call
  BY DEF Event, BatchStatus, Call
<1>1. CASE pc[w] \in {"record", "adjust", "emit"}
  BY <1>0, <1>1, BusyHasBatch, AppendTyped, DbUnchanged, GotoFrame, FinishFrame DEF StoreFails
<1>2. CASE pc[w] = "load"
  BY <1>2, DbUnchanged, FinishFrame DEF StoreFails
<1>3. CASE pc[w] = "create"
  BY <1>3, BusyHasBatch, CreateTyped, DbUnchanged, FinishFrame DEF StoreFails
<1>4. CASE pc[w] \in {"advance", "settle"}
  BY <1>0, <1>4, BusyHasBatch, MoveTyped, DbUnchanged, GotoFrame DEF StoreFails
<1>5. CASE pc[w] = "fill"
  BY <1>5, BusyHasBatch, FillTyped, DbUnchanged, FinishFrame DEF StoreFails
<1>6. CASE pc[w] = "float"
  BY <1>0, <1>6, BusyHasBatch, FloatTyped, DbUnchanged, GotoFrame DEF StoreFails
<1>7. CASE pc[w] = "settleOrder"
  BY <1>0, <1>7, BusyHasBatch, SettleTyped, DbUnchanged, GotoFrame DEF StoreFails
<1> QED
  BY <1>1, <1>2, <1>3, <1>4, <1>5, <1>6, <1>7 DEF StoreFails

-------------------------------------------------------------------------------
(* Type correctness.                                                        *)

RestOK ==
    /\ notional \in [Batch -> Amount]
    /\ keys \subseteq AllKeys /\ lost \subseteq AllKeys
    /\ placed \in [Batch -> Nat]
    /\ asked \in [Batch -> SUBSET Amount]
    /\ hedged \in [Batch -> Nat]
    /\ used \in [Budget -> Nat]

LEMMA TypeParts == TypeOK <=> DbOK /\ WorkerOK /\ RestOK
BY DEF TypeOK, DbOK, WorkerOK, RestOK

\* The database and the workers stay typed.
LEMMA StoreStep ==
    ASSUME DbOK, WorkerOK, notional \in [Batch -> Amount], [Next]_vars
    PROVE  DbOK' /\ WorkerOK'
<1> USE DEF At
<1>0. /\ Event = {"batch.close", "float.adjust", "aggregate.execute"}
      /\ {"CLOSED", "EXECUTING", "SETTLED"} \subseteq BatchStatus
      /\ Call = {"record", "load", "create", "advance", "claim", "submit", "fill", "float",
                 "adjust", "hedge", "expose", "settleOrder", "settle", "emit"}
  BY DEF Event, BatchStatus, Call
<1>1. ASSUME NEW w \in Worker, NEW b \in Batch, CloseBatch(w, b)
      PROVE  DbOK' /\ WorkerOK'
  BY <1>0, <1>1, MoveTyped, StartFrame DEF CloseBatch
<1>2. ASSUME NEW w \in Worker, NEW b \in Batch, Resubmit(w, b)
      PROVE  DbOK' /\ WorkerOK'
  BY <1>0, <1>2, DbUnchanged, StartFrame DEF Resubmit
<1>3. ASSUME NEW w \in Worker, Record(w)
      PROVE  DbOK' /\ WorkerOK'
  BY <1>0, <1>3, BusyHasBatch, AppendTyped, GotoFrame DEF Record
<1>4. ASSUME NEW w \in Worker, Load(w)
      PROVE  DbOK' /\ WorkerOK'
  <2>1. DbOK'
    BY <1>4, DbUnchanged DEF Load
  <2>2. CASE Finish(w)
    BY <2>1, <2>2, FinishFrame
  <2>3. CASE ~Finish(w)
    BY <1>0, <1>4, <2>1, <2>3, BusyHasBatch DEF Load, WorkerOK
  <2> QED
    BY <2>2, <2>3
<1>5. ASSUME NEW w \in Worker, Create(w)
      PROVE  DbOK' /\ WorkerOK'
  BY <1>0, <1>5, BusyHasBatch, CreateTyped, FinishFrame, GotoFrame DEF Create
<1>6. ASSUME NEW w \in Worker, Advance(w)
      PROVE  DbOK' /\ WorkerOK'
  BY <1>0, <1>6, BusyHasBatch, MoveTyped, GotoFrame DEF Advance
<1>7. ASSUME NEW w \in Worker, Claim(w)
      PROVE  DbOK' /\ WorkerOK'
  BY <1>0, <1>7, DbUnchanged, FinishFrame, GotoFrame DEF Claim
<1>8. ASSUME NEW w \in Worker, Submit(w)
      PROVE  DbOK' /\ WorkerOK'
  BY <1>0, <1>8, DbUnchanged, GotoFrame DEF Submit
<1>9. ASSUME NEW w \in Worker, Fill(w)
      PROVE  DbOK' /\ WorkerOK'
  BY <1>0, <1>9, BusyHasBatch, FillTyped, GotoFrame DEF Fill
<1>10. ASSUME NEW w \in Worker, Float(w)
       PROVE  DbOK' /\ WorkerOK'
  BY <1>0, <1>10, BusyHasBatch, FloatTyped, GotoFrame DEF Float
<1>11. ASSUME NEW w \in Worker, Adjust(w)
       PROVE  DbOK' /\ WorkerOK'
  BY <1>0, <1>11, BusyHasBatch, AppendTyped, GotoFrame DEF Adjust
<1>12. ASSUME NEW w \in Worker, ClaimHedge(w)
       PROVE  DbOK' /\ WorkerOK'
  <2>1. \E there \in Call : Goto(w, there)
    BY <1>0, <1>12, AfterHedgeClaimPlace DEF ClaimHedge
  <2> QED
    BY <1>12, <2>1, DbUnchanged, GotoFrame DEF ClaimHedge
<1>13. ASSUME NEW w \in Worker, Expose(w)
       PROVE  DbOK' /\ WorkerOK'
  BY <1>0, <1>13, DbUnchanged, GotoFrame DEF Expose
<1>14. ASSUME NEW w \in Worker, SettleOrder(w)
       PROVE  DbOK' /\ WorkerOK'
  BY <1>0, <1>14, BusyHasBatch, SettleTyped, GotoFrame DEF SettleOrder
<1>15. ASSUME NEW w \in Worker, Settle(w)
       PROVE  DbOK' /\ WorkerOK'
  BY <1>0, <1>15, BusyHasBatch, MoveTyped, GotoFrame DEF Settle
<1>16. ASSUME NEW w \in Worker, EmitExecuted(w)
       PROVE  DbOK' /\ WorkerOK'
  BY <1>0, <1>16, BusyHasBatch, AppendTyped, FinishFrame DEF EmitExecuted
<1>17. ASSUME NEW w \in Worker, NEW kind \in {"agg", "hedge"}, KeyCheckFails(w, kind)
       PROVE  DbOK' /\ WorkerOK'
  <2>1. pc[w] # "idle" /\ \E there \in Call : Goto(w, there)
    BY <1>0, <1>17, AfterHedgeClaimPlace DEF KeyCheckFails
  <2> QED
    BY <1>17, <2>1, DbUnchanged, GotoFrame DEF KeyCheckFails
<1>18. ASSUME NEW w \in Worker, DownstreamFails(w)
       PROVE  DbOK' /\ WorkerOK'
  BY <1>0, <1>18, DbUnchanged, FinishFrame, GotoFrame DEF DownstreamFails
<1>19. ASSUME NEW w \in Worker, Crash(w)
       PROVE  DbOK' /\ WorkerOK'
  BY <1>19, DbUnchanged, FinishFrame DEF Crash
<1>20. ASSUME UNCHANGED <<dbVars, workerVars>>
       PROVE  DbOK' /\ WorkerOK'
  BY <1>20, DbUnchanged DEF workerVars, WorkerOK
<1>21. ASSUME NEW k, KeyExpires(k)
       PROVE  DbOK' /\ WorkerOK'
  BY <1>20, <1>21 DEF KeyExpires
<1>22. ASSUME NEW b, NEW amount, LateTotal(b, amount)
       PROVE  DbOK' /\ WorkerOK'
  BY <1>20, <1>22 DEF LateTotal
<1>23. CASE UNCHANGED vars
  BY <1>20, <1>23 DEF vars
<1>24. ASSUME NEW w \in Worker, Submitting(w)
       PROVE  DbOK' /\ WorkerOK'
  BY <1>3, <1>4, <1>5, <1>6, <1>7, <1>8, <1>9, <1>24 DEF Submitting
<1>25. ASSUME NEW w \in Worker, Filled(w)
       PROVE  DbOK' /\ WorkerOK'
  BY <1>10, <1>11, <1>12, <1>13, <1>14, <1>15, <1>16, <1>25 DEF Filled
<1>26. ASSUME NEW w \in Worker, Fails(w)
       PROVE  DbOK' /\ WorkerOK'
  BY <1>17, <1>18, <1>19, <1>26, StoreFailsTyped DEF Fails
<1> QED
  BY <1>1, <1>2, <1>21, <1>22, <1>23, <1>24, <1>25, <1>26 DEF Next

LEMMA UseTyped ==
    ASSUME used \in [Budget -> Nat], NEW x \in Budget, Use(x)
    PROVE  used' \in [Budget -> Nat]
BY DEF Use

\* What downstream saw, the keys and the bounds stay typed.
LEMMA RestStep ==
    ASSUME WorkerOK, RestOK, [Next]_vars
    PROVE  RestOK'
<1> USE DEF At
<1>0. Budget = {"resubmit", "total", "expiry", "fault"}
  BY DEF Budget
<1>1. ASSUME UNCHANGED <<notional, keyVars, outside, used>>
      PROVE  RestOK'
  BY <1>1 DEF RestOK, keyVars, outside
<1>2. ASSUME NEW w \in Worker, NEW b \in Batch, CloseBatch(w, b)
      PROVE  RestOK'
  BY <1>1, <1>2 DEF CloseBatch
<1>3. ASSUME NEW w \in Worker, NEW b \in Batch, Resubmit(w, b)
      PROVE  RestOK'
  BY <1>0, <1>3, UseTyped DEF Resubmit, RestOK, keyVars, outside
<1>4. ASSUME NEW w \in Worker, Claim(w)
      PROVE  RestOK'
  BY <1>4, BusyHasBatch DEF Claim, RestOK, AllKeys, Key, outside
<1>5. ASSUME NEW w \in Worker, pc[w] # "idle", Place(w)
      PROVE  /\ placed' \in [Batch -> Nat] /\ asked' \in [Batch -> SUBSET Amount]
             /\ hedged' \in [Batch -> Nat]
  BY <1>5, BusyHasBatch DEF Place, SubmittedNotional, RestOK
<1>6. ASSUME NEW w \in Worker, pc[w] # "idle", Hedge(w)
      PROVE  /\ placed' \in [Batch -> Nat] /\ asked' \in [Batch -> SUBSET Amount]
             /\ hedged' \in [Batch -> Nat]
  BY <1>6, BusyHasBatch DEF Hedge, RestOK
<1>7. ASSUME NEW w \in Worker, Submitting(w)
      PROVE  RestOK'
  <2>1. CASE Submit(w)
    BY <1>5, <2>1 DEF Submit, RestOK, keyVars
  <2>2. CASE Record(w) \/ Load(w) \/ Create(w) \/ Advance(w) \/ Fill(w)
    BY <1>1, <2>2 DEF Record, Load, Create, Advance, Fill
  <2> QED
    BY <1>4, <1>7, <2>1, <2>2 DEF Submitting
<1>8. ASSUME NEW w \in Worker, Filled(w)
      PROVE  RestOK'
  <2>1. CASE Expose(w)
    BY <1>6, <2>1 DEF Expose, RestOK, keyVars
  <2>2. CASE ClaimHedge(w)
    BY <2>2, BusyHasBatch DEF ClaimHedge, RestOK, AllKeys, Key, outside
  <2>3. CASE Float(w) \/ Adjust(w) \/ SettleOrder(w) \/ Settle(w) \/ EmitExecuted(w)
    BY <1>1, <2>3 DEF Float, Adjust, SettleOrder, Settle, EmitExecuted
  <2> QED
    BY <1>8, <2>1, <2>2, <2>3 DEF Filled
<1>9. ASSUME NEW w \in Worker, NEW kind \in {"agg", "hedge"}, KeyCheckFails(w, kind)
      PROVE  RestOK'
  <2>1. Key(kind, job[w]) \in AllKeys
    BY <1>9, BusyHasBatch DEF KeyCheckFails, Key, AllKeys
  <2> QED
    BY <1>0, <1>9, <2>1, UseTyped DEF KeyCheckFails, RestOK, outside
<1>10. ASSUME NEW w \in Worker, DownstreamFails(w)
       PROVE  RestOK'
  <2>1. /\ placed' \in [Batch -> Nat] /\ asked' \in [Batch -> SUBSET Amount]
        /\ hedged' \in [Batch -> Nat]
    BY <1>5, <1>6, <1>10 DEF DownstreamFails, outside, RestOK
  <2> QED
    BY <1>0, <1>10, <2>1, UseTyped DEF DownstreamFails, RestOK, keyVars
<1>11. ASSUME NEW w \in Worker, StoreFails(w) \/ Crash(w)
       PROVE  RestOK'
  BY <1>0, <1>11, UseTyped DEF StoreFails, Crash, RestOK, keyVars, outside
<1>12. ASSUME NEW k \in keys, KeyExpires(k)
       PROVE  RestOK'
  BY <1>0, <1>12, UseTyped DEF KeyExpires, RestOK, outside
<1>13. ASSUME NEW b \in Batch, NEW amount \in Amount, LateTotal(b, amount)
       PROVE  RestOK'
  BY <1>0, <1>13, UseTyped DEF LateTotal, RestOK, keyVars, outside
<1>14. CASE UNCHANGED vars
  BY <1>1, <1>14 DEF vars
<1>15. ASSUME NEW w \in Worker, Fails(w)
       PROVE  RestOK'
  BY <1>9, <1>10, <1>11, <1>15 DEF Fails
<1> QED
  BY <1>2, <1>3, <1>7, <1>8, <1>12, <1>13, <1>14, <1>15 DEF Next

\* Type correctness of the execution, whatever fails.
THEOREM TypeCorrect == Spec => []TypeOK
<1>1. Init => DbOK /\ WorkerOK /\ RestOK
  BY AmountAssumption, NoneAssumption
  DEF Init, DbOK, WorkerOK, RestOK, NoOrder, Row, BatchStatus, Call, AllKeys
<1>2. DbOK /\ WorkerOK /\ RestOK /\ [Next]_vars => DbOK' /\ WorkerOK' /\ RestOK'
  BY StoreStep, RestStep DEF RestOK
<1>3. DbOK /\ WorkerOK /\ RestOK => TypeOK
  BY TypeParts
<1> QED
  BY <1>1, <1>2, <1>3, PTL DEF Spec

\* A worker in the middle of its call: it touches only its batch, which it keeps or drops.
LEMMA OwnBatch ==
    ASSUME TypeOK, NEW w \in Worker, Submitting(w) \/ Filled(w) \/ Fails(w)
    PROVE  /\ pc[w] # "idle" /\ job[w] \in Batch /\ Others(w)
           /\ \A x \in Worker \ {w} : seen'[x] = seen[x]
           /\ job'[w] \in {job[w], None} /\ (job'[w] = None => pc'[w] = "idle")
           /\ \A b \in Batch \ {job[w]} : order'[b] = order[b] /\ asked'[b] = asked[b]
<1> USE DEF At
<1>0. WorkerOK /\ DbOK /\ RestOK
  BY TypeParts
<1>1. pc[w] # "idle"
  BY DEF Submitting, Record, Load, Create, Advance, Claim, Submit, Fill, Filled, Float,
     Adjust, ClaimHedge, Expose, SettleOrder, Settle, EmitExecuted, Fails, StoreFails,
     DownstreamFails, Crash, KeyCheckFails
<1>2. job[w] \in Batch
  BY <1>0, <1>1, BusyHasBatch
<1>3. \/ Finish(w) \/ (\E there \in Call : Goto(w, there))
      \/ /\ \E there \in Call : pc' = [pc EXCEPT ![w] = there]
         /\ job' = job /\ \E n : seen' = [seen EXCEPT ![w] = n]
  BY AfterHedgeClaimPlace DEF Submitting, Record, Load, Create, Advance, Claim, Submit, Fill, Filled, Float,
     Adjust, ClaimHedge, Expose, SettleOrder, Settle, EmitExecuted, Fails, StoreFails,
     DownstreamFails, Crash, KeyCheckFails, Call
<1>4. /\ Others(w) /\ \A x \in Worker \ {w} : seen'[x] = seen[x]
      /\ job'[w] \in {job[w], None} /\ (job'[w] = None => pc'[w] = "idle")
  BY <1>0, <1>2, <1>3, NoneAssumption DEF Finish, Goto, Others, WorkerOK
<1>5. \A b \in Batch \ {job[w]} : order'[b] = order[b]
  <2>1. CASE Submitting(w) \/ Filled(w)
    BY <1>0, <2>1 DEF Submitting, Record, Load, Create, Advance, Claim, Submit, Fill, Filled, Float,
       Adjust, ClaimHedge, Expose, SettleOrder, Settle, EmitExecuted, Append, MoveBatch, CreateRow,
       FillRow, SettleRow, AddToFloat, dbVars, DbOK
  <2>2. CASE Fails(w)
    BY <1>0, <2>2 DEF Fails, StoreFails, DownstreamFails, Crash, KeyCheckFails, Append, MoveBatch,
       CreateRow, FillRow, SettleRow, AddToFloat, dbVars, DbOK
  <2> QED
    BY <2>1, <2>2
<1>6. \A b \in Batch \ {job[w]} : asked'[b] = asked[b]
  BY <1>0 DEF Submitting, Record, Load, Create, Advance, Claim, Submit, Fill, Filled, Float,
     Adjust, ClaimHedge, Expose, SettleOrder, Settle, EmitExecuted, Fails, StoreFails,
     DownstreamFails, Crash, KeyCheckFails, Place, Hedge, outside, RestOK
<1> QED
  BY <1>1, <1>2, <1>4, <1>5, <1>6

-------------------------------------------------------------------------------
(* EffectsOnce.  The worker that claimed a live key is alone between the     *)
(* claim and the effect the key protects, and before it nothing happened.    *)

\* From the claim of the agg key to the float.
InEffect == {"submit", "fill", "float"}

OneExecution(b) ==
    /\ placed[b] <= 1 /\ floated[b] <= 1
    /\ Key("agg", b) \notin keys => placed[b] = 0 /\ floated[b] = 0
    /\ \A w \in Worker : job[w] = b /\ pc[w] \in InEffect =>
        /\ Key("agg", b) \in keys
        /\ floated[b] = 0
        /\ pc[w] = "submit" => placed[b] = 0
        /\ \A x \in Worker \ {w} : job[x] = b => pc[x] \notin InEffect

OneHedge(b) ==
    /\ hedged[b] <= 1
    /\ Key("hedge", b) \notin keys => hedged[b] = 0
    /\ \A w \in Worker : job[w] = b /\ pc[w] = "expose" =>
        /\ Key("hedge", b) \in keys
        /\ hedged[b] = 0
        /\ \A x \in Worker \ {w} : job[x] = b => pc[x] # "expose"

Executions == \A b \in Batch : Key("agg", b) \notin lost => OneExecution(b)
Hedges == \A b \in Batch : Key("hedge", b) \notin lost => OneHedge(b)

LEMMA KeysDiffer ==
    \A b, d \in Batch : /\ Key("agg", b) # Key("hedge", d)
                        /\ b # d => Key("agg", b) # Key("agg", d) /\ Key("hedge", b) # Key("hedge", d)
BY DEF Key

\* A step of one worker that leads outside the protected stretch and touches neither
\* what is counted nor takes a key away keeps the invariant.
LEMMA ExecutionsFrame ==
    ASSUME WorkerOK, Executions, NEW w \in Worker, Others(w), pc'[w] \notin InEffect,
           placed' = placed, floated' = floated, keys \subseteq keys', lost \subseteq lost'
    PROVE  Executions'
BY DEF Executions, OneExecution, Others, WorkerOK

LEMMA HedgesFrame ==
    ASSUME WorkerOK, Hedges, NEW w \in Worker, Others(w), pc'[w] # "expose",
           hedged' = hedged, keys \subseteq keys', lost \subseteq lost'
    PROVE  Hedges'
BY DEF Hedges, OneHedge, Others, WorkerOK

\* The steps inside the stretch that the agg key protects.
LEMMA ExecutionsStretch ==
    ASSUME TypeOK, Executions, NEW w \in Worker,
           Claim(w) \/ Submit(w) \/ Fill(w) \/ Float(w)
    PROVE  Executions'
<1> USE DEF At, InEffect
<1>0. WorkerOK /\ DbOK /\ RestOK
  BY TypeParts
<1>1. {"submit", "fill", "float", "adjust"} \subseteq Call
  BY DEF Call
<1>2. CASE Claim(w)
  <2>1. CASE Key("agg", job[w]) \in keys
    <3>1. Finish(w) /\ UNCHANGED <<placed, floated, keys, lost>>
      BY <1>2, <2>1 DEF Claim, Unclaimed, dbVars, outside
    <3> QED
      BY <1>0, <3>1, FinishFrame, ExecutionsFrame
  <2>2. CASE Key("agg", job[w]) \notin keys
    <3>1. /\ Goto(w, "submit") /\ pc[w] # "idle"
          /\ keys' = keys \cup {Key("agg", job[w])} /\ UNCHANGED <<placed, floated, lost>>
      BY <1>2, <2>2 DEF Claim, Unclaimed, dbVars, outside
    <3>2. pc'[w] = "submit" /\ job' = job /\ job[w] \in Batch /\ Others(w)
      BY <1>0, <1>1, <3>1, GotoFrame
    <3> QED
      BY <2>2, <3>1, <3>2, KeysDiffer DEF Executions, OneExecution, Others
  <2> QED
    BY <2>1, <2>2
<1>3. CASE Submit(w)
  <2>1. /\ pc[w] = "submit" /\ Goto(w, "fill") /\ UNCHANGED <<floated, keys, lost>>
        /\ placed' = [placed EXCEPT ![job[w]] = @ + 1]
    BY <1>3 DEF Submit, Place, dbVars, keyVars
  <2>2. pc'[w] = "fill" /\ job' = job /\ job[w] \in Batch /\ Others(w)
    BY <1>0, <1>1, <2>1, GotoFrame
  <2> QED
    BY <1>0, <2>1, <2>2 DEF Executions, OneExecution, Others, RestOK
<1>4. CASE Fill(w)
  <2>1. pc[w] = "fill" /\ Goto(w, "float") /\ UNCHANGED <<placed, floated, keys, lost>>
    BY <1>4 DEF Fill, FillRow, outside, keyVars
  <2>2. pc'[w] = "float" /\ job' = job /\ job[w] \in Batch /\ Others(w)
    BY <1>0, <1>1, <2>1, GotoFrame
  <2> QED
    BY <2>1, <2>2 DEF Executions, OneExecution, Others
<1>5. CASE Float(w)
  <2>1. /\ pc[w] = "float" /\ Goto(w, "adjust") /\ UNCHANGED <<placed, keys, lost>>
        /\ floated' = [floated EXCEPT ![job[w]] = @ + 1]
    BY <1>5 DEF Float, AddToFloat, outside, keyVars
  <2>2. pc'[w] = "adjust" /\ job' = job /\ job[w] \in Batch /\ Others(w)
    BY <1>0, <1>1, <2>1, GotoFrame
  <2> QED
    BY <1>0, <2>1, <2>2 DEF Executions, OneExecution, Others, DbOK
<1> QED
  BY <1>2, <1>3, <1>4, <1>5

\* The failures inside that stretch: the effect may have happened, the worker leaves.
LEMMA ExecutionsFail ==
    ASSUME TypeOK, Executions, NEW w \in Worker,
           StoreFails(w) \/ DownstreamFails(w) \/ KeyCheckFails(w, "agg")
    PROVE  Executions'
<1> USE DEF At, InEffect
<1>0. WorkerOK /\ DbOK /\ RestOK
  BY TypeParts
<1>1. {"load", "submit", "fill", "float", "claim", "hedge", "settle", "emit"} \subseteq Call
  BY DEF Call
<1>2. CASE StoreFails(w) /\ pc[w] = "float"
  <2>1. /\ Goto(w, "hedge") /\ UNCHANGED <<placed, keys, lost>>
        /\ floated' = [floated EXCEPT ![job[w]] = @ + 1] \/ floated' = floated
    BY <1>2 DEF StoreFails, AddToFloat, outside, keyVars, dbVars
  <2>2. pc'[w] = "hedge" /\ job' = job /\ job[w] \in Batch /\ Others(w)
    BY <1>0, <1>1, <1>2, <2>1, GotoFrame
  <2> QED
    BY <1>0, <1>2, <2>1, <2>2 DEF Executions, OneExecution, Others, DbOK
<1>3. CASE StoreFails(w) /\ pc[w] # "float"
  <2>1. UNCHANGED <<placed, floated, keys, lost>>
    BY <1>3 DEF StoreFails, outside, keyVars, dbVars, Append, CreateRow, MoveBatch, FillRow,
                SettleRow
  <2>2. Finish(w) \/ (pc[w] # "idle" /\ \E there \in Call \ InEffect : Goto(w, there))
    BY <1>1, <1>3 DEF StoreFails
  <2>3. pc'[w] \notin InEffect /\ Others(w)
    BY <1>0, <2>2, FinishFrame, GotoFrame
  <2> QED
    BY <1>0, <2>1, <2>3, ExecutionsFrame
<1>4. CASE DownstreamFails(w) /\ pc[w] = "submit"
  <2>1. /\ Finish(w) /\ UNCHANGED <<floated, keys, lost>>
        /\ placed' = [placed EXCEPT ![job[w]] = @ + 1] \/ placed' = placed
    BY <1>4 DEF DownstreamFails, Place, outside, keyVars, dbVars
  <2>2. pc'[w] = "idle" /\ Others(w) /\ job[w] \in Batch
    BY <1>0, <1>4, <2>1, FinishFrame, BusyHasBatch
  <2> QED
    BY <1>0, <1>4, <2>1, <2>2 DEF Executions, OneExecution, Others, RestOK
<1>5. CASE DownstreamFails(w) /\ pc[w] # "submit"
  <2>1. pc[w] # "idle" /\ Goto(w, "settle") /\ UNCHANGED <<placed, floated, keys, lost>>
    BY <1>5 DEF DownstreamFails, Hedge, outside, keyVars, dbVars
  <2>2. pc'[w] = "settle" /\ Others(w)
    BY <1>0, <1>1, <2>1, GotoFrame
  <2> QED
    BY <1>0, <2>1, <2>2, ExecutionsFrame
<1>6. CASE KeyCheckFails(w, "agg")
  <2>1. /\ pc[w] # "idle" /\ Goto(w, "submit") /\ UNCHANGED <<placed, floated>>
        /\ lost' = lost \cup {Key("agg", job[w])}
        /\ keys' \in {keys, keys \cup {Key("agg", job[w])}}
    BY <1>6 DEF KeyCheckFails, outside, dbVars
  <2>2. pc'[w] = "submit" /\ job' = job /\ job[w] \in Batch /\ Others(w)
    BY <1>0, <1>1, <2>1, GotoFrame
  <2> QED
    BY <2>1, <2>2, KeysDiffer DEF Executions, OneExecution, Others
<1> QED
  BY <1>2, <1>3, <1>4, <1>5, <1>6

\* What every step outside the stretch has in common.
LEMMA OutsideStretch ==
    ASSUME TypeOK, NEW w \in Worker,
           \/ \E b \in Batch : CloseBatch(w, b) \/ Resubmit(w, b)
           \/ Record(w) \/ Load(w) \/ Create(w) \/ Advance(w)
           \/ Adjust(w) \/ ClaimHedge(w) \/ Expose(w) \/ SettleOrder(w) \/ Settle(w)
           \/ EmitExecuted(w) \/ Crash(w) \/ KeyCheckFails(w, "hedge")
    PROVE  /\ Others(w) /\ pc'[w] \notin InEffect
           /\ placed' = placed /\ floated' = floated
           /\ keys \subseteq keys' /\ lost \subseteq lost'
<1> USE DEF At, InEffect, dbVars, outside, keyVars
<1>0. WorkerOK
  BY TypeParts
<1>1. Call = {"record", "load", "create", "advance", "claim", "submit", "fill", "float",
              "adjust", "hedge", "expose", "settleOrder", "settle", "emit"}
  BY DEF Call
<1>2. CASE \E b \in Batch : CloseBatch(w, b) \/ Resubmit(w, b)
  BY <1>0, <1>1, <1>2, StartFrame DEF CloseBatch, Resubmit, MoveBatch
<1>3. CASE Record(w) \/ Advance(w)
  BY <1>0, <1>1, <1>3, GotoFrame DEF Record, Advance, Append, MoveBatch
<1>4. CASE Load(w)
  <2>1. UNCHANGED <<placed, floated, keys, lost>>
    BY <1>4 DEF Load
  <2>2. CASE Finish(w)
    BY <1>0, <2>1, <2>2, FinishFrame
  <2>3. CASE ~Finish(w)
    BY <1>0, <1>4, <2>1, <2>3 DEF Load, WorkerOK, Others
  <2> QED
    BY <2>2, <2>3
<1>5. CASE Create(w)
  BY <1>0, <1>1, <1>5, FinishFrame, GotoFrame DEF Create, CreateRow
<1>6. CASE Adjust(w) \/ Expose(w) \/ SettleOrder(w) \/ Settle(w)
  BY <1>0, <1>1, <1>6, GotoFrame
  DEF Adjust, Expose, SettleOrder, Settle, Append, Hedge, SettleRow, MoveBatch
<1>7. CASE ClaimHedge(w)
  <2>1. pc[w] # "idle" /\ \E there \in {"expose", "settle"} : Goto(w, there)
    BY <1>7, AfterHedgeClaimPlace DEF ClaimHedge
  <2> QED
    BY <1>0, <1>1, <1>7, <2>1, GotoFrame DEF ClaimHedge
<1>8. CASE EmitExecuted(w) \/ Crash(w)
  BY <1>0, <1>8, FinishFrame DEF EmitExecuted, Crash, Append
<1>9. CASE KeyCheckFails(w, "hedge")
  <2>1. pc[w] # "idle" /\ \E there \in {"expose", "settle"} : Goto(w, there)
    BY <1>9, AfterHedgeClaimPlace DEF KeyCheckFails
  <2> QED
    BY <1>0, <1>1, <1>9, <2>1, GotoFrame DEF KeyCheckFails
<1> QED
  BY <1>2, <1>3, <1>4, <1>5, <1>6, <1>7, <1>8, <1>9

\* Steps that are nobody's: time, late totals, stuttering.
LEMMA NobodysStep ==
    ASSUME \/ \E k \in keys : KeyExpires(k)
           \/ \E b \in Batch, amount \in Amount : LateTotal(b, amount)
           \/ UNCHANGED vars
    PROVE  /\ UNCHANGED <<pc, job, placed, floated, hedged>>
           /\ \/ UNCHANGED <<keys, lost>>
              \/ \E k \in keys : keys' = keys \ {k} /\ lost' = lost \cup {k}
BY DEF KeyExpires, LateTotal, vars, dbVars, keyVars, outside, workerVars

LEMMA ExecutionsStep ==
    ASSUME TypeOK, Executions, [Next]_vars
    PROVE  Executions'
<1>1. CASE \/ \E k \in keys : KeyExpires(k)
           \/ \E b \in Batch, amount \in Amount : LateTotal(b, amount)
           \/ UNCHANGED vars
  BY <1>1, NobodysStep DEF Executions, OneExecution
<1>2. ASSUME NEW w \in Worker,
             \/ \E b \in Batch : CloseBatch(w, b) \/ Resubmit(w, b)
             \/ Submitting(w) \/ Filled(w) \/ Fails(w)
      PROVE  Executions'
  <2>1. CASE Claim(w) \/ Submit(w) \/ Fill(w) \/ Float(w)
    BY <2>1, ExecutionsStretch
  <2>2. CASE StoreFails(w) \/ DownstreamFails(w) \/ KeyCheckFails(w, "agg")
    BY <2>2, ExecutionsFail
  <2>3. CASE /\ ~(Claim(w) \/ Submit(w) \/ Fill(w) \/ Float(w))
             /\ ~(StoreFails(w) \/ DownstreamFails(w) \/ KeyCheckFails(w, "agg"))
    <3>1. /\ Others(w) /\ pc'[w] \notin InEffect
          /\ placed' = placed /\ floated' = floated
          /\ keys \subseteq keys' /\ lost \subseteq lost'
      BY <1>2, <2>3, OutsideStretch DEF Submitting, Filled, Fails
    <3> QED
      BY <3>1, TypeParts, ExecutionsFrame
  <2> QED
    BY <2>1, <2>2, <2>3
<1> QED
  BY <1>1, <1>2 DEF Next

-------------------------------------------------------------------------------
(* The same for the hedge key: its stretch is "expose".                      *)

LEMMA HedgesStretch ==
    ASSUME TypeOK, Hedges, NEW w \in Worker,
           \/ ClaimHedge(w) \/ Expose(w) \/ KeyCheckFails(w, "hedge")
           \/ (DownstreamFails(w) /\ pc[w] = "expose")
    PROVE  Hedges'
<1> USE DEF At
<1>0. WorkerOK /\ RestOK
  BY TypeParts
<1>1. {"expose", "settle", "settleOrder"} \subseteq Call
  BY DEF Call
<1>2. CASE ClaimHedge(w) \/ KeyCheckFails(w, "hedge")
  <2>1. /\ pc[w] # "idle"
        /\ \E there \in {"expose", "settle"} : Goto(w, there)
        /\ hedged' = hedged /\ keys \subseteq keys' /\ lost \subseteq lost'
    BY <1>2, AfterHedgeClaimPlace DEF ClaimHedge, KeyCheckFails, outside
  <2>2. pc'[w] \in {"expose", "settle"} /\ job' = job /\ job[w] \in Batch /\ Others(w)
    <3>1. PICK there \in {"expose", "settle"} : Goto(w, there)
      BY <2>1
    <3> QED
      BY <1>0, <1>1, <2>1, <3>1, GotoFrame
  <2>3. CASE pc'[w] = "settle"
    BY <1>0, <2>1, <2>2, <2>3, HedgesFrame
  <2>4. CASE pc'[w] = "expose" /\ ClaimHedge(w)
    <3>1. /\ Key("hedge", job[w]) \notin keys /\ lost' = lost
          /\ keys' = keys \cup {Key("hedge", job[w])}
      BY <1>0, <1>1, <2>4 DEF ClaimHedge, Unclaimed, Goto, WorkerOK
    <3> QED
      BY <2>1, <2>2, <2>4, <3>1, KeysDiffer DEF Hedges, OneHedge, Others
  <2>5. CASE pc'[w] = "expose" /\ KeyCheckFails(w, "hedge")
    <3>1. /\ lost' = lost \cup {Key("hedge", job[w])}
          /\ keys' \in {keys, keys \cup {Key("hedge", job[w])}}
      BY <2>5 DEF KeyCheckFails
    <3> QED
      BY <2>1, <2>2, <2>5, <3>1, KeysDiffer DEF Hedges, OneHedge, Others
  <2> QED
    BY <1>2, <2>2, <2>3, <2>4, <2>5
<1>3. CASE Expose(w) \/ (DownstreamFails(w) /\ pc[w] = "expose")
  <2>1. /\ pc[w] = "expose"
        /\ \E there \in {"settleOrder", "settle"} : Goto(w, there)
        /\ UNCHANGED <<keys, lost>>
        /\ \/ hedged' = [hedged EXCEPT ![job[w]] = @ + 1]
           \/ hedged' = hedged
    BY <1>3 DEF Expose, DownstreamFails, Hedge, outside, keyVars
  <2>2. pc'[w] # "expose" /\ job' = job /\ job[w] \in Batch /\ Others(w)
    <3>1. PICK there \in {"settleOrder", "settle"} : Goto(w, there)
      BY <2>1
    <3> QED
      BY <1>0, <1>1, <2>1, <3>1, GotoFrame
  <2>3. CASE hedged' = hedged
    BY <2>1, <2>2, <2>3 DEF Hedges, OneHedge, Others
  <2>4. CASE hedged' = [hedged EXCEPT ![job[w]] = @ + 1]
    BY <1>0, <2>1, <2>2, <2>4 DEF Hedges, OneHedge, Others, RestOK
  <2> QED
    BY <2>1, <2>3, <2>4
<1> QED
  BY <1>2, <1>3

LEMMA OutsideHedge ==
    ASSUME TypeOK, NEW w \in Worker,
           \/ \E b \in Batch : CloseBatch(w, b) \/ Resubmit(w, b)
           \/ Submitting(w) \/ Float(w) \/ Adjust(w) \/ SettleOrder(w) \/ Settle(w)
           \/ EmitExecuted(w) \/ StoreFails(w) \/ Crash(w) \/ KeyCheckFails(w, "agg")
           \/ (DownstreamFails(w) /\ pc[w] # "expose")
    PROVE  /\ Others(w) /\ pc'[w] # "expose"
           /\ hedged' = hedged /\ keys \subseteq keys' /\ lost \subseteq lost'
<1> USE DEF At, outside, keyVars
<1>0. WorkerOK
  BY TypeParts
<1>1. Call = {"record", "load", "create", "advance", "claim", "submit", "fill", "float",
              "adjust", "hedge", "expose", "settleOrder", "settle", "emit"}
  BY DEF Call
<1>2. CASE \E b \in Batch : CloseBatch(w, b) \/ Resubmit(w, b)
  BY <1>0, <1>1, <1>2, StartFrame DEF CloseBatch, Resubmit
<1>3. CASE Submitting(w)
  <2>1. hedged' = hedged /\ keys \subseteq keys' /\ lost \subseteq lost'
    BY <1>3 DEF Submitting, Record, Load, Create, Advance, Claim, Submit, Place, Fill
  <2>2. CASE Load(w) /\ ~Finish(w)
    BY <1>0, <2>1, <2>2 DEF Load, WorkerOK, Others
  <2>3. CASE Finish(w)
    BY <1>0, <2>1, <2>3, FinishFrame
  <2>4. CASE ~Load(w) /\ ~Finish(w)
    <3>1. pc[w] # "idle" /\ \E there \in Call \ {"expose"} : Goto(w, there)
      BY <1>1, <1>3, <2>4 DEF Submitting, Record, Create, Advance, Claim, Submit, Fill
    <3> QED
      BY <1>0, <2>1, <3>1, GotoFrame
  <2> QED
    BY <2>2, <2>3, <2>4
<1>4. CASE Float(w) \/ Adjust(w) \/ SettleOrder(w) \/ Settle(w)
  BY <1>0, <1>1, <1>4, GotoFrame DEF Float, Adjust, SettleOrder, Settle
<1>5. CASE EmitExecuted(w) \/ Crash(w)
  BY <1>0, <1>5, FinishFrame DEF EmitExecuted, Crash
<1>6. CASE StoreFails(w) \/ KeyCheckFails(w, "agg") \/ (DownstreamFails(w) /\ pc[w] # "expose")
  <2>1. hedged' = hedged /\ keys \subseteq keys' /\ lost \subseteq lost'
    BY <1>6 DEF StoreFails, KeyCheckFails, DownstreamFails, Place
  <2>2. Finish(w) \/ (pc[w] # "idle" /\ \E there \in Call \ {"expose"} : Goto(w, there))
    BY <1>1, <1>6 DEF StoreFails, KeyCheckFails, DownstreamFails
  <2> QED
    BY <1>0, <2>1, <2>2, FinishFrame, GotoFrame
<1> QED
  BY <1>2, <1>3, <1>4, <1>5, <1>6

LEMMA HedgesStep ==
    ASSUME TypeOK, Hedges, [Next]_vars
    PROVE  Hedges'
<1>1. CASE \/ \E k \in keys : KeyExpires(k)
           \/ \E b \in Batch, amount \in Amount : LateTotal(b, amount)
           \/ UNCHANGED vars
  BY <1>1, NobodysStep DEF Hedges, OneHedge
<1>2. ASSUME NEW w \in Worker,
             \/ \E b \in Batch : CloseBatch(w, b) \/ Resubmit(w, b)
             \/ Submitting(w) \/ Filled(w) \/ Fails(w)
      PROVE  Hedges'
  <2>1. CASE \/ ClaimHedge(w) \/ Expose(w) \/ KeyCheckFails(w, "hedge")
             \/ (DownstreamFails(w) /\ pc[w] = "expose")
    BY <2>1, HedgesStretch
  <2>2. CASE ~(\/ ClaimHedge(w) \/ Expose(w) \/ KeyCheckFails(w, "hedge")
               \/ (DownstreamFails(w) /\ pc[w] = "expose"))
    <3>1. /\ Others(w) /\ pc'[w] # "expose"
          /\ hedged' = hedged /\ keys \subseteq keys' /\ lost \subseteq lost'
      BY <1>2, <2>2, OutsideHedge DEF Filled, Fails
    <3> QED
      BY <3>1, TypeParts, HedgesFrame
  <2> QED
    BY <2>1, <2>2
<1> QED
  BY <1>1, <1>2 DEF Next

-------------------------------------------------------------------------------
(* How often at most, when keys are lost.  A free key and a worker past its   *)
(* claim are each worth one effect still to come; those to come and those that *)
(* happened are at most one and one more per expiry and fault.                *)

Most == 1 + used["expiry"] + used["fault"]
Heading(b, at) == {w \in Worker : job[w] = b /\ pc[w] \in at}
Free(k) == IF k \in keys THEN 0 ELSE 1

PlacedBound(b) ==
    /\ IsFiniteSet(Heading(b, {"submit"}))
    /\ Cardinality(Heading(b, {"submit"})) + placed[b] + Free(Key("agg", b)) <= Most
FloatedBound(b) ==
    /\ IsFiniteSet(Heading(b, InEffect))
    /\ Cardinality(Heading(b, InEffect)) + floated[b] + Free(Key("agg", b)) <= Most
HedgedBound(b) ==
    /\ IsFiniteSet(Heading(b, {"expose"}))
    /\ Cardinality(Heading(b, {"expose"})) + hedged[b] + Free(Key("hedge", b)) <= Most
Bounded == \A b \in Batch : PlacedBound(b) /\ FloatedBound(b) /\ HedgedBound(b)

\* What a step does to them: it gives no allowance away, or pays for a worker that enters
\* the stretch, or one leaves it with the effect.
Pays(k, cost) == Free(k)' + Most + cost <= Free(k) + Most'
PassesBy(b, k, at) == Heading(b, at)' \subseteq Heading(b, at) /\ Pays(k, 0)
Enters(b, k, at) == (\E w \in Worker : Heading(b, at)' \subseteq Heading(b, at) \cup {w}) /\ Pays(k, 1)
Leaves(b, k, at) ==
    (\E w \in Heading(b, at) : Heading(b, at)' \subseteq Heading(b, at) \ {w}) /\ Pays(k, 0)

LEMMA BoundTyped ==
    ASSUME TypeOK, NEW k
    PROVE  Most \in Nat /\ Free(k) \in {0, 1}
BY DEF TypeOK, Budget, Most, Free

LEMMA MovesCount ==
    ASSUME NEW S, IsFiniteSet(S), NEW T,
           \/ T \subseteq S
           \/ \E x : T \subseteq S \cup {x}
           \/ \E x \in S : T \subseteq S \ {x}
    PROVE  /\ IsFiniteSet(T) /\ Cardinality(T) \in Nat /\ Cardinality(S) \in Nat
           /\ T \subseteq S => Cardinality(T) <= Cardinality(S)
           /\ Cardinality(T) <= Cardinality(S) + 1
           /\ (\E x \in S : T \subseteq S \ {x}) => Cardinality(T) + 1 <= Cardinality(S)
<1>1. Cardinality(S) \in Nat
  BY FS_CardinalityType
<1>2. PICK x : T \subseteq S \cup {x}
  OBVIOUS
<1>3. /\ IsFiniteSet(S \cup {x}) /\ Cardinality(S \cup {x}) \in Nat
      /\ Cardinality(S \cup {x}) <= Cardinality(S) + 1
  BY OneMoreCounts
<1>4. /\ IsFiniteSet(T) /\ Cardinality(T) <= Cardinality(S \cup {x})
      /\ Cardinality(T) \in Nat
  BY <1>2, <1>3, SubsetCounts, FS_CardinalityType
<1>5. ASSUME NEW y \in S, T \subseteq S \ {y} PROVE Cardinality(T) + 1 <= Cardinality(S)
  <2>1. IsFiniteSet(S \ {y}) /\ Cardinality(S \ {y}) = Cardinality(S) - 1
    BY FS_RemoveElement
  <2>2. Cardinality(T) <= Cardinality(S \ {y})
    BY <1>5, <2>1, SubsetCounts
  <2> QED
    BY <1>1, <1>4, <2>1, <2>2
<1> QED
  BY <1>1, <1>3, <1>4, <1>5, SubsetCounts

\* Where the workers at a stretch may be after a step of w.
LEMMA HeadingFrame ==
    ASSUME NEW w \in Worker, Others(w), NEW b \in Batch, NEW at
    PROVE  /\ Heading(b, at)' \subseteq Heading(b, at) \cup {w}
           /\ pc'[w] \notin at \/ job'[w] # b \/ (pc[w] \in at /\ job[w] = b)
                => Heading(b, at)' \subseteq Heading(b, at)
           /\ pc'[w] \notin at => Heading(b, at)' \subseteq Heading(b, at) \ {w}
BY DEF Heading, Others

\* The allowance only grows, by one with a fault and with a key that runs out.
LEMMA MostGrows ==
    ASSUME TypeOK, [Next]_vars
    PROVE  /\ Most' >= Most
           /\ \A w \in Worker : Fails(w) => Most' = Most + 1
           /\ \A k \in keys : KeyExpires(k) => Most' = Most + 1
<1>1. used \in [Budget -> Nat] /\ Budget = {"resubmit", "total", "expiry", "fault"}
  BY DEF TypeOK, Budget
<1>2. Use("fault") \/ Use("expiry") => Most' = Most + 1
  BY <1>1 DEF Use, Most
<1>3. used' = used \/ \E x \in Budget : Use(x)
  BY <1>1 DEF Next, vars, CloseBatch, Resubmit, Submitting, Record, Load, Create, Advance, Claim, Submit,
     Fill, Filled, Float, Adjust, ClaimHedge, Expose, SettleOrder, Settle, EmitExecuted, Fails,
     StoreFails, DownstreamFails, Crash, KeyCheckFails, KeyExpires, LateTotal
<1>4. used' = used => Most' = Most
  BY DEF Most
<1>5. ASSUME NEW x \in Budget, Use(x) PROVE Most' >= Most
  BY <1>1, <1>5 DEF Use, Most
<1>6. Most' >= Most
  BY <1>1, <1>3, <1>4, <1>5 DEF Most
<1> QED
  BY <1>2, <1>6 DEF Fails, StoreFails, DownstreamFails, Crash, KeyCheckFails, KeyExpires

\* Keys that stay cost nothing, a key that is taken pays, and so does a fault.
LEMMA Payments ==
    ASSUME TypeOK, TypeOK', [Next]_vars, NEW k
    PROVE  /\ (k \in keys => k \in keys') => Pays(k, 0)
           /\ k \notin keys /\ k \in keys' => Pays(k, 1)
           /\ (k \in keys => k \in keys') /\ (\E w \in Worker : Fails(w)) => Pays(k, 1)
           /\ \A x \in keys : KeyExpires(x) => Pays(k, 0)
<1>1. /\ Most \in Nat /\ Most' \in Nat /\ Free(k) \in {0, 1} /\ Free(k)' \in {0, 1}
      /\ Most' >= Most
  BY MostGrows DEF TypeOK, Budget, Most, Free
<1>2. (k \in keys => k \in keys') => Pays(k, 0)
  <2>1. (k \in keys => k \in keys') => Free(k)' <= Free(k)
    BY DEF Free
  <2> QED
    BY <1>1, <2>1 DEF Pays
<1>3. ASSUME k \notin keys, k \in keys' PROVE Pays(k, 1)
  <2>1. Free(k)' + 1 <= Free(k)
    BY <1>3 DEF Free
  <2> QED
    BY <1>1, <2>1 DEF Pays
<1>4. ASSUME k \in keys => k \in keys', NEW w \in Worker, Fails(w) PROVE Pays(k, 1)
  <2>1. Free(k)' <= Free(k) /\ Most' = Most + 1
    BY <1>4, MostGrows DEF Free
  <2> QED
    BY <1>1, <2>1 DEF Pays
<1>5. ASSUME NEW x \in keys, KeyExpires(x) PROVE Pays(k, 0)
  <2>1. Most' = Most + 1
    BY <1>5, MostGrows
  <2> QED
    BY <1>1, <2>1 DEF Pays
<1> QED
  BY <1>2, <1>3, <1>4, <1>5

\* Nobody's steps pay for the key that runs out.
LEMMA NobodyPasses ==
    ASSUME TypeOK, TypeOK', [Next]_vars,
           \/ \E k \in keys : KeyExpires(k)
           \/ \E b \in Batch, amount \in Amount : LateTotal(b, amount)
           \/ UNCHANGED vars
    PROVE  \A b \in Batch : \A k : \A at : PassesBy(b, k, at)
<1>1. UNCHANGED <<pc, job>>
  BY NobodysStep
<1>2. ASSUME NEW k PROVE Pays(k, 0)
  <2>1. CASE \E x \in keys : KeyExpires(x)
    BY <2>1, Payments
  <2>2. CASE keys' = keys
    BY <2>2, Payments
  <2> QED
    BY <2>1, <2>2 DEF LateTotal, vars, keyVars
<1> QED
  BY <1>1, <1>2 DEF PassesBy, Heading

\* A worker that ends up outside the stretch, with no key taken away.
LEMMA WorkerPasses ==
    ASSUME TypeOK, TypeOK', [Next]_vars, NEW w \in Worker, Others(w), NEW b \in Batch, NEW k, NEW at,
           keys \subseteq keys',
           pc'[w] \notin at \/ job'[w] # b \/ (pc[w] \in at /\ job[w] = b)
    PROVE  PassesBy(b, k, at)
BY HeadingFrame, Payments DEF PassesBy

LEMMA PlacedMoves ==
    ASSUME TypeOK, TypeOK', [Next]_vars, NEW b \in Batch
    PROVE  \/ PassesBy(b, Key("agg", b), {"submit"}) /\ placed'[b] = placed[b]
           \/ Enters(b, Key("agg", b), {"submit"}) /\ placed'[b] = placed[b]
           \/ Leaves(b, Key("agg", b), {"submit"}) /\ placed'[b] = placed[b] + 1
<1> USE DEF At
<1> DEFINE k == Key("agg", b)
           Moves == \/ PassesBy(b, k, {"submit"}) /\ placed'[b] = placed[b]
                    \/ Enters(b, k, {"submit"}) /\ placed'[b] = placed[b]
                    \/ Leaves(b, k, {"submit"}) /\ placed'[b] = placed[b] + 1
<1>0. WorkerOK /\ DbOK /\ RestOK
  BY TypeParts
<1>1. CASE \/ \E x \in keys : KeyExpires(x)
           \/ \E d \in Batch, amount \in Amount : LateTotal(d, amount)
           \/ UNCHANGED vars
  BY <1>1, NobodyPasses, NobodysStep
<1>2. ASSUME NEW w \in Worker,
             \/ \E d \in Batch : CloseBatch(w, d) \/ Resubmit(w, d)
             \/ Submitting(w) \/ Filled(w) \/ Fails(w)
      PROVE  Moves
  <2>1. CASE Claim(w) \/ KeyCheckFails(w, "agg")
    <3>1. /\ pc[w] = "claim" /\ placed' = placed /\ keys \subseteq keys'
          /\ Claim(w) => k \in keys' \/ job[w] # b
      BY <2>1 DEF Claim, KeyCheckFails, outside
    <3>2. Others(w) /\ job[w] \in Batch /\ job'[w] \in {job[w], None}
      BY <1>2, <2>1, OwnBatch DEF Submitting, Fails
    <3>3. CASE job[w] # b \/ pc'[w] # "submit"
      <4>1. pc'[w] \notin {"submit"} \/ job'[w] # b
        BY <3>2, <3>3, NoneAssumption
      <4> QED
        BY <3>1, <3>2, <4>1, WorkerPasses
    <3>4. CASE job[w] = b /\ pc'[w] = "submit"
      <4>1. Pays(k, 1)
        <5>1. CASE Claim(w)
          <6>1. k \notin keys
            BY <1>0, <3>4, <5>1 DEF Claim, Unclaimed, Finish, WorkerOK
          <6> QED
            BY <3>1, <3>4, <5>1, <6>1, Payments
        <5>2. CASE KeyCheckFails(w, "agg")
          BY <3>1, <5>2, Payments DEF Fails
        <5> QED
          BY <2>1, <5>1, <5>2
      <4>2. Heading(b, {"submit"})' \subseteq Heading(b, {"submit"}) \cup {w}
        BY <3>2, HeadingFrame
      <4> QED
        BY <3>1, <4>1, <4>2 DEF Enters
    <3> QED
      BY <3>3, <3>4
  <2>2. CASE Submit(w) \/ (DownstreamFails(w) /\ pc[w] = "submit")
    <3>1. /\ pc[w] = "submit" /\ keys' = keys
          /\ placed' = placed \/ placed' = [placed EXCEPT ![job[w]] = @ + 1]
      BY <2>2 DEF Submit, DownstreamFails, Place, keyVars, outside
    <3>2. Others(w) /\ job[w] \in Batch /\ pc'[w] # "submit"
      <4>1. Others(w) /\ job[w] \in Batch
        BY <2>2, OwnBatch DEF Submitting, Fails
      <4>2. pc'[w] # "submit"
        BY <1>0, <2>2, <3>1 DEF Submit, DownstreamFails, Goto, Finish, WorkerOK
      <4> QED
        BY <4>1, <4>2
    <3>3. CASE placed'[b] = placed[b]
      BY <3>1, <3>2, <3>3, WorkerPasses
    <3>4. CASE placed'[b] # placed[b]
      <4>1. job[w] = b /\ placed'[b] = placed[b] + 1
        BY <1>0, <3>1, <3>2, <3>4 DEF RestOK
      <4>2. w \in Heading(b, {"submit"})
        BY <3>1, <4>1 DEF Heading
      <4>4. Heading(b, {"submit"})' \subseteq Heading(b, {"submit"}) \ {w}
        BY <3>2, HeadingFrame
      <4>3. Pays(k, 0)
        BY <3>1, Payments
      <4> QED
        BY <4>1, <4>2, <4>3, <4>4 DEF Leaves
    <3> QED
      BY <3>3, <3>4
  <2>3. CASE /\ ~(Claim(w) \/ KeyCheckFails(w, "agg"))
             /\ ~(Submit(w) \/ (DownstreamFails(w) /\ pc[w] = "submit"))
    <3>1. Others(w) /\ pc'[w] # "submit" /\ placed' = placed /\ keys \subseteq keys'
      <4>1. CASE Fill(w) \/ Float(w) \/ StoreFails(w) \/ DownstreamFails(w)
        <5>1. Others(w)
          BY <4>1, OwnBatch DEF Submitting, Filled, Fails
        <5>2. placed' = placed /\ keys \subseteq keys'
          BY <2>3, <4>1 DEF Fill, Float, StoreFails, DownstreamFails, Hedge, outside, keyVars
        <5>3. pc'[w] # "submit"
          BY <1>0, <2>3, <4>1 DEF Fill, Float, StoreFails, DownstreamFails, Goto, Finish, WorkerOK
        <5> QED
          BY <5>1, <5>2, <5>3
      <4>2. CASE ~(Fill(w) \/ Float(w) \/ StoreFails(w) \/ DownstreamFails(w))
        BY <1>2, <2>3, <4>2, OutsideStretch DEF Submitting, Filled, Fails, InEffect
      <4> QED
        BY <4>1, <4>2
    <3> QED
      BY <3>1, WorkerPasses
  <2> QED
    BY <2>1, <2>2, <2>3
<1> QED
  BY <1>1, <1>2 DEF Next

LEMMA FloatedMoves ==
    ASSUME TypeOK, TypeOK', [Next]_vars, NEW b \in Batch
    PROVE  \/ PassesBy(b, Key("agg", b), InEffect) /\ floated'[b] = floated[b]
           \/ Enters(b, Key("agg", b), InEffect) /\ floated'[b] = floated[b]
           \/ Leaves(b, Key("agg", b), InEffect) /\ floated'[b] = floated[b] + 1
<1> USE DEF At
<1> DEFINE k == Key("agg", b)
           Moves == \/ PassesBy(b, k, InEffect) /\ floated'[b] = floated[b]
                    \/ Enters(b, k, InEffect) /\ floated'[b] = floated[b]
                    \/ Leaves(b, k, InEffect) /\ floated'[b] = floated[b] + 1
<1>0. WorkerOK /\ DbOK /\ RestOK
  BY TypeParts
<1>1. CASE \/ \E x \in keys : KeyExpires(x)
           \/ \E d \in Batch, amount \in Amount : LateTotal(d, amount)
           \/ UNCHANGED vars
  BY <1>1, NobodyPasses, NobodysStep
<1>2. ASSUME NEW w \in Worker,
             \/ \E d \in Batch : CloseBatch(w, d) \/ Resubmit(w, d)
             \/ Submitting(w) \/ Filled(w) \/ Fails(w)
      PROVE  Moves
  <2>1. CASE Claim(w) \/ KeyCheckFails(w, "agg")
    <3>1. /\ pc[w] = "claim" /\ floated' = floated /\ keys \subseteq keys'
          /\ Claim(w) => k \in keys' \/ job[w] # b
      BY <2>1 DEF Claim, KeyCheckFails, dbVars
    <3>2. Others(w) /\ job[w] \in Batch /\ job'[w] \in {job[w], None}
      BY <1>2, <2>1, OwnBatch DEF Submitting, Fails
    <3>3. CASE job[w] # b \/ pc'[w] \notin InEffect
      <4>1. pc'[w] \notin InEffect \/ job'[w] # b
        BY <3>2, <3>3, NoneAssumption
      <4> QED
        BY <3>1, <3>2, <4>1, WorkerPasses
    <3>4. CASE job[w] = b /\ pc'[w] \in InEffect
      <4>1. Pays(k, 1)
        <5>1. CASE Claim(w)
          <6>1. k \notin keys
            BY <1>0, <3>4, <5>1 DEF Claim, Unclaimed, Finish, WorkerOK, InEffect
          <6> QED
            BY <3>1, <3>4, <5>1, <6>1, Payments
        <5>2. CASE KeyCheckFails(w, "agg")
          BY <3>1, <5>2, Payments DEF Fails
        <5> QED
          BY <2>1, <5>1, <5>2
      <4>2. Heading(b, InEffect)' \subseteq Heading(b, InEffect) \cup {w}
        BY <3>2, HeadingFrame
      <4> QED
        BY <3>1, <4>1, <4>2 DEF Enters
    <3> QED
      BY <3>3, <3>4
  <2>2. CASE Float(w) \/ (StoreFails(w) /\ pc[w] = "float")
    <3>1. /\ pc[w] = "float" /\ keys' = keys
          /\ floated' = floated \/ floated' = [floated EXCEPT ![job[w]] = @ + 1]
      BY <2>2 DEF Float, StoreFails, AddToFloat, keyVars, dbVars
    <3>2. Others(w) /\ job[w] \in Batch /\ pc'[w] \notin InEffect
      <4>1. Others(w) /\ job[w] \in Batch
        BY <2>2, OwnBatch DEF Filled, Fails
      <4>2. pc'[w] \notin InEffect
        BY <1>0, <2>2, <3>1 DEF Float, StoreFails, Goto, Finish, WorkerOK, InEffect
      <4> QED
        BY <4>1, <4>2
    <3>3. CASE floated'[b] = floated[b]
      BY <3>1, <3>2, <3>3, WorkerPasses
    <3>4. CASE floated'[b] # floated[b]
      <4>1. job[w] = b /\ floated'[b] = floated[b] + 1
        BY <1>0, <3>1, <3>2, <3>4 DEF DbOK
      <4>2. w \in Heading(b, InEffect)
        BY <3>1, <4>1 DEF Heading, InEffect
      <4>4. Heading(b, InEffect)' \subseteq Heading(b, InEffect) \ {w}
        BY <3>2, HeadingFrame
      <4>3. Pays(k, 0)
        BY <3>1, Payments
      <4> QED
        BY <4>1, <4>2, <4>3, <4>4 DEF Leaves
    <3> QED
      BY <3>3, <3>4
  <2>3. CASE Submit(w) \/ Fill(w)
    <3>1. pc[w] \in InEffect /\ pc'[w] \in InEffect /\ job' = job /\ floated' = floated /\ keys' = keys
      BY <1>0, <2>3 DEF Submit, Fill, FillRow, Goto, dbVars, keyVars, WorkerOK, InEffect
    <3>2. Others(w)
      BY <2>3, OwnBatch DEF Submitting
    <3>3. job'[w] # b \/ (pc[w] \in InEffect /\ job[w] = b)
      BY <3>1
    <3> QED
      BY <3>1, <3>2, <3>3, WorkerPasses
  <2>4. CASE /\ ~(Claim(w) \/ KeyCheckFails(w, "agg") \/ Submit(w) \/ Fill(w))
             /\ ~(Float(w) \/ (StoreFails(w) /\ pc[w] = "float"))
    <3>1. Others(w) /\ pc'[w] \notin InEffect /\ floated' = floated /\ keys \subseteq keys'
      <4>1. CASE StoreFails(w) \/ DownstreamFails(w)
        <5>1. Others(w)
          BY <4>1, OwnBatch DEF Fails
        <5>2. floated' = floated /\ keys \subseteq keys'
          BY <2>4, <4>1 DEF StoreFails, DownstreamFails, Append, MoveBatch, CreateRow, FillRow,
             SettleRow, dbVars, keyVars
        <5>3. pc'[w] \notin InEffect
          BY <1>0, <2>4, <4>1 DEF StoreFails, DownstreamFails, Goto, Finish, WorkerOK, InEffect
        <5> QED
          BY <5>1, <5>2, <5>3
      <4>2. CASE ~(StoreFails(w) \/ DownstreamFails(w))
        BY <1>2, <2>4, <4>2, OutsideStretch DEF Submitting, Filled, Fails
      <4> QED
        BY <4>1, <4>2
    <3> QED
      BY <3>1, WorkerPasses
  <2> QED
    BY <2>1, <2>2, <2>3, <2>4
<1> QED
  BY <1>1, <1>2 DEF Next

LEMMA HedgedMoves ==
    ASSUME TypeOK, TypeOK', [Next]_vars, NEW b \in Batch
    PROVE  \/ PassesBy(b, Key("hedge", b), {"expose"}) /\ hedged'[b] = hedged[b]
           \/ Enters(b, Key("hedge", b), {"expose"}) /\ hedged'[b] = hedged[b]
           \/ Leaves(b, Key("hedge", b), {"expose"}) /\ hedged'[b] = hedged[b] + 1
<1> USE DEF At
<1> DEFINE k == Key("hedge", b)
           Moves == \/ PassesBy(b, k, {"expose"}) /\ hedged'[b] = hedged[b]
                    \/ Enters(b, k, {"expose"}) /\ hedged'[b] = hedged[b]
                    \/ Leaves(b, k, {"expose"}) /\ hedged'[b] = hedged[b] + 1
<1>0. WorkerOK /\ DbOK /\ RestOK
  BY TypeParts
<1>1. CASE \/ \E x \in keys : KeyExpires(x)
           \/ \E d \in Batch, amount \in Amount : LateTotal(d, amount)
           \/ UNCHANGED vars
  BY <1>1, NobodyPasses, NobodysStep
<1>2. ASSUME NEW w \in Worker,
             \/ \E d \in Batch : CloseBatch(w, d) \/ Resubmit(w, d)
             \/ Submitting(w) \/ Filled(w) \/ Fails(w)
      PROVE  Moves
  <2>1. CASE ClaimHedge(w) \/ KeyCheckFails(w, "hedge")
    <3>1. /\ pc[w] = "hedge" /\ hedged' = hedged /\ keys \subseteq keys'
          /\ ClaimHedge(w) => k \in keys' \/ job[w] # b
      BY <2>1 DEF ClaimHedge, KeyCheckFails, outside
    <3>2. Others(w) /\ job[w] \in Batch /\ job'[w] \in {job[w], None}
      BY <1>2, <2>1, OwnBatch DEF Filled, Fails
    <3>3. CASE job[w] # b \/ pc'[w] # "expose"
      <4>1. pc'[w] \notin {"expose"} \/ job'[w] # b
        BY <3>2, <3>3, NoneAssumption
      <4> QED
        BY <3>1, <3>2, <4>1, WorkerPasses
    <3>4. CASE job[w] = b /\ pc'[w] = "expose"
      <4>1. Pays(k, 1)
        <5>1. CASE ClaimHedge(w)
          <6>1. k \notin keys
            BY <1>0, <3>4, <5>1 DEF ClaimHedge, Unclaimed, Goto, WorkerOK
          <6> QED
            BY <3>1, <3>4, <5>1, <6>1, Payments
        <5>2. CASE KeyCheckFails(w, "hedge")
          BY <3>1, <5>2, Payments DEF Fails
        <5> QED
          BY <2>1, <5>1, <5>2
      <4>2. Heading(b, {"expose"})' \subseteq Heading(b, {"expose"}) \cup {w}
        BY <3>2, HeadingFrame
      <4> QED
        BY <3>1, <4>1, <4>2 DEF Enters
    <3> QED
      BY <3>3, <3>4
  <2>2. CASE Expose(w) \/ (DownstreamFails(w) /\ pc[w] = "expose")
    <3>1. /\ pc[w] = "expose" /\ keys' = keys
          /\ hedged' = hedged \/ hedged' = [hedged EXCEPT ![job[w]] = @ + 1]
      BY <2>2 DEF Expose, DownstreamFails, Hedge, keyVars, outside
    <3>2. Others(w) /\ job[w] \in Batch /\ pc'[w] # "expose"
      <4>1. Others(w) /\ job[w] \in Batch
        BY <2>2, OwnBatch DEF Filled, Fails
      <4>2. pc'[w] # "expose"
        BY <1>0, <2>2, <3>1 DEF Expose, DownstreamFails, Goto, WorkerOK
      <4> QED
        BY <4>1, <4>2
    <3>3. CASE hedged'[b] = hedged[b]
      BY <3>1, <3>2, <3>3, WorkerPasses
    <3>4. CASE hedged'[b] # hedged[b]
      <4>1. job[w] = b /\ hedged'[b] = hedged[b] + 1
        BY <1>0, <3>1, <3>2, <3>4 DEF RestOK
      <4>2. w \in Heading(b, {"expose"})
        BY <3>1, <4>1 DEF Heading
      <4>4. Heading(b, {"expose"})' \subseteq Heading(b, {"expose"}) \ {w}
        BY <3>2, HeadingFrame
      <4>3. Pays(k, 0)
        BY <3>1, Payments
      <4> QED
        BY <4>1, <4>2, <4>3, <4>4 DEF Leaves
    <3> QED
      BY <3>3, <3>4
  <2>3. CASE /\ ~(ClaimHedge(w) \/ KeyCheckFails(w, "hedge"))
             /\ ~(Expose(w) \/ (DownstreamFails(w) /\ pc[w] = "expose"))
    <3>1. Others(w) /\ pc'[w] # "expose" /\ hedged' = hedged /\ keys \subseteq keys'
      BY <1>2, <2>3, OutsideHedge DEF Filled, Fails
    <3> QED
      BY <3>1, WorkerPasses
  <2> QED
    BY <2>1, <2>2, <2>3
<1> QED
  BY <1>1, <1>2 DEF Next

LEMMA BoundedStep ==
    ASSUME TypeOK, TypeOK', Bounded, [Next]_vars
    PROVE  Bounded'
<1> SUFFICES ASSUME NEW b \in Batch
             PROVE  PlacedBound(b)' /\ FloatedBound(b)' /\ HedgedBound(b)'
  BY DEF Bounded
<1>1. /\ placed[b] \in Nat /\ placed'[b] \in Nat /\ floated[b] \in Nat /\ floated'[b] \in Nat
      /\ hedged[b] \in Nat /\ hedged'[b] \in Nat /\ Most \in Nat /\ Most' \in Nat
      /\ \A k : Free(k) \in Nat /\ Free(k)' \in Nat
  BY DEF TypeOK, Budget, Most, Free
<1>2. PlacedBound(b) /\ FloatedBound(b) /\ HedgedBound(b)
  BY DEF Bounded
<1>3. PlacedBound(b)'
  <2> DEFINE S == Heading(b, {"submit"})
             k == Key("agg", b)
  <2>1. IsFiniteSet(S) /\ Cardinality(S) + placed[b] + Free(k) <= Most
    BY <1>2 DEF PlacedBound
  <2>2. \/ S' \subseteq S /\ placed'[b] = placed[b] /\ Free(k)' + Most + 0 <= Free(k) + Most'
        \/ /\ \E x : S' \subseteq S \cup {x}
           /\ placed'[b] = placed[b] /\ Free(k)' + Most + 1 <= Free(k) + Most'
        \/ /\ \E x \in S : S' \subseteq S \ {x}
           /\ placed'[b] = placed[b] + 1 /\ Free(k)' + Most + 0 <= Free(k) + Most'
    BY PlacedMoves DEF PassesBy, Enters, Leaves, Pays
  <2>3. /\ IsFiniteSet(S') /\ Cardinality(S') \in Nat /\ Cardinality(S) \in Nat
        /\ \/ /\ Cardinality(S') <= Cardinality(S)
              /\ placed'[b] = placed[b] /\ Free(k)' + Most + 0 <= Free(k) + Most'
           \/ /\ Cardinality(S') <= Cardinality(S) + 1
              /\ placed'[b] = placed[b] /\ Free(k)' + Most + 1 <= Free(k) + Most'
           \/ /\ Cardinality(S') + 1 <= Cardinality(S)
              /\ placed'[b] = placed[b] + 1 /\ Free(k)' + Most + 0 <= Free(k) + Most'
    <3> HIDE DEF S
    <3> QED
      BY <2>1, <2>2, MovesCount
  <2>4. Cardinality(S') + placed'[b] + Free(k)' <= Most'
    <3> HIDE DEF S, k
    <3> QED
      BY <1>1, <2>1, <2>3
  <2> QED
    BY <2>3, <2>4 DEF PlacedBound
<1>4. FloatedBound(b)'
  <2> DEFINE S == Heading(b, InEffect)
             k == Key("agg", b)
  <2>1. IsFiniteSet(S) /\ Cardinality(S) + floated[b] + Free(k) <= Most
    BY <1>2 DEF FloatedBound
  <2>2. \/ S' \subseteq S /\ floated'[b] = floated[b] /\ Free(k)' + Most + 0 <= Free(k) + Most'
        \/ /\ \E x : S' \subseteq S \cup {x}
           /\ floated'[b] = floated[b] /\ Free(k)' + Most + 1 <= Free(k) + Most'
        \/ /\ \E x \in S : S' \subseteq S \ {x}
           /\ floated'[b] = floated[b] + 1 /\ Free(k)' + Most + 0 <= Free(k) + Most'
    BY FloatedMoves DEF PassesBy, Enters, Leaves, Pays
  <2>3. /\ IsFiniteSet(S') /\ Cardinality(S') \in Nat /\ Cardinality(S) \in Nat
        /\ \/ /\ Cardinality(S') <= Cardinality(S)
              /\ floated'[b] = floated[b] /\ Free(k)' + Most + 0 <= Free(k) + Most'
           \/ /\ Cardinality(S') <= Cardinality(S) + 1
              /\ floated'[b] = floated[b] /\ Free(k)' + Most + 1 <= Free(k) + Most'
           \/ /\ Cardinality(S') + 1 <= Cardinality(S)
              /\ floated'[b] = floated[b] + 1 /\ Free(k)' + Most + 0 <= Free(k) + Most'
    <3> HIDE DEF S
    <3> QED
      BY <2>1, <2>2, MovesCount
  <2>4. Cardinality(S') + floated'[b] + Free(k)' <= Most'
    <3> HIDE DEF S, k
    <3> QED
      BY <1>1, <2>1, <2>3
  <2> QED
    BY <2>3, <2>4 DEF FloatedBound
<1>5. HedgedBound(b)'
  <2> DEFINE S == Heading(b, {"expose"})
             k == Key("hedge", b)
  <2>1. IsFiniteSet(S) /\ Cardinality(S) + hedged[b] + Free(k) <= Most
    BY <1>2 DEF HedgedBound
  <2>2. \/ S' \subseteq S /\ hedged'[b] = hedged[b] /\ Free(k)' + Most + 0 <= Free(k) + Most'
        \/ /\ \E x : S' \subseteq S \cup {x}
           /\ hedged'[b] = hedged[b] /\ Free(k)' + Most + 1 <= Free(k) + Most'
        \/ /\ \E x \in S : S' \subseteq S \ {x}
           /\ hedged'[b] = hedged[b] + 1 /\ Free(k)' + Most + 0 <= Free(k) + Most'
    BY HedgedMoves DEF PassesBy, Enters, Leaves, Pays
  <2>3. /\ IsFiniteSet(S') /\ Cardinality(S') \in Nat /\ Cardinality(S) \in Nat
        /\ \/ /\ Cardinality(S') <= Cardinality(S)
              /\ hedged'[b] = hedged[b] /\ Free(k)' + Most + 0 <= Free(k) + Most'
           \/ /\ Cardinality(S') <= Cardinality(S) + 1
              /\ hedged'[b] = hedged[b] /\ Free(k)' + Most + 1 <= Free(k) + Most'
           \/ /\ Cardinality(S') + 1 <= Cardinality(S)
              /\ hedged'[b] = hedged[b] + 1 /\ Free(k)' + Most + 0 <= Free(k) + Most'
    <3> HIDE DEF S
    <3> QED
      BY <2>1, <2>2, MovesCount
  <2>4. Cardinality(S') + hedged'[b] + Free(k)' <= Most'
    <3> HIDE DEF S, k
    <3> QED
      BY <1>1, <2>1, <2>3
  <2> QED
    BY <2>3, <2>4 DEF HedgedBound
<1> QED
  BY <1>3, <1>4, <1>5

\* A batch is submitted, added to the float and hedged at most once, whatever is replayed,
\* fails or crashes, unless the idempotency store lost the key concerned, and then at most
\* once more per expiry and per fault.
THEOREM AppliedOnce == Spec => []EffectsOnce
<1>1. Init => Executions /\ Hedges /\ Bounded
  <2> SUFFICES ASSUME Init PROVE Executions /\ Hedges /\ Bounded
    OBVIOUS
  <2>1. Executions /\ Hedges
    BY DEF Init, Executions, Hedges, OneExecution, OneHedge, InEffect
  <2>2. \A b \in Batch : \A at : Heading(b, at) = {}
    BY NoneAssumption DEF Init, Heading
  <2>3. IsFiniteSet({}) /\ Cardinality({}) = 0
    BY FS_EmptySet
  <2>4. Most = 1 /\ \A k : Free(k) = 1
    BY DEF Init, Most, Free, Budget
  <2>5. \A b \in Batch : placed[b] = 0 /\ floated[b] = 0 /\ hedged[b] = 0
    BY DEF Init
  <2>6. Bounded
    BY <2>2, <2>3, <2>4, <2>5 DEF Bounded, PlacedBound, FloatedBound, HedgedBound
  <2> QED
    BY <2>1, <2>6
<1>2. /\ TypeOK /\ TypeOK' /\ Executions /\ Hedges /\ Bounded /\ [Next]_vars
      => Executions' /\ Hedges' /\ Bounded'
  BY ExecutionsStep, HedgesStep, BoundedStep
<1>3. TypeOK /\ Executions /\ Hedges /\ Bounded => EffectsOnce
  <2> SUFFICES ASSUME TypeOK, Executions, Hedges, Bounded, NEW b \in Batch
               PROVE  /\ placed[b] <= Most /\ floated[b] <= Most /\ hedged[b] <= Most
                      /\ Key("agg", b) \notin lost => placed[b] <= 1 /\ floated[b] <= 1
                      /\ Key("hedge", b) \notin lost => hedged[b] <= 1
    BY DEF EffectsOnce, Most
  <2>1. \A S : IsFiniteSet(S) => Cardinality(S) \in Nat
    BY FS_CardinalityType
  <2>2. /\ placed[b] \in Nat /\ floated[b] \in Nat /\ hedged[b] \in Nat
        /\ Most \in Nat /\ \A k : Free(k) \in Nat
    BY BoundTyped DEF TypeOK
  <2>3. placed[b] <= Most
    BY <2>1, <2>2 DEF Bounded, PlacedBound
  <2>4. floated[b] <= Most
    BY <2>1, <2>2 DEF Bounded, FloatedBound
  <2>5. hedged[b] <= Most
    BY <2>1, <2>2 DEF Bounded, HedgedBound
  <2> QED
    BY <2>3, <2>4, <2>5 DEF Executions, Hedges, OneExecution, OneHedge
<1> QED
  BY <1>1, <1>2, <1>3, TypeCorrect, PTL DEF Spec

-------------------------------------------------------------------------------
(* The order is persisted before anything happens outside, its fill before  *)
(* anything that follows from it; on this rests that the module implements  *)
(* BatchLifecycle.                                                          *)

AfterFill == {"float", "adjust", "hedge", "expose", "settleOrder", "settle", "emit"}

Persisted(b) == order[b].status # "NONE"

\* What the rows of a batch say of each other.
RowsAgree(b) ==
    /\ Persisted(b) => status[b] # "OPEN"
    /\ status[b] \in {"EXECUTING", "SETTLED"} => Persisted(b)
    /\ order[b].filled => Persisted(b)
    /\ status[b] = "SETTLED" \/ order[b].status = "SETTLED" => order[b].filled

\* What a worker may rely on, having come as far as it has.
Founded(w) ==
    /\ pc[w] \in {"record", "create"} => status[job[w]] # "OPEN"
    /\ pc[w] \in {"advance", "claim", "submit", "fill"} => Persisted(job[w])
    /\ pc[w] \in AfterFill => order[job[w]].filled

Sound == (\A b \in Batch : RowsAgree(b)) /\ (\A w \in Worker : Founded(w))

\* The effects a step may have on the batch and order rows of b.
Effect(b) ==
    \/ MoveBatch(b, "OPEN", "CLOSED")
    \/ status[b] # "OPEN" /\ \E n \in Amount : CreateRow(b, n)
    \/ Persisted(b) /\ (MoveBatch(b, "CLOSED", "EXECUTING") \/ FillRow(b))
    \/ order[b].filled /\ (MoveBatch(b, "EXECUTING", "SETTLED") \/ SettleRow(b))
RowsUnchanged == status' = status /\ order' = order

\* Nothing that is relied on is ever taken back.
Grows ==
    \A b \in Batch :
        /\ status[b] # "OPEN" => status'[b] # "OPEN"
        /\ Persisted(b) => Persisted(b)'
        /\ order[b].filled => order'[b].filled

LEMMA EffectKeeps ==
    ASSUME DbOK, \A b \in Batch : RowsAgree(b),
           RowsUnchanged \/ \E b \in Batch : Effect(b)
    PROVE  Grows /\ (\A b \in Batch : RowsAgree(b)')
<1>1. CASE RowsUnchanged
  BY <1>1 DEF RowsUnchanged, Grows, Persisted, RowsAgree
<1>2. ASSUME NEW b \in Batch, Effect(b)
      PROVE  Grows /\ (\A d \in Batch : RowsAgree(d)')
  <2> USE DEF Grows, Persisted, RowsAgree, DbOK, Row, BatchStatus
  <2>1. CASE \E from, to \in BatchStatus : MoveBatch(b, from, to)
    BY <1>2, <2>1 DEF Effect, MoveBatch, MayMove, CreateRow, FillRow, SettleRow
  <2>2. CASE status[b] # "OPEN" /\ \E n \in Amount : CreateRow(b, n)
    BY <1>2, <2>2 DEF CreateRow, IsNewOrder, FirstOrderStatus
  <2>3. CASE Persisted(b) /\ FillRow(b)
    BY <1>2, <2>3 DEF FillRow
  <2>4. CASE order[b].filled /\ SettleRow(b)
    BY <1>2, <2>4 DEF SettleRow
  <2> QED
    BY <1>2, <2>1, <2>2, <2>3, <2>4 DEF Effect
<1> QED
  BY <1>1, <1>2

\* Every such effect is a step of BatchLifecycle.
LEMMA EffectRefines ==
    ASSUME DbOK, \A b \in Batch : RowsAgree(b), NEW b \in Batch, Effect(b)
    PROVE  [Lifecycle!Next]_(Lifecycle!vars)
<1> USE DEF DbOK, Row, BatchStatus, RowsAgree, Persisted, Lifecycle!vars
<1>1. ASSUME NEW from, NEW to, <<from, to>> \in Lifecycle!CanTransition,
             MoveBatch(b, from, to),
             to = "EXECUTING" => Persisted(b), to = "SETTLED" => order[b].filled
      PROVE  Lifecycle!Advance(b, to) \/ UNCHANGED Lifecycle!vars
  BY <1>1 DEF MoveBatch, MayMove, Lifecycle!CanTransition, Lifecycle!Advance
<1>2. ASSUME NEW n \in Amount, CreateRow(b, n), status[b] # "OPEN"
      PROVE  Lifecycle!CreateOrder(b, n) \/ UNCHANGED Lifecycle!vars
  BY <1>2 DEF CreateRow, IsNewOrder, FirstOrderStatus, Lifecycle!CreateOrder
<1>3. ASSUME FillRow(b), Persisted(b)
      PROVE  Lifecycle!FillOrder(b)
  BY <1>3 DEF FillRow, Lifecycle!FillOrder
<1>4. ASSUME SettleRow(b), order[b].filled
      PROVE  Lifecycle!SettleOrder(b)
  <2>1. order' = [order EXCEPT ![b] = [order[b] EXCEPT !.status = "SETTLED"]]
    BY <1>4 DEF SettleRow
  <2>2. /\ \A d \in Batch : order'[d].filled = order[d].filled
        /\ \A d \in Batch : order'[d].notional = order[d].notional
        /\ \A d \in Batch : order'[d].status = IF d = b THEN "SETTLED" ELSE order[d].status
    BY <2>1
  <2>3. order[b].status # "NONE" /\ status' = status
    BY <1>4 DEF SettleRow
  <2>4. {d \in Batch : order'[d].status = "SETTLED"} = {d \in Batch : order[d].status = "SETTLED"} \cup {b}
    BY <2>2
  <2>5. \A d \in Batch : order'[d].status = "NONE" <=> order[d].status = "NONE"
    BY <2>2, <2>3
  <2>6. {d \in Batch : order'[d].filled} = {d \in Batch : order[d].filled}
    BY <2>2
  <2>7. [d \in Batch |-> IF order'[d].status = "NONE" THEN {} ELSE {order'[d].notional}]
          = [d \in Batch |-> IF order[d].status = "NONE" THEN {} ELSE {order[d].notional}]
    BY <2>2, <2>5
  <2> QED
    BY <1>4, <2>3, <2>4, <2>6, <2>7 DEF Lifecycle!SettleOrder
<1>5. /\ <<"OPEN", "CLOSED">> \in Lifecycle!CanTransition
      /\ <<"CLOSED", "EXECUTING">> \in Lifecycle!CanTransition
      /\ <<"EXECUTING", "SETTLED">> \in Lifecycle!CanTransition
  BY DEF Lifecycle!CanTransition
<1> QED
  BY <1>1, <1>2, <1>3, <1>4, <1>5 DEF Effect, Lifecycle!Next

LEMMA StepEffect ==
    ASSUME TypeOK, Sound, [Next]_vars
    PROVE  RowsUnchanged \/ \E b \in Batch : Effect(b)
<1> USE DEF At, Sound, Founded, AfterFill
<1>0. WorkerOK /\ RestOK
  BY TypeParts
<1>1. ASSUME NEW w \in Worker, NEW b \in Batch, CloseBatch(w, b) \/ Resubmit(w, b)
      PROVE  RowsUnchanged \/ Effect(b)
  BY <1>1 DEF CloseBatch, Resubmit, Effect, RowsUnchanged, dbVars
<1>2. ASSUME NEW w \in Worker, Submitting(w) \/ Filled(w) \/ Fails(w), pc[w] # "idle"
      PROVE  RowsUnchanged \/ Effect(job[w])
  <2>0. job[w] \in Batch /\ seen[w] \in Amount
    BY <1>0, <1>2, BusyHasBatch
  <2>1. CASE pc[w] \in {"record", "load", "claim", "submit", "float", "adjust", "hedge",
                        "expose", "emit"}
    BY <1>2, <2>1 DEF Submitting, Record, Load, Create, Advance, Claim, Submit, Fill, Filled,
       Float, Adjust, ClaimHedge, Expose, SettleOrder, Settle, EmitExecuted, Fails, StoreFails,
       DownstreamFails, Crash, KeyCheckFails, Append, AddToFloat, dbVars, RowsUnchanged
  <2>2. CASE pc[w] = "create"
    BY <1>2, <2>0, <2>2 DEF Submitting, Record, Load, Create, Advance, Claim, Submit, Fill,
       Filled, Float, Adjust, ClaimHedge, Expose, SettleOrder, Settle, EmitExecuted, Fails,
       StoreFails, DownstreamFails, Crash, KeyCheckFails, dbVars, RowsUnchanged, Effect
  <2>3. CASE pc[w] \in {"advance", "fill"}
    BY <1>2, <2>0, <2>3 DEF Submitting, Record, Load, Create, Advance, Claim, Submit, Fill,
       Filled, Float, Adjust, ClaimHedge, Expose, SettleOrder, Settle, EmitExecuted, Fails,
       StoreFails, DownstreamFails, Crash, KeyCheckFails, dbVars, RowsUnchanged, Effect
  <2>4. CASE pc[w] \in {"settleOrder", "settle"}
    BY <1>2, <2>0, <2>4 DEF Submitting, Record, Load, Create, Advance, Claim, Submit, Fill,
       Filled, Float, Adjust, ClaimHedge, Expose, SettleOrder, Settle, EmitExecuted, Fails,
       StoreFails, DownstreamFails, Crash, KeyCheckFails, dbVars, RowsUnchanged, Effect
  <2> QED
    BY <1>0, <1>2, <2>1, <2>2, <2>3, <2>4 DEF WorkerOK, Call
<1>3. CASE \/ \E k \in keys : KeyExpires(k)
           \/ \E b \in Batch, amount \in Amount : LateTotal(b, amount)
           \/ UNCHANGED vars
  BY <1>3 DEF KeyExpires, LateTotal, vars, dbVars, RowsUnchanged
<1>4. ASSUME NEW w \in Worker, Submitting(w) \/ Filled(w) \/ Fails(w)
      PROVE  pc[w] # "idle"
  BY <1>4 DEF Submitting, Record, Load, Create, Advance, Claim, Submit, Fill, Filled, Float,
     Adjust, ClaimHedge, Expose, SettleOrder, Settle, EmitExecuted, Fails, StoreFails,
     DownstreamFails, Crash, KeyCheckFails
<1> QED
  BY <1>0, <1>1, <1>2, <1>3, <1>4, BusyHasBatch DEF Next

\* A worker that goes on is founded where it arrives.
LEMMA FoundedStep ==
    ASSUME TypeOK, Sound, [Next]_vars, Grows, \A b \in Batch : RowsAgree(b)',
           NEW w \in Worker
    PROVE  Founded(w)'
<1> USE DEF At, AfterFill
<1>0. WorkerOK /\ RestOK
  BY TypeParts
<1>00. Call = {"record", "load", "create", "advance", "claim", "submit", "fill", "float",
               "adjust", "hedge", "expose", "settleOrder", "settle", "emit"}
  BY DEF Call
<1>1. ASSUME pc'[w] = pc[w], job'[w] = job[w]
      PROVE  Founded(w)'
  BY <1>0, <1>1, <1>00, BusyHasBatch DEF Sound, Founded, Grows, Persisted
<1>2. CASE \/ \E k \in keys : KeyExpires(k)
           \/ \E b \in Batch, amount \in Amount : LateTotal(b, amount)
           \/ UNCHANGED vars
  BY <1>1, <1>2 DEF KeyExpires, LateTotal, vars, workerVars
<1>3. ASSUME NEW v \in Worker, NEW b \in Batch, CloseBatch(v, b) \/ Resubmit(v, b)
      PROVE  Founded(w)'
  <2>1. CASE w # v
    BY <1>1, <1>3, <1>0, <1>00, <2>1, StartFrame DEF CloseBatch, Resubmit, Others
  <2>2. CASE w = v
    BY <1>0, <1>3, <2>2, TypeParts DEF CloseBatch, Resubmit, MoveBatch, MayMove, WorkerOK, DbOK, Founded
  <2> QED
    BY <2>1, <2>2
<1>4. ASSUME NEW v \in Worker, Submitting(v) \/ Filled(v) \/ Fails(v)
      PROVE  Founded(w)'
  <2>0. pc[v] # "idle" /\ job[v] \in Batch
    <3>1. pc[v] # "idle"
      BY <1>4 DEF Submitting, Record, Load, Create, Advance, Claim, Submit, Fill, Filled, Float,
         Adjust, ClaimHedge, Expose, SettleOrder, Settle, EmitExecuted, Fails, StoreFails,
         DownstreamFails, Crash, KeyCheckFails
    <3> QED
      BY <1>0, <3>1, BusyHasBatch
  <2>1. CASE Finish(v)
    BY <1>0, <1>1, <2>1, FinishFrame DEF Others, Founded
  <2>2. CASE ~Finish(v) /\ pc[v] = "load"
    BY <1>0, <1>1, <1>4, <2>0, <2>2 DEF Submitting, Record, Load, Create, Advance, Claim, Submit,
       Fill, Filled, Float, Adjust, ClaimHedge, Expose, SettleOrder, Settle, EmitExecuted, Fails,
       StoreFails, DownstreamFails, Crash, KeyCheckFails, WorkerOK, Founded, Grows, dbVars
  <2>3. CASE ~Finish(v) /\ pc[v] # "load"
    <3>1. \E there \in Call :
            /\ Goto(v, there)
            /\ there \in {"record", "create"} => FALSE
            /\ there = "advance" => pc[v] = "create" /\ (\E n \in Amount : CreateRow(job[v], n))
            /\ there \in {"claim", "submit", "fill"} => pc[v] \in {"advance", "claim", "submit"}
            /\ there = "float" => pc[v] = "fill" /\ FillRow(job[v])
            /\ there \in AfterFill \ {"float"} => pc[v] \in AfterFill
      BY <1>0, <1>00, <1>4, <2>0, <2>3, BusyHasBatch, AfterHedgeClaimPlace DEF Submitting, Record,
         Load, Create, Advance, Claim, Submit, Fill, Filled, Float, Adjust, ClaimHedge, Expose,
         SettleOrder, Settle, EmitExecuted, Fails, StoreFails, DownstreamFails, Crash,
         KeyCheckFails
    <3>2. PICK there \in Call :
            /\ Goto(v, there)
            /\ there \in {"record", "create"} => FALSE
            /\ there = "advance" => pc[v] = "create" /\ (\E n \in Amount : CreateRow(job[v], n))
            /\ there \in {"claim", "submit", "fill"} => pc[v] \in {"advance", "claim", "submit"}
            /\ there = "float" => pc[v] = "fill" /\ FillRow(job[v])
            /\ there \in AfterFill \ {"float"} => pc[v] \in AfterFill
      BY <3>1
    <3>3. pc'[v] = there /\ job' = job /\ Others(v)
      BY <1>0, <2>0, <3>2, GotoFrame
    <3>4. CASE w # v
      BY <1>1, <3>3, <3>4 DEF Others
    <3>5. CASE w = v
      <4>1. there = "advance" => Persisted(job[v])'
        <5>1. ASSUME NEW n \in Amount, CreateRow(job[v], n)
              PROVE  order'[job[v]].status # "NONE"
          BY <2>0, <5>1, TypeParts DEF CreateRow, IsNewOrder, FirstOrderStatus, DbOK
        <5> QED
          BY <3>2, <3>3, <5>1 DEF Persisted
      <4>2. there = "float" => order'[job[v]].filled
        BY <2>0, <3>2, TypeParts DEF FillRow, DbOK, Row
      <4>3. there \in {"claim", "submit", "fill"} => Persisted(job[v])'
        BY <2>0, <3>2, <3>3 DEF Sound, Founded, Grows
      <4>4. there \in AfterFill \ {"float"} => order'[job[v]].filled
        BY <2>0, <3>2 DEF Sound, Founded, Grows
      <4> QED
        BY <3>2, <3>3, <3>5, <4>1, <4>2, <4>3, <4>4 DEF Founded, Persisted
    <3> QED
      BY <3>4, <3>5
  <2> QED
    BY <2>1, <2>2, <2>3
<1> QED
  BY <1>2, <1>3, <1>4 DEF Next

LEMMA SoundStep ==
    ASSUME TypeOK, Sound, [Next]_vars
    PROVE  Sound' /\ Grows
<1>1. Grows /\ (\A b \in Batch : RowsAgree(b)')
  BY StepEffect, EffectKeeps, TypeParts DEF Sound
<1> QED
  BY <1>1, FoundedStep DEF Sound

LEMMA SoundInit == Init => Sound
BY DEF Init, Sound, RowsAgree, Founded, Persisted, NoOrder, AfterFill

\* AggregateExecution implements BatchLifecycle: racing, replayed, failing and abandoned
\* calls of SubmitBatch change the rows of a batch only as LifecyclePromise allows.
THEOREM ImplementsLifecycle == Spec => LifecyclePromise
<1>1. Init => Lifecycle!Init
  BY DEF Init, Lifecycle!Init, NoOrder
<1>2. TypeOK /\ Sound /\ [Next]_vars => [Lifecycle!Next]_(Lifecycle!vars)
  <2> SUFFICES ASSUME TypeOK, Sound, [Next]_vars
               PROVE  [Lifecycle!Next]_(Lifecycle!vars)
    OBVIOUS
  <2>1. CASE RowsUnchanged
    BY <2>1 DEF RowsUnchanged, Lifecycle!vars
  <2>2. CASE \E b \in Batch : Effect(b)
    BY <2>2, EffectRefines, TypeParts DEF Sound
  <2> QED
    BY <2>1, <2>2, StepEffect
<1>3. TypeOK /\ Sound /\ [Next]_vars => Sound'
  BY SoundStep
<1> QED
  BY <1>1, <1>2, <1>3, SoundInit, TypeCorrect, PTL DEF Spec, LifecyclePromise, Lifecycle!Spec

-------------------------------------------------------------------------------
(* PersistedFirst: what happens outside is done by a worker that is founded. *)

FillEvent(b) == {<<"float.adjust", b>>, <<"aggregate.execute", b>>}

\* Who places an order at liquidity-routing, and who follows a fill.
LEMMA OutsideBy ==
    ASSUME TypeOK, [Next]_vars, NEW b \in Batch
    PROVE  /\ placed'[b] # placed[b] => \E w \in Worker : pc[w] = "submit" /\ job[w] = b
           /\ \/ floated'[b] # floated[b] \/ hedged'[b] # hedged[b]
              \/ FillEvent(b) \cap outbox' # FillEvent(b) \cap outbox
              => \E w \in Worker : pc[w] \in AfterFill /\ job[w] = b
<1> USE DEF At, AfterFill, dbVars, outside, workerVars
<1>0. WorkerOK /\ RestOK /\ DbOK
  BY TypeParts
<1>1. CASE \/ \E w \in Worker, d \in Batch : CloseBatch(w, d) \/ Resubmit(w, d)
           \/ \E k \in keys : KeyExpires(k)
           \/ \E d \in Batch, amount \in Amount : LateTotal(d, amount)
           \/ UNCHANGED vars
  BY <1>1 DEF CloseBatch, MoveBatch, Resubmit, KeyExpires, LateTotal, vars
<1>2. ASSUME NEW w \in Worker, Submitting(w) \/ Filled(w) \/ Fails(w)
      PROVE  /\ placed'[b] # placed[b] => pc[w] = "submit" /\ job[w] = b
             /\ \/ floated'[b] # floated[b] \/ hedged'[b] # hedged[b]
                \/ FillEvent(b) \cap outbox' # FillEvent(b) \cap outbox
                => pc[w] \in AfterFill /\ job[w] = b
  <2>1. CASE Submitting(w)
    BY <1>0, <2>1 DEF Submitting, Record, Append, Appended, Load, Create, CreateRow, Advance,
       MoveBatch, Claim, Submit, Place, Fill, FillRow, FillEvent, RestOK
  <2>2. CASE Filled(w)
    BY <1>0, <2>2 DEF Filled, Float, AddToFloat, Adjust, Append, Appended, ClaimHedge, Expose,
       Hedge, SettleOrder, SettleRow, Settle, MoveBatch, EmitExecuted, FillEvent, RestOK, DbOK
  <2>3. CASE StoreFails(w)
    BY <1>0, <2>3 DEF StoreFails, Append, Appended, CreateRow, MoveBatch, FillRow, AddToFloat,
       SettleRow, FillEvent, DbOK
  <2>4. CASE Fails(w) /\ ~StoreFails(w)
    BY <1>0, <2>4 DEF Fails, DownstreamFails, Place, Hedge, Crash, KeyCheckFails, RestOK
  <2> QED
    BY <1>2, <2>1, <2>2, <2>3, <2>4
<1> QED
  BY <1>1, <1>2 DEF Next

\* Through every failure, replay and crash there is an order row before liquidity-routing
\* is asked, and its fill is stored before float, hedge, settlement and audit events.
THEOREM PersistedBeforeActing == Spec => []PersistedFirst
<1> USE DEF PersistedFirst, Persisted
<1>1. Init => PersistedFirst
  BY DEF Init, NoOrder
<1>2. TypeOK /\ Sound /\ PersistedFirst /\ [Next]_vars => PersistedFirst'
  <2> SUFFICES ASSUME TypeOK, Sound, PersistedFirst, [Next]_vars, NEW b \in Batch
               PROVE  /\ placed'[b] > 0 => Persisted(b)'
                      /\ \/ floated'[b] > 0 \/ hedged'[b] > 0 \/ order'[b].status = "SETTLED"
                         \/ FillEvent(b) \cap outbox' # {}
                         => order'[b].filled
    BY DEF FillEvent
  <2>1. Sound' /\ Grows
    BY SoundStep
  <2>2. placed'[b] > 0 => Persisted(b)
    <3>1. CASE placed'[b] = placed[b]
      BY <3>1
    <3>2. CASE placed'[b] # placed[b]
      BY <3>2, OutsideBy DEF Sound, Founded
    <3> QED
      BY <3>1, <3>2
  <2>3. \/ floated'[b] > 0 \/ hedged'[b] > 0 \/ FillEvent(b) \cap outbox' # {}
        => order[b].filled
    <3>1. CASE /\ floated'[b] = floated[b] /\ hedged'[b] = hedged[b]
               /\ FillEvent(b) \cap outbox' = FillEvent(b) \cap outbox
      BY <3>1 DEF FillEvent
    <3>2. CASE ~(/\ floated'[b] = floated[b] /\ hedged'[b] = hedged[b]
                 /\ FillEvent(b) \cap outbox' = FillEvent(b) \cap outbox)
      BY <3>2, OutsideBy DEF Sound, Founded
    <3> QED
      BY <3>1, <3>2
  <2> QED
    BY <2>1, <2>2, <2>3 DEF Sound, RowsAgree, Grows
<1>3. TypeOK /\ Sound /\ [Next]_vars => Sound'
  BY SoundStep
<1> QED
  BY <1>1, <1>2, <1>3, SoundInit, TypeCorrect, PTL DEF Spec

-------------------------------------------------------------------------------
(* A step of a worker leaves the other batches alone.                       *)

LEMMA FailsElsewhere ==
    ASSUME TypeOK, NEW w \in Worker, Fails(w), NEW b \in Batch, job[w] # b
    PROVE  /\ status'[b] = status[b] /\ order'[b] = order[b] /\ floated'[b] = floated[b]
           /\ outbox \subseteq outbox'
           /\ \A kind \in {"agg", "hedge"} :
                 Key(kind, b) \in keys' \cup lost' <=> Key(kind, b) \in keys \cup lost
           /\ \A S \in SUBSET Call : Working(b, S)' <=> Working(b, S)
<1> USE DEF At
<1>0. WorkerOK /\ DbOK /\ RestOK
  BY TypeParts
<1>1. /\ job[w] \in Batch /\ Others(w) /\ job'[w] \in {job[w], None} /\ order'[b] = order[b]
  BY OwnBatch
<1>2. status'[b] = status[b] /\ floated'[b] = floated[b] /\ outbox \subseteq outbox'
  BY <1>0 DEF Fails, StoreFails, DownstreamFails, Crash, KeyCheckFails, Append, MoveBatch,
     CreateRow, FillRow, SettleRow, AddToFloat, dbVars, DbOK
<1>3. ASSUME NEW kind \in {"agg", "hedge"}
      PROVE  Key(kind, b) \in keys' \cup lost' <=> Key(kind, b) \in keys \cup lost
  BY <1>1 DEF Fails, StoreFails, DownstreamFails, Crash, KeyCheckFails, keyVars, Key
<1>4. ASSUME NEW S \in SUBSET Call PROVE Working(b, S)' <=> Working(b, S)
  BY <1>1, NoneAssumption DEF Working, Others
<1> QED
  BY <1>1, <1>2, <1>3, <1>4

-------------------------------------------------------------------------------
(* RecordsAgree: a worker that moves something leaves it on record in its    *)
(* next step, and whoever holds the hedge key settles the order, although    *)
(* workers of replayed calls pass by in between.  A fault ends that for the  *)
(* batch of the worker it hits, and for no other.                            *)

Quiet(w) ==
    \/ \E b \in Batch : CloseBatch(w, b) \/ Resubmit(w, b)
    \/ Submitting(w) \/ Filled(w)

Untouched == UNCHANGED <<dbVars, pc, job>> /\ keys' \cup lost' = keys \cup lost

\* A step uses up at most one of the budgets, a failure that of the faults.
LEMMA StepUses ==
    ASSUME TypeOK, [Next]_vars
    PROVE  \/ (\E w \in Worker : Quiet(w)) /\ used'["fault"] = used["fault"]
           \/ Untouched /\ used'["fault"] = used["fault"]
           \/ (\E w \in Worker : Fails(w)) /\ used'["fault"] = used["fault"] + 1
<1>1. used \in [Budget -> Nat] /\ Budget = {"resubmit", "total", "expiry", "fault"}
  BY DEF TypeOK, Budget
<1>2. ASSUME NEW x \in Budget, Use(x), x # "fault" PROVE used'["fault"] = used["fault"]
  BY <1>1, <1>2 DEF Use
<1>3. ASSUME Use("fault") PROVE used'["fault"] = used["fault"] + 1
  BY <1>1, <1>3 DEF Use
<1>4. ASSUME NEW w \in Worker, Fails(w) PROVE used'["fault"] = used["fault"] + 1
  BY <1>3, <1>4 DEF Fails, StoreFails, DownstreamFails, Crash, KeyCheckFails
<1>5. ASSUME NEW w \in Worker, Quiet(w) PROVE used'["fault"] = used["fault"]
  <2>1. used' = used \/ Use("resubmit")
    BY <1>5 DEF Quiet, CloseBatch, Resubmit, Submitting, Record, Load, Create, Advance, Claim, Submit,
       Fill, Filled, Float, Adjust, ClaimHedge, Expose, SettleOrder, Settle, EmitExecuted
  <2> QED
    BY <1>1, <1>2, <2>1
<1>6. ASSUME \/ \E k \in keys : KeyExpires(k)
             \/ \E b \in Batch, amount \in Amount : LateTotal(b, amount)
             \/ UNCHANGED vars
      PROVE  Untouched /\ used'["fault"] = used["fault"]
  <2>1. used' = used \/ Use("expiry") \/ Use("total")
    BY <1>6 DEF KeyExpires, LateTotal, vars
  <2>2. Untouched
    BY <1>6 DEF KeyExpires, LateTotal, vars, workerVars, keyVars, Untouched
  <2> QED
    BY <1>1, <1>2, <2>1, <2>2
<1> QED
  BY <1>4, <1>5, <1>6 DEF Next, Quiet

\* Whoever moves is somewhere, and moves alone.
LEMMA QuietMovesOne ==
    ASSUME TypeOK, NEW w \in Worker, Quiet(w)
    PROVE  Others(w)
BY DEF TypeOK, Quiet, CloseBatch, Resubmit, Submitting, Record, Load, Create, Advance, Claim, Submit,
       Fill, Filled, Float, Adjust, ClaimHedge, Expose, SettleOrder, Settle, EmitExecuted, Goto, Finish,
       Others

\* A worker at one of these calls is still there unless it is the one that moved.
LEMMA WorkingStays ==
    ASSUME NEW w \in Worker, Others(w), NEW S, pc[w] \notin S, NEW b, Working(b, S)
    PROVE  Working(b, S)'
BY DEF Working, Others

CloseRecorded(b) == status[b] # "OPEN" => <<"batch.close", b>> \in outbox \/ Working(b, {"record"})
FloatRecorded(b) == floated[b] > 0 => <<"float.adjust", b>> \in outbox \/ Working(b, {"adjust"})
SettleRecorded(b) ==
    status[b] = "SETTLED" => <<"aggregate.execute", b>> \in outbox \/ Working(b, {"emit"})

LEMMA CloseRecordedStep ==
    ASSUME TypeOK, NEW w \in Worker, Quiet(w), NEW b \in Batch, CloseRecorded(b)
    PROVE  CloseRecorded(b)'
<1> USE DEF At
<1>0. Others(w) /\ DbOK /\ WorkerOK
  BY QuietMovesOne, TypeParts
<1>1. ASSUME NEW c \in Batch, CloseBatch(w, c) PROVE CloseRecorded(b)'
  <2>1. /\ pc[w] = "idle" /\ pc'[w] = "record" /\ job'[w] = c /\ outbox' = outbox
        /\ status' = [status EXCEPT ![c] = "CLOSED"]
    BY <1>0, <1>1 DEF CloseBatch, MoveBatch, MayMove, WorkerOK
  <2>2. CASE b = c
    BY <2>1, <2>2 DEF CloseRecorded, Working
  <2>3. CASE b # c
    BY <1>0, <2>1, <2>3, WorkingStays DEF CloseRecorded, DbOK
  <2> QED
    BY <2>2, <2>3
<1>2. CASE Record(w)
  <2>1. status' = status /\ outbox' = outbox \cup {<<"batch.close", job[w]>>}
    BY <1>2 DEF Record, Append, Appended
  <2> QED
    BY <1>0, <2>1 DEF CloseRecorded, Working, Others
<1>3. CASE ~Record(w) /\ ~\E c \in Batch : CloseBatch(w, c)
  <2>1. /\ status'[b] # "OPEN" => status[b] # "OPEN"
        /\ outbox \subseteq outbox' /\ pc[w] # "record"
    BY <1>0, <1>3 DEF Quiet, Resubmit, Submitting, Load, Create, Advance, Claim, Submit, Fill, Filled,
       Float, Adjust, ClaimHedge, Expose, SettleOrder, Settle, EmitExecuted, Append, MoveBatch, MayMove,
       CreateRow, FillRow, SettleRow, AddToFloat, dbVars, DbOK
  <2> QED
    BY <1>0, <2>1, WorkingStays DEF CloseRecorded
<1> QED
  BY <1>1, <1>2, <1>3

LEMMA FloatRecordedStep ==
    ASSUME TypeOK, NEW w \in Worker, Quiet(w), NEW b \in Batch, FloatRecorded(b)
    PROVE  FloatRecorded(b)'
<1> USE DEF At
<1>0. Others(w) /\ DbOK /\ WorkerOK
  BY QuietMovesOne, TypeParts
<1>1. CASE Float(w)
  <2>1. /\ pc[w] = "float" /\ Goto(w, "adjust") /\ outbox' = outbox
        /\ floated' = [floated EXCEPT ![job[w]] = @ + 1]
    BY <1>1 DEF Float, AddToFloat
  <2>2. pc'[w] = "adjust" /\ job'[w] = job[w]
    BY <1>0, <2>1 DEF Goto, WorkerOK
  <2>3. CASE job[w] = b
    BY <2>2, <2>3 DEF FloatRecorded, Working
  <2>4. CASE job[w] # b
    BY <1>0, <2>1, <2>4, WorkingStays DEF FloatRecorded, DbOK
  <2> QED
    BY <2>3, <2>4
<1>2. CASE Adjust(w)
  <2>1. floated' = floated /\ outbox' = outbox \cup {<<"float.adjust", job[w]>>}
    BY <1>2 DEF Adjust, Append, Appended
  <2> QED
    BY <1>0, <2>1 DEF FloatRecorded, Working, Others
<1>3. CASE ~Float(w) /\ ~Adjust(w)
  <2>1. floated' = floated /\ outbox \subseteq outbox' /\ pc[w] # "adjust"
    BY <1>3 DEF Quiet, CloseBatch, Resubmit, Submitting, Record, Load, Create, Advance, Claim, Submit,
       Fill, Filled, ClaimHedge, Expose, SettleOrder, Settle, EmitExecuted, Append, MoveBatch, CreateRow,
       FillRow, SettleRow, dbVars
  <2> QED
    BY <1>0, <2>1, WorkingStays DEF FloatRecorded
<1> QED
  BY <1>1, <1>2, <1>3

LEMMA SettleRecordedStep ==
    ASSUME TypeOK, NEW w \in Worker, Quiet(w), NEW b \in Batch, SettleRecorded(b)
    PROVE  SettleRecorded(b)'
<1> USE DEF At
<1>0. Others(w) /\ DbOK /\ WorkerOK
  BY QuietMovesOne, TypeParts
<1>1. CASE Settle(w)
  <2>1. /\ pc[w] = "settle" /\ Goto(w, "emit") /\ outbox' = outbox
        /\ MoveBatch(job[w], "EXECUTING", "SETTLED")
    BY <1>1 DEF Settle, MoveBatch
  <2>2. pc'[w] = "emit" /\ job'[w] = job[w]
    BY <1>0, <2>1 DEF Goto, WorkerOK
  <2>3. CASE job[w] = b
    BY <2>2, <2>3 DEF SettleRecorded, Working
  <2>4. CASE job[w] # b
    <3>1. status'[b] = status[b]
      BY <1>0, <2>1, <2>4 DEF MoveBatch, DbOK
    <3> QED
      BY <1>0, <2>1, <3>1, WorkingStays DEF SettleRecorded
  <2> QED
    BY <2>3, <2>4
<1>2. CASE EmitExecuted(w)
  <2>1. status' = status /\ outbox' = outbox \cup {<<"aggregate.execute", job[w]>>}
    BY <1>2 DEF EmitExecuted, Append, Appended
  <2> QED
    BY <1>0, <2>1 DEF SettleRecorded, Working, Others
<1>3. CASE ~Settle(w) /\ ~EmitExecuted(w)
  <2>1. /\ status'[b] = "SETTLED" => status[b] = "SETTLED"
        /\ outbox \subseteq outbox' /\ pc[w] # "emit"
    BY <1>0, <1>3 DEF Quiet, CloseBatch, Resubmit, Submitting, Record, Load, Create, Advance, Claim,
       Submit, Fill, Filled, Float, Adjust, ClaimHedge, Expose, SettleOrder, Append, MoveBatch,
       CreateRow, FillRow, SettleRow, AddToFloat, dbVars, DbOK
  <2> QED
    BY <1>0, <2>1, WorkingStays DEF SettleRecorded
<1> QED
  BY <1>1, <1>2, <1>3

Settling == {"expose", "settleOrder"}
OrderSettles(b) == order[b].notional > 0 => order[b].status = "SETTLED" \/ Working(b, Settling)

\* The hedge of the batch was claimed, or somebody relies on that.
HedgeClaimed(b) ==
    \/ Key("hedge", b) \in keys \cup lost
    \/ Working(b, {"settle"})
    \/ status[b] = "SETTLED"
SettlesInv(b) == HedgeClaimed(b) => Persisted(b) /\ OrderSettles(b)

LEMMA OrderSettlesStays ==
    ASSUME TypeOK, Sound, NEW w \in Worker, Quiet(w), NEW b \in Batch, Persisted(b), OrderSettles(b)
    PROVE  OrderSettles(b)'
<1> USE DEF At
<1>0. Others(w) /\ DbOK /\ WorkerOK
  BY QuietMovesOne, TypeParts
<1>1. order'[b].notional = order[b].notional /\ (order[b].status = "SETTLED" => order'[b].status = "SETTLED")
  BY <1>0 DEF Quiet, CloseBatch, Resubmit, Submitting, Record, Load, Create, Advance, Claim, Submit,
     Fill, Filled, Float, Adjust, ClaimHedge, Expose, SettleOrder, Settle, EmitExecuted, Append,
     MoveBatch, CreateRow, IsNewOrder, FillRow, SettleRow, AddToFloat, dbVars, DbOK, Row, Persisted
<1>2. CASE Expose(w)
  <2>1. Goto(w, "settleOrder") /\ pc[w] = "expose"
    BY <1>2 DEF Expose
  <2>2. pc'[w] = "settleOrder" /\ job'[w] = job[w]
    BY <1>0, <2>1 DEF Goto, WorkerOK
  <2>3. Working(b, Settling) => Working(b, Settling)'
    BY <1>0, <2>2 DEF Working, Settling, Others
  <2> QED
    BY <1>1, <2>3 DEF OrderSettles
<1>3. CASE SettleOrder(w)
  <2>1. job[w] = b => order'[b].status = "SETTLED"
    BY <1>0, <1>3 DEF SettleOrder, SettleRow, DbOK, Row
  <2>2. job[w] # b /\ Working(b, Settling) => Working(b, Settling)'
    BY <1>0 DEF Working, Others
  <2> QED
    BY <1>1, <2>1, <2>2 DEF OrderSettles
<1>4. CASE ~Expose(w) /\ ~SettleOrder(w)
  <2>1. pc[w] \notin Settling
    BY <1>4 DEF Quiet, CloseBatch, Resubmit, Submitting, Record, Load, Create, Advance, Claim, Submit,
       Fill, Filled, Float, Adjust, ClaimHedge, Settle, EmitExecuted, Settling
  <2> QED
    BY <1>0, <1>1, <2>1, WorkingStays DEF OrderSettles
<1> QED
  BY <1>2, <1>3, <1>4

LEMMA SettlesStep ==
    ASSUME TypeOK, Sound, Sound', Grows, NEW w \in Worker, Quiet(w), NEW b \in Batch, SettlesInv(b)
    PROVE  SettlesInv(b)'
<1> USE DEF At
<1>0. Others(w) /\ DbOK /\ WorkerOK
  BY QuietMovesOne, TypeParts
<1>1. CASE HedgeClaimed(b)
  BY <1>1, OrderSettlesStays DEF SettlesInv, Grows
<1>2. CASE ~HedgeClaimed(b) /\ ClaimHedge(w) /\ job[w] = b
  <2>1. /\ pc[w] = "hedge" /\ order' = order
        /\ Goto(w, AfterHedgeClaim(w))
    BY <1>2 DEF ClaimHedge, Unclaimed, HedgeClaimed, dbVars
  <2>2. pc'[w] = AfterHedgeClaim(w) /\ job'[w] = b
    BY <1>0, <1>2, <2>1 DEF Goto, WorkerOK
  <2>3. Persisted(b) /\ Persisted(b)'
    BY <1>2, <2>1 DEF Sound, Founded, AfterFill, RowsAgree, Persisted
  <2>4. OrderSettles(b)'
    BY <1>2, <2>1, <2>2 DEF AfterHedgeClaim, OrderSettles, Working, Settling
  <2> QED
    BY <2>3, <2>4 DEF SettlesInv
<1>3. CASE ~HedgeClaimed(b) /\ SettleOrder(w) /\ job[w] = b
  <2>1. order'[b].status = "SETTLED"
    BY <1>0, <1>3 DEF SettleOrder, SettleRow, DbOK, Row
  <2> QED
    BY <2>1 DEF SettlesInv, OrderSettles, Persisted
<1>4. CASE ~HedgeClaimed(b) /\ ~((ClaimHedge(w) \/ SettleOrder(w)) /\ job[w] = b)
  <2>1. Key("hedge", b) \notin keys' \cup lost'
    <3>1. CASE ClaimHedge(w)
      <4>1. job[w] # b /\ job[w] \in Batch /\ keys' = keys \cup {Key("hedge", job[w])} /\ lost' = lost
        BY <1>0, <1>4, <3>1, BusyHasBatch DEF ClaimHedge
      <4> QED
        BY <1>4, <4>1, KeysDiffer DEF HedgeClaimed
    <3>2. CASE Claim(w)
      <4>1. job[w] \in Batch /\ keys' = keys \cup {Key("agg", job[w])} /\ lost' = lost
        BY <1>0, <3>2, BusyHasBatch DEF Claim
      <4> QED
        BY <1>4, <4>1, KeysDiffer DEF HedgeClaimed
    <3>3. CASE ~ClaimHedge(w) /\ ~Claim(w)
      BY <1>4, <3>3 DEF Quiet, CloseBatch, Resubmit, Submitting, Record, Load, Create, Advance, Submit,
         Fill, Filled, Float, Adjust, Expose, SettleOrder, Settle, EmitExecuted, keyVars, HedgeClaimed
    <3> QED
      BY <3>1, <3>2, <3>3
  <2>2. ~Working(b, {"settle"})'
    <3>1. pc'[w] = "settle" => job'[w] # b
      <4>1. CASE ClaimHedge(w) \/ SettleOrder(w)
        BY <1>4, <4>1 DEF ClaimHedge, SettleOrder, Goto
      <4>2. CASE ~(ClaimHedge(w) \/ SettleOrder(w))
        BY <1>0, <4>2 DEF Quiet, CloseBatch, Resubmit, Submitting, Record, Load, Create, Advance, Claim,
           Submit, Fill, Filled, Float, Adjust, Expose, Settle, EmitExecuted, Goto, Finish, WorkerOK
      <4> QED
        BY <4>1, <4>2
    <3> QED
      BY <1>0, <1>4, <3>1 DEF HedgeClaimed, Working, Others
  <2>3. status'[b] # "SETTLED"
    <3>1. CASE Settle(w)
      <4>1. job[w] # b
        BY <1>4, <3>1 DEF Settle, HedgeClaimed, Working
      <4> QED
        BY <1>0, <1>4, <3>1, <4>1 DEF Settle, MoveBatch, HedgeClaimed, DbOK
    <3>2. CASE ~Settle(w)
      BY <1>0, <1>4, <3>2 DEF Quiet, CloseBatch, Resubmit, Submitting, Record, Load, Create, Advance,
         Claim, Submit, Fill, Filled, Float, Adjust, ClaimHedge, Expose, SettleOrder, EmitExecuted,
         Append, MoveBatch, CreateRow, FillRow, SettleRow, AddToFloat, dbVars, DbOK, HedgeClaimed
    <3> QED
      BY <3>1, <3>2
  <2> QED
    BY <2>1, <2>2, <2>3 DEF SettlesInv, HedgeClaimed
<1> QED
  BY <1>1, <1>2, <1>3, <1>4

OnRecord(b) == CloseRecorded(b) /\ FloatRecorded(b) /\ SettleRecorded(b) /\ SettlesInv(b)

\* Every batch is on record but those that a fault hit, one per fault.
Missed(F) == IsFiniteSet(F) /\ Cardinality(F) <= used["fault"]
RecordsInv == \E F \in SUBSET Batch : Missed(F) /\ \A b \in Batch \ F : OnRecord(b)

LEMMA OnRecordStep ==
    ASSUME TypeOK, Sound, [Next]_vars, NEW b \in Batch, OnRecord(b),
           Untouched \/ \E w \in Worker : Quiet(w) \/ (Fails(w) /\ job[w] # b)
    PROVE  OnRecord(b)'
<1>1. Sound' /\ Grows
  BY SoundStep
<1>2. ASSUME NEW w \in Worker, Quiet(w) PROVE OnRecord(b)'
  BY <1>1, <1>2, CloseRecordedStep, FloatRecordedStep, SettleRecordedStep, SettlesStep DEF OnRecord
<1>3. ASSUME Untouched PROVE OnRecord(b)'
  BY <1>3 DEF OnRecord, dbVars, CloseRecorded, FloatRecorded, SettleRecorded, SettlesInv, HedgeClaimed,
     Persisted, OrderSettles, Working, Untouched
<1>4. ASSUME NEW w \in Worker, Fails(w), job[w] # b PROVE OnRecord(b)'
  <2>1. /\ status'[b] = status[b] /\ order'[b] = order[b] /\ floated'[b] = floated[b]
        /\ outbox \subseteq outbox'
        /\ Key("hedge", b) \in keys' \cup lost' <=> Key("hedge", b) \in keys \cup lost
        /\ \A S \in SUBSET Call : Working(b, S)' <=> Working(b, S)
    BY <1>4, FailsElsewhere
  <2>2. /\ Working(b, {"record"})' <=> Working(b, {"record"})
        /\ Working(b, {"adjust"})' <=> Working(b, {"adjust"})
        /\ Working(b, {"emit"})' <=> Working(b, {"emit"})
        /\ Working(b, {"settle"})' <=> Working(b, {"settle"})
        /\ Working(b, Settling)' <=> Working(b, Settling)
    BY <2>1 DEF Call, Settling
  <2>3. CloseRecorded(b)' /\ FloatRecorded(b)' /\ SettleRecorded(b)'
    BY <2>1, <2>2 DEF OnRecord, CloseRecorded, FloatRecorded, SettleRecorded
  <2>4. SettlesInv(b)'
    BY <2>1, <2>2 DEF OnRecord, SettlesInv, HedgeClaimed, OrderSettles, Persisted
  <2> QED
    BY <2>3, <2>4 DEF OnRecord
<1> QED
  BY <1>2, <1>3, <1>4

LEMMA RecordsStep ==
    ASSUME TypeOK, Sound, RecordsInv, [Next]_vars
    PROVE  RecordsInv'
<1>1. PICK F \in SUBSET Batch : Missed(F) /\ \A b \in Batch \ F : OnRecord(b)
  BY DEF RecordsInv
<1>2. used["fault"] \in Nat
  BY DEF TypeOK, Budget
<1>3. ASSUME Untouched \/ (\E w \in Worker : Quiet(w)), used'["fault"] = used["fault"]
      PROVE  RecordsInv'
  <2>1. \A b \in Batch \ F : OnRecord(b)'
    BY <1>1, <1>3, OnRecordStep
  <2>2. Missed(F)'
    BY <1>1, <1>3 DEF Missed
  <2> QED
    BY <2>1, <2>2 DEF RecordsInv
<1>4. ASSUME NEW w \in Worker, Fails(w), used'["fault"] = used["fault"] + 1
      PROVE  RecordsInv'
  <2>1. PICK hit \in Batch : job[w] = hit
    BY <1>4, OwnBatch
  <2> DEFINE G == F \cup {hit}
  <2>2. Missed(G)'
    <3>1. IsFiniteSet(F) /\ Cardinality(F) <= used["fault"]
      BY <1>1 DEF Missed
    <3>2. /\ IsFiniteSet(G) /\ Cardinality(G) \in Nat /\ Cardinality(F) \in Nat
          /\ Cardinality(G) <= Cardinality(F) + 1
      BY <3>1, OneMoreCounts
    <3> HIDE DEF G
    <3> QED
      BY <1>2, <1>4, <3>1, <3>2 DEF Missed
  <2>3. ASSUME NEW b \in Batch \ G PROVE OnRecord(b)'
    BY <1>1, <1>4, <2>1, <2>3, OnRecordStep
  <2> QED
    BY <2>2, <2>3 DEF RecordsInv
<1> QED
  BY <1>3, <1>4, StepUses

\* Whatever moved is on record or about to be, and a settled batch has its order settled
\* or about to be, but for one batch per fault, for any number of racing replays and lost
\* keys: a fault leaves at most the batch it hits half recorded.
THEOREM RecordsKept == Spec => []RecordsAgree
<1>1. Init => RecordsInv
  <2> SUFFICES ASSUME Init PROVE RecordsInv
    OBVIOUS
  <2>1. \A b \in Batch : OnRecord(b)
    BY DEF Init, OnRecord, CloseRecorded, FloatRecorded, SettleRecorded, SettlesInv, HedgeClaimed, Working
  <2>2. Missed({})
    BY FS_EmptySet DEF Init, Missed, Budget
  <2> QED
    BY <2>1, <2>2 DEF RecordsInv
<1>2. TypeOK /\ Sound /\ RecordsInv /\ [Next]_vars => RecordsInv' /\ Sound'
  BY RecordsStep, SoundStep
<1>3. TypeOK /\ RecordsInv => RecordsAgree
  <2> SUFFICES ASSUME TypeOK, RecordsInv PROVE RecordsAgree
    OBVIOUS
  <2>1. PICK F \in SUBSET Batch : Missed(F) /\ \A b \in Batch \ F : OnRecord(b)
    BY DEF RecordsInv
  <2>2. \A b \in Batch : OnRecord(b) => Recorded(b)
    BY DEF OnRecord, Recorded, CloseRecorded, FloatRecorded, SettleRecorded, SettlesInv, HedgeClaimed,
       OrderSettles, Settling
  <2>3. Unrecorded \subseteq F
    BY <2>1, <2>2 DEF Unrecorded
  <2>4. used["fault"] \in Nat /\ Cardinality(F) \in Nat /\ Cardinality(Unrecorded) \in Nat
    BY <2>1, <2>3, SubsetCounts, FS_CardinalityType DEF Missed, TypeOK, Budget
  <2> QED
    BY <2>1, <2>3, <2>4, SubsetCounts DEF Missed, RecordsAgree
<1> QED
  BY <1>1, <1>2, <1>3, SoundInit, TypeCorrect, PTL DEF Spec

-------------------------------------------------------------------------------
(* SubmittedAsOrdered: a batch nobody replays has one worker, whose row is    *)
(* created with what it read and which asks for what it read.                *)

BeforeOrder == {"record", "load", "create"}
AsOrdered == {"advance", "claim", "submit"}

Asked(b) ==
    /\ \A v, w \in Worker : job[v] = b /\ job[w] = b => v = w
    /\ \A w \in Worker : job[w] = b =>
        /\ status[b] # "OPEN"
        /\ pc[w] \in BeforeOrder => ~Persisted(b)
        /\ pc[w] \in AsOrdered => seen[w] = order[b].notional
    /\ ~Persisted(b) => asked[b] = {}
    /\ asked[b] \subseteq {order[b].notional}

\* So it is with every batch but those that were replayed, one per replay.
Replayed(F) == IsFiniteSet(F) /\ Cardinality(F) <= used["resubmit"]
AskedInv == \E F \in SUBSET Batch : Replayed(F) /\ \A b \in Batch \ F : Asked(b)

\* What it does to its batch's row and to what was asked.
LEMMA OwnAmounts ==
    ASSUME TypeOK, Sound, NEW w \in Worker, Submitting(w) \/ Filled(w) \/ Fails(w)
    PROVE  LET b == job[w] IN
           /\ pc[w] # "create" =>
                order'[b].notional = order[b].notional /\ (Persisted(b) <=> order'[b].status # "NONE")
           /\ pc[w] = "create" /\ ~Persisted(b) =>
                \/ order'[b] = order[b] /\ pc'[w] = "idle"
                \/ /\ order'[b].notional = seen[w] /\ order'[b].status # "NONE"
                   /\ pc'[w] \in {"advance", "idle"} /\ seen'[w] \in {seen[w], 0}
                   /\ pc'[w] = "advance" => seen'[w] = seen[w]
           /\ asked'[b] = asked[b] \/ (pc[w] = "submit" /\ asked'[b] = asked[b] \cup {seen[w]})
           /\ pc'[w] \in BeforeOrder => pc[w] \in {"record", "load"}
           /\ pc'[w] \in AsOrdered \ {"advance"} => pc[w] \in AsOrdered /\ seen'[w] = seen[w]
           /\ pc'[w] = "advance" => pc[w] = "create"
<1> USE DEF At
<1>0. WorkerOK /\ DbOK /\ RestOK /\ job[w] \in Batch
  BY TypeParts, OwnBatch
<1>1. CASE pc[w] = "create"
  <2>1. \/ Create(w)
        \/ StoreFails(w) /\ Finish(w) /\ asked' = asked
             /\ (CreateRow(job[w], seen[w]) \/ order' = order)
        \/ Crash(w)
    BY <1>1 DEF Submitting, Record, Load, Create, Advance, Claim, Submit, Fill, Filled, Float,
       Adjust, ClaimHedge, Expose, SettleOrder, Settle, EmitExecuted, Fails, StoreFails,
       DownstreamFails, Crash, KeyCheckFails, outside, dbVars
  <2>2. asked' = asked
    BY <2>1 DEF Create, Crash, outside
  <2>3. CreateRow(job[w], seen[w]) /\ ~Persisted(job[w])
        => order'[job[w]].notional = seen[w] /\ order'[job[w]].status # "NONE"
    BY <1>0 DEF CreateRow, IsNewOrder, FirstOrderStatus, Persisted, DbOK
  <2>4. CASE Create(w)
    BY <1>0, <1>1, <2>2, <2>3, <2>4 DEF Create, Finish, Goto, WorkerOK, Persisted, BeforeOrder, AsOrdered
  <2>5. CASE Finish(w) /\ (CreateRow(job[w], seen[w]) \/ order' = order)
    BY <1>0, <1>1, <2>2, <2>3, <2>5 DEF Finish, WorkerOK, BeforeOrder, AsOrdered
  <2> QED
    BY <2>1, <2>4, <2>5 DEF Crash, dbVars
<1>2. CASE pc[w] # "create"
  <2>1. order'[job[w]].notional = order[job[w]].notional /\ (Persisted(job[w]) <=> order'[job[w]].status # "NONE")
    <3>1. CASE order' = order
      BY <3>1 DEF Persisted
    <3>2. CASE FillRow(job[w])
      BY <1>0, <3>2 DEF FillRow, DbOK, Row, Persisted
    <3>3. CASE SettleRow(job[w]) /\ pc[w] = "settleOrder"
      BY <1>0, <3>3 DEF SettleRow, DbOK, Row, Persisted, Sound, Founded, AfterFill, RowsAgree
    <3> QED
      BY <1>2, <3>1, <3>2, <3>3 DEF Submitting, Record, Load, Create, Advance, Claim, Submit, Fill, Filled,
         Float, Adjust, ClaimHedge, Expose, SettleOrder, Settle, EmitExecuted, Fails, StoreFails,
         DownstreamFails, Crash, KeyCheckFails, Append, MoveBatch, AddToFloat, dbVars
  <2>2. asked'[job[w]] = asked[job[w]]
          \/ (pc[w] = "submit" /\ asked'[job[w]] = asked[job[w]] \cup {seen[w]})
    BY <1>0 DEF Submitting, Record, Load, Create, Advance, Claim, Submit, Fill, Filled, Float,
       Adjust, ClaimHedge, Expose, SettleOrder, Settle, EmitExecuted, Fails, StoreFails,
       DownstreamFails, Crash, KeyCheckFails, Place, SubmittedNotional, Hedge, outside, RestOK
  <2>3. /\ pc'[w] \in BeforeOrder => pc[w] \in {"record", "load"}
        /\ pc'[w] \in AsOrdered => pc[w] \in AsOrdered /\ seen'[w] = seen[w] /\ pc'[w] # "advance"
    BY <1>0, <1>2, AfterHedgeClaimPlace DEF Submitting, Record, Load, Create, Advance, Claim, Submit, Fill,
       Filled, Float, Adjust, ClaimHedge, Expose, SettleOrder, Settle, EmitExecuted, Fails, StoreFails,
       DownstreamFails, Crash, KeyCheckFails, Goto, Finish, WorkerOK, BeforeOrder, AsOrdered
  <2> QED
    BY <1>2, <2>1, <2>2, <2>3 DEF AsOrdered
<1> QED
  BY <1>1, <1>2

\* A call of OnClose or SubmitBatch for the batch itself, or for another one.
LEMMA AskedStart ==
    ASSUME TypeOK, Sound, Grows, NEW b \in Batch, Asked(b), NEW w \in Worker, NEW c \in Batch,
           CloseBatch(w, c) \/ (Resubmit(w, c) /\ c # b)
    PROVE  Asked(b)'
<1>0. WorkerOK /\ DbOK
  BY TypeParts
<1>1. /\ pc[w] = "idle" /\ pc'[w] \in {"record", "load"} /\ job'[w] = c /\ Others(w)
      /\ seen' = seen /\ order' = order /\ asked' = asked
  BY <1>0, NoneAssumption DEF CloseBatch, Resubmit, MoveBatch, At, outside, dbVars, WorkerOK, Others
<1>2. CASE c # b
  <2>1. \A v \in Worker : job'[v] = b => v # w /\ job[v] = b /\ pc'[v] = pc[v]
    BY <1>1, <1>2 DEF Others
  <2> QED
    BY <1>1, <2>1 DEF Asked, Grows, Persisted
<1>3. CASE c = b
  <2>1. CloseBatch(w, b) /\ status[b] = "OPEN" /\ status'[b] # "OPEN"
    BY <1>0, <1>3 DEF CloseBatch, MoveBatch, MayMove, DbOK
  <2>2. \A v \in Worker : job[v] # b
    BY <2>1 DEF Asked
  <2>3. \A v \in Worker : job'[v] = b => v = w
    BY <1>1, <2>2 DEF Others
  <2>4. ~Persisted(b) /\ ~Persisted(b)'
    BY <1>1, <2>1 DEF Sound, RowsAgree, Persisted
  <2> QED
    BY <1>1, <1>3, <2>1, <2>3, <2>4 DEF Asked, BeforeOrder, AsOrdered
<1> QED
  BY <1>2, <1>3

\* The call goes on, fails or ends.
LEMMA AskedOn ==
    ASSUME TypeOK, Sound, Grows, NEW b \in Batch, Asked(b), NEW w \in Worker,
           Submitting(w) \/ Filled(w) \/ Fails(w)
    PROVE  Asked(b)'
<1>0. WorkerOK /\ DbOK
  BY TypeParts
<1>1. /\ pc[w] # "idle" /\ job[w] \in Batch /\ Others(w)
      /\ \A x \in Worker \ {w} : seen'[x] = seen[x]
      /\ job'[w] \in {job[w], None} /\ (job'[w] = None => pc'[w] = "idle")
      /\ \A d \in Batch \ {job[w]} : order'[d] = order[d] /\ asked'[d] = asked[d]
  BY OwnBatch
<1>2. \A v \in Worker : job'[v] = b => job[v] = b
  BY <1>1, NoneAssumption DEF Others
<1>3. CASE job[w] # b
  <2>1. \A v \in Worker : job'[v] = b => pc'[v] = pc[v] /\ seen'[v] = seen[v]
    BY <1>1, <1>2, <1>3 DEF Others
  <2> QED
    BY <1>1, <1>2, <1>3, <2>1 DEF Asked, Grows, Persisted
<1>4. CASE job[w] = b
  <2>1. /\ pc[w] # "create" =>
             order'[b].notional = order[b].notional /\ (Persisted(b) <=> order'[b].status # "NONE")
        /\ pc[w] = "create" /\ ~Persisted(b) =>
             \/ order'[b] = order[b] /\ pc'[w] = "idle"
             \/ /\ order'[b].notional = seen[w] /\ order'[b].status # "NONE"
                /\ pc'[w] \in {"advance", "idle"} /\ seen'[w] \in {seen[w], 0}
                /\ pc'[w] = "advance" => seen'[w] = seen[w]
        /\ asked'[b] = asked[b] \/ (pc[w] = "submit" /\ asked'[b] = asked[b] \cup {seen[w]})
        /\ pc'[w] \in BeforeOrder => pc[w] \in {"record", "load"}
        /\ pc'[w] \in AsOrdered \ {"advance"} => pc[w] \in AsOrdered /\ seen'[w] = seen[w]
        /\ pc'[w] = "advance" => pc[w] = "create"
    BY <1>4, OwnAmounts
  <2>2. /\ pc[w] \in BeforeOrder => ~Persisted(b)
        /\ pc[w] \in AsOrdered => seen[w] = order[b].notional
        /\ ~Persisted(b) => asked[b] = {}
        /\ asked[b] \subseteq {order[b].notional}
    BY <1>4 DEF Asked
  <2>3. \A v \in Worker : job'[v] = b => v = w /\ status'[b] # "OPEN"
    BY <1>2, <1>4 DEF Asked, Grows
  <2>4. /\ pc'[w] \in BeforeOrder => order'[b].status = "NONE"
        /\ pc'[w] \in AsOrdered => seen'[w] = order'[b].notional
    BY <2>1, <2>2 DEF BeforeOrder, AsOrdered, Persisted
  <2>5. /\ order'[b].status = "NONE" => asked'[b] = {}
        /\ asked'[b] \subseteq {order'[b].notional}
    BY <1>1, <1>4, <2>1, <2>2 DEF BeforeOrder, AsOrdered, Persisted, Sound, Founded
  <2> QED
    BY <2>3, <2>4, <2>5 DEF Asked, Persisted
<1> QED
  BY <1>3, <1>4

\* A step is a replay of some batch, which counts, or leaves the batches as asked.
LEMMA AskedStep ==
    ASSUME TypeOK, Sound, [Next]_vars
    PROVE  \/ /\ used'["resubmit"] = used["resubmit"]
              /\ \A b \in Batch : Asked(b) => Asked(b)'
           \/ /\ used'["resubmit"] = used["resubmit"] + 1
              /\ \E c \in Batch : \A b \in Batch \ {c} : Asked(b) => Asked(b)'
<1>0. used \in [Budget -> Nat] /\ Budget = {"resubmit", "total", "expiry", "fault"} /\ Grows
  BY SoundStep DEF TypeOK, Budget
<1>1. ASSUME NEW x \in Budget \ {"resubmit"}, Use(x) PROVE used'["resubmit"] = used["resubmit"]
  BY <1>0, <1>1 DEF Use
<1>2. ASSUME NEW w \in Worker, NEW c \in Batch, CloseBatch(w, c)
      PROVE  used'["resubmit"] = used["resubmit"] /\ \A b \in Batch : Asked(b) => Asked(b)'
  BY <1>0, <1>2, AskedStart DEF CloseBatch
<1>3. ASSUME NEW w \in Worker, NEW c \in Batch, Resubmit(w, c)
      PROVE  /\ used'["resubmit"] = used["resubmit"] + 1
             /\ \A b \in Batch \ {c} : Asked(b) => Asked(b)'
  BY <1>0, <1>3, AskedStart DEF Resubmit, Use
<1>4. ASSUME NEW w \in Worker, Submitting(w) \/ Filled(w) \/ Fails(w)
      PROVE  used'["resubmit"] = used["resubmit"] /\ \A b \in Batch : Asked(b) => Asked(b)'
  <2>1. used' = used \/ Use("fault")
    BY <1>4 DEF Submitting, Record, Load, Create, Advance, Claim, Submit, Fill, Filled, Float, Adjust,
       ClaimHedge, Expose, SettleOrder, Settle, EmitExecuted, Fails, StoreFails, DownstreamFails, Crash,
       KeyCheckFails
  <2> QED
    BY <1>0, <1>1, <1>4, <2>1, AskedOn
<1>5. ASSUME \/ \E k \in keys : KeyExpires(k)
             \/ \E b \in Batch, amount \in Amount : LateTotal(b, amount)
             \/ UNCHANGED vars
      PROVE  used'["resubmit"] = used["resubmit"] /\ \A b \in Batch : Asked(b) => Asked(b)'
  <2>1. used' = used \/ Use("expiry") \/ Use("total")
    BY <1>5 DEF KeyExpires, LateTotal, vars
  <2>2. UNCHANGED <<status, order, asked, pc, job, seen>>
    BY <1>5 DEF KeyExpires, LateTotal, vars, dbVars, outside, workerVars
  <2> QED
    BY <1>0, <1>1, <2>1, <2>2 DEF Asked, Persisted
<1> QED
  BY <1>2, <1>3, <1>4, <1>5 DEF Next

LEMMA AskedInvStep ==
    ASSUME TypeOK, Sound, AskedInv, [Next]_vars
    PROVE  AskedInv'
<1>1. PICK F \in SUBSET Batch : Replayed(F) /\ \A b \in Batch \ F : Asked(b)
  BY DEF AskedInv
<1>2. CASE used'["resubmit"] = used["resubmit"] /\ \A b \in Batch : Asked(b) => Asked(b)'
  <2>1. Replayed(F)'
    BY <1>1, <1>2 DEF Replayed
  <2> QED
    BY <1>1, <1>2, <2>1 DEF AskedInv
<1>3. ASSUME used'["resubmit"] = used["resubmit"] + 1, NEW c \in Batch,
             \A b \in Batch \ {c} : Asked(b) => Asked(b)'
      PROVE  AskedInv'
  <2> DEFINE G == F \cup {c}
  <2>1. IsFiniteSet(F) /\ Cardinality(F) <= used["resubmit"] /\ used["resubmit"] \in Nat
    BY <1>1 DEF Replayed, TypeOK, Budget
  <2>2. /\ IsFiniteSet(G) /\ Cardinality(G) \in Nat /\ Cardinality(F) \in Nat
        /\ Cardinality(G) <= Cardinality(F) + 1
    BY <2>1, OneMoreCounts
  <2>3. G \in SUBSET Batch /\ \A b \in Batch \ G : Asked(b)'
    BY <1>1, <1>3
  <2> HIDE DEF G
  <2>4. Replayed(G)'
    BY <1>3, <2>1, <2>2 DEF Replayed
  <2> QED
    BY <2>3, <2>4 DEF AskedInv
<1> QED
  BY <1>2, <1>3, AskedStep

\* liquidity-routing is asked for the notional on the order row, however late totals, faults
\* and crashes come in between, but for one batch per replay of SubmitBatch.
THEOREM AskedAsOrdered == Spec => []SubmittedAsOrdered
<1>1. Init => AskedInv
  <2> SUFFICES ASSUME Init PROVE AskedInv
    OBVIOUS
  <2>1. \A b \in Batch : Asked(b)
    BY NoneAssumption DEF Init, Asked, Persisted, NoOrder
  <2>2. Replayed({})
    BY FS_EmptySet DEF Init, Replayed, Budget
  <2> QED
    BY <2>1, <2>2 DEF AskedInv
<1>2. TypeOK /\ Sound /\ AskedInv /\ [Next]_vars => AskedInv' /\ Sound'
  BY AskedInvStep, SoundStep
<1>3. TypeOK /\ AskedInv => SubmittedAsOrdered
  <2> SUFFICES ASSUME TypeOK, AskedInv PROVE SubmittedAsOrdered
    OBVIOUS
  <2>1. PICK F \in SUBSET Batch : Replayed(F) /\ \A b \in Batch \ F : Asked(b)
    BY DEF AskedInv
  <2>2. Misasked \subseteq F
    BY <2>1 DEF Asked, Misasked
  <2>3. used["resubmit"] \in Nat /\ Cardinality(F) \in Nat /\ Cardinality(Misasked) \in Nat
    BY <2>1, <2>2, SubsetCounts, FS_CardinalityType DEF Replayed, TypeOK, Budget
  <2> QED
    BY <2>1, <2>2, <2>3, SubsetCounts DEF Replayed, SubmittedAsOrdered
<1> QED
  BY <1>1, <1>2, <1>3, SoundInit, TypeCorrect, PTL DEF Spec
===============================================================================
