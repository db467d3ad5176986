---------------------------- MODULE FloatPosition -----------------------------
(***************************************************************************)
(* The float (internal/float and the table float_positions): aggregate     *)
(* fills add to the unsettled position of their fiat currency, and a       *)
(* sweeper is to settle the positions that have matured.                   *)
(*                                                                         *)
(* The store is Postgres, shared by replicas, or with DEV_MODE the memory  *)
(* of a single process.  Postgres refuses the sweeper's query on every     *)
(* tick, so that positions are settled in memory only.                     *)
(*                                                                         *)
(* An amount is abstracted to the set of fills it sums.  Fills are numbered*)
(* in the order in which they start, which is that of their due dates in   *)
(* one currency; time is the set of fills whose due date has passed.       *)
(***************************************************************************)
EXTENDS Naturals, FiniteSets

CONSTANTS
    Fill,        \* calls of Tracker.OnAggregateFill
    Currency,
    FiatOf,      \* the fiat currency of each fill
    RowId,       \* ids AddFloat may generate
    OverMax,     \* the amounts above MAX_FLOAT_USD
    MaxFaults,   \* bound: failed or interrupted calls, and crashes
    None

ASSUME FillAssumption == Fill \subseteq Nat /\ RowId \subseteq Nat
ASSUME FiatAssumption == FiatOf \in [Fill -> Currency]
\* Amounts are not negative: more fills are not less float.
ASSUME OverMaxAssumption ==
    /\ OverMax \subseteq SUBSET Fill /\ {} \notin OverMax
    /\ \A S \in OverMax, T \in SUBSET Fill : S \subseteq T => T \in OverMax
ASSUME FaultsAssumption == MaxFaults \in Nat
ASSUME NoneAssumption == None \notin Currency /\ None \notin Fill

VARIABLES
    postgres,    \* DB_URL is set: the store is Postgres
    row,         \* float_positions: fiat currency, summed fills, the fill whose due
                 \* date it has, settled
    pc,          \* per fill: its next call
    sweep,       \* the sweeper: next call, rows still to settle, currency of the first
                 \* row listed
    due,         \* the fills whose due date has passed
    added,       \* fills that AddFloat has added to the store
    swept,       \* fills whose position was settled
    alarmed,     \* currencies with a breach reported
    faults       \* used-up bound

vars == <<postgres, row, pc, sweep, due, added, swept, alarmed, faults>>

NoRow == [fiat |-> None, fills |-> {}, due |-> None, settled |-> FALSE]
NoSweep == [pc |-> "idle", todo |-> {}, fiat |-> None]

Init ==
    /\ postgres \in BOOLEAN
    /\ row = [i \in RowId |-> NoRow]
    /\ pc = [f \in Fill |-> "none"]
    /\ sweep = NoSweep
    /\ due = {}
    /\ added = {}
    /\ swept = {}
    /\ alarmed = {}
    /\ faults = 0

Row(i) == row[i].fiat # None

\* GetFloat: the sum over all rows of the currency, settled or not.
Total(c) == UNION {row[i].fills : i \in {j \in RowId : row[j].fiat = c}}

At(f, here) == pc[f] = here
Goto(f, there) == pc' = [pc EXCEPT ![f] = there]

-------------------------------------------------------------------------------
(* OnAggregateFill: AddFloat, then (OnAdjust and) enforceBounds.           *)

\* The positions AddFloat would add to.
Unsettled(c) == {i \in RowId : row[i].fiat = c /\ ~row[i].settled}

\* The row that AddFloat leaves: amounts are added, the due date is overwritten.
Replaces(r, f) == [r EXCEPT !.fills = {f}, !.due = f]
Accumulates(r, f) == [r EXCEPT !.fills = @ \cup {f}, !.due = f]

WithoutDue(f) == [NoRow EXCEPT !.fiat = FiatOf[f], !.fills = {f}]
NewRow(f) == [fiat |-> FiatOf[f], fills |-> {f}, due |-> f, settled |-> FALSE]

\* Where OnAggregateFill goes on after AddFloat.
SkipsBounds == "done"
AfterAdd == "bounds"

\* The fill arrives and computes its due date.
Begin(f) ==
    /\ At(f, "none") /\ Goto(f, "add")
    /\ \A g \in Fill : g < f => ~At(g, "none")
    /\ UNCHANGED <<postgres, row, sweep, due, added, swept, alarmed, faults>>

\* AddFloat finds rows and updates the one it reads first: under a row lock (SELECT ...
\* FOR UPDATE), or the mutex of the store in memory.
AddToRow(f) ==
    /\ \E i \in Unsettled(FiatOf[f]) : row' = [row EXCEPT ![i] = Accumulates(row[i], f)]
    /\ added' = added \cup {f}

\* It finds none. Postgres then locks none, and the INSERT is a step of its own.
FindNone(f) ==
    /\ postgres
    /\ At(f, "add") /\ Goto(f, "insert")
    /\ Unsettled(FiatOf[f]) = {}
    /\ UNCHANGED <<postgres, row, sweep, due, added, swept, alarmed, faults>>

InsertRow(f) ==
    /\ \E i \in RowId : ~Row(i) /\ row' = [row EXCEPT ![i] = NewRow(f)]
    /\ added' = added \cup {f}

AddFloat(f) ==
    /\ \/ At(f, "add") /\ AddToRow(f)
       \/ At(f, "insert") /\ InsertRow(f)
       \/ ~postgres /\ At(f, "add") /\ Unsettled(FiatOf[f]) = {} /\ InsertRow(f)
    /\ Goto(f, AfterAdd)
    /\ UNCHANGED <<postgres, sweep, due, swept, alarmed, faults>>

\* enforceBounds reads the total and reports a breach.
Report(c) == alarmed' = IF Total(c) \in OverMax THEN alarmed \cup {c} ELSE alarmed

CheckBounds(f) ==
    /\ At(f, "bounds") /\ Goto(f, "done")
    /\ Report(FiatOf[f])
    /\ UNCHANGED <<postgres, row, sweep, due, added, swept, faults>>

\* A call to Postgres fails, before or after it took effect, or its replica dies: an error
\* of AddFloat is returned, one of enforceBounds' GetFloat dropped.
FillFails(f) ==
    /\ postgres
    /\ faults < MaxFaults
    /\ faults' = faults + 1
    /\ Goto(f, "done")
    /\ \/ pc[f] \in {"add", "insert", "bounds"} /\ UNCHANGED <<row, added>>
       \/ At(f, "add") /\ AddToRow(f)
       \/ At(f, "insert") /\ InsertRow(f)
    /\ UNCHANGED <<postgres, sweep, due, swept, alarmed>>

-------------------------------------------------------------------------------
(* SweepMatured.                                                           *)

\* ListMaturedFloat's rows.
AnyOpen == {i \in RowId : Row(i) /\ ~row[i].settled}
Matured == {i \in RowId : Row(i) /\ ~row[i].settled /\ row[i].due \in due}

\* Postgres answers its query with an error, whatever the rows: it calls uuid_nil(), of
\* an extension (uuid-ossp) that no migration creates.
ListAnswers == ~postgres

First(S) == CHOOSE i \in S : \A j \in S : i <= j

\* A tick of the sweeper. One whose list is refused, or empty, changes nothing.
ListMatured ==
    /\ sweep.pc = "idle"
    /\ ListAnswers /\ Matured # {}
    /\ sweep' = [pc |-> "settle", todo |-> Matured, fiat |-> row[First(Matured)].fiat]
    /\ UNCHANGED <<postgres, row, pc, due, added, swept, alarmed, faults>>

\* SettleFloat sets the flag by id, whatever was added since; in memory it leaves the
\* amounts, which GetFloat goes on summing.
Settled(r) == [r EXCEPT !.settled = TRUE]
SettleFloat(i) ==
    /\ row' = [row EXCEPT ![i] = Settled(row[i])]
    /\ swept' = swept \cup row[i].fills

\* One row after the other (in memory none fails), then enforceBounds.
SettleNext ==
    LET rest == sweep.todo \ {First(sweep.todo)} IN
    /\ sweep.pc = "settle"
    /\ SettleFloat(First(sweep.todo))
    /\ sweep' = [sweep EXCEPT !.pc = IF rest = {} THEN "bounds" ELSE "settle", !.todo = rest]
    /\ UNCHANGED <<postgres, pc, due, added, alarmed, faults>>

\* Only the currency of the first row listed is looked at.
CheckAfterSweep ==
    /\ sweep.pc = "bounds"
    /\ sweep' = NoSweep
    /\ Report(sweep.fiat)
    /\ UNCHANGED <<postgres, row, pc, due, added, swept, faults>>

-------------------------------------------------------------------------------

\* The process of a store in memory dies, and the store with it.
Crash ==
    /\ ~postgres
    /\ faults < MaxFaults
    /\ faults' = faults + 1
    /\ row' = [i \in RowId |-> NoRow]
    /\ pc' = [f \in Fill |-> IF At(f, "none") THEN "none" ELSE "done"]
    /\ sweep' = NoSweep
    /\ added' = {} /\ swept' = {} /\ alarmed' = {}
    /\ UNCHANGED <<postgres, due>>

\* T+n passes for a fill; in one currency that happens in the order of the fills.
FallsDue(f) ==
    /\ ~At(f, "none") /\ f \notin due
    /\ \A g \in Fill : g < f /\ FiatOf[g] = FiatOf[f] => g \in due
    /\ due' = due \cup {f}
    /\ UNCHANGED <<postgres, row, pc, sweep, added, swept, alarmed, faults>>

Handle(f) == FindNone(f) \/ AddFloat(f) \/ CheckBounds(f)
Sweep == ListMatured \/ SettleNext \/ CheckAfterSweep

Next ==
    \/ \E f \in Fill : Begin(f) \/ Handle(f) \/ FillFails(f) \/ FallsDue(f)
    \/ Sweep \/ Crash

Spec == Init /\ [][Next]_vars

\* Time passes, the sweeper's ticker fires and its calls return. No fill has to arrive.
FairSpec == Spec /\ (\A f \in Fill : WF_vars(FallsDue(f))) /\ WF_vars(Sweep)

-------------------------------------------------------------------------------
(* Correctness.                                                            *)

RowType == [fiat : Currency \cup {None}, fills : SUBSET Fill, due : Fill \cup {None},
            settled : BOOLEAN]
SweepType == [pc : {"idle", "settle", "bounds"}, todo : SUBSET RowId,
              fiat : Currency \cup {None}]

\* Type correctness: a position contains the fill that set its due date; the sweeper
\* works on positions, and never on those of Postgres.
TypeOK ==
    /\ postgres \in BOOLEAN
    /\ row \in [RowId -> RowType]
    /\ \A i \in RowId : IF Row(i) THEN row[i].due \in row[i].fills ELSE row[i] = NoRow
    /\ pc \in [Fill -> {"none", "add", "insert", "bounds", "done"}]
    /\ sweep \in SweepType
    /\ sweep.pc # "idle" => ~postgres /\ sweep.fiat \in Currency
    /\ sweep.pc = "settle" <=> sweep.todo # {}
    /\ \A i \in sweep.todo : Row(i)
    /\ due \subseteq Fill /\ added \subseteq Fill /\ swept \subseteq added
    /\ alarmed \subseteq Currency
    /\ faults \in Nat

\* What GetFloat reports is all that was ever added, and no fill counts in two positions,
\* however many fills race on a currency's first row. (The plan has it "consistent with
\* sum of delivered crypto minus settled fiat", but nothing settled is ever taken off.)
FloatAddsUp ==
    /\ \A c \in Currency : Total(c) = {f \in added : FiatOf[f] = c}
    /\ \A i, j \in RowId : i # j => row[i].fills \cap row[j].fills = {}

\* "SweepMatured settles floats whose settlement_due_at has passed": a fill may be settled
\* early, but only along with a due one whose position it joined while the sweeper had
\* that listed. (In memory; Postgres settles nothing.)
SweptWithDue == [][swept' \subseteq swept \/ (swept' \ swept) \cap due # {}]_vars

\* "A breach of MAX_FLOAT_USD triggers an alert": a float over its maximum was reported,
\* or a fill that will look at it is on its way, but for one currency per fault. (The plan
\* goes on "and a forced rebalance/hedge signal": the program sets no OnBreach, so there
\* is none.)
Unreported ==
    {c \in Currency : /\ Total(c) \in OverMax /\ c \notin alarmed
                      /\ ~\E f \in Fill : FiatOf[f] = c /\ At(f, "bounds")}
BreachReported == Cardinality(Unreported) <= faults

\* "Matured floats are swept", in memory: what was added is eventually settled, or gone
\* with its process, although later fills push the due date of its position on, as long
\* as these come to an end. On Postgres it never is.
SettlesInMemory ==
    \A f \in Fill : (~postgres /\ f \in added) ~> (f \in swept \/ f \notin added)
===============================================================================
