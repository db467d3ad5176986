------------------------- MODULE FloatPosition_proofs --------------------------
(***************************************************************************)
(* The float for any number of fills, currencies and faults, in Postgres   *)
(* or in memory: what GetFloat reports is what was added, a breach is      *)
(* reported, and what is settled early goes with something due.            *)
(***************************************************************************)
EXTENDS FloatPosition, WellFoundedInduction, FiniteSetTheorems, TLAPS

Stages == {"none", "add", "insert", "bounds", "done"}

\* The inductive strengthening of FloatAddsUp: a position has only added fills of its
\* currency; each added fill is in one; a fill is added only once AddFloat ran for it.
Placed ==
    /\ \A i \in RowId : \A f \in row[i].fills : f \in added /\ FiatOf[f] = row[i].fiat
    /\ \A f \in added : \E i \in RowId : f \in row[i].fills
    /\ \A i, j \in RowId : i # j => row[i].fills \cap row[j].fills = {}

AddedOnce == \A f \in added : pc[f] \in {"bounds", "done"}

FloatInv == TypeOK /\ Placed /\ AddedOnce

-------------------------------------------------------------------------------

\* Going to a stage keeps the stages typed and moves nobody else.
LEMMA GotoTyped ==
    ASSUME TypeOK, NEW f \in Fill, NEW there \in Stages, Goto(f, there)
    PROVE  /\ pc' \in [Fill -> Stages]
           /\ pc'[f] = there
           /\ \A g \in Fill : g # f => pc'[g] = pc[g]
BY DEF TypeOK, Goto, Stages

\* A list of something has a first row.
LEMMA FirstIsListed ==
    ASSUME NEW S \in SUBSET RowId, S # {}
    PROVE  First(S) \in S
<1>1. S \subseteq Nat
  BY FillAssumption
<1>2. PICK m \in S : \A n \in S : ~(n < m)
  <2> DEFINE less == {p \in Nat \X Nat : p[1] < p[2]}
  <2>1. IsWellFoundedOn(less, Nat)
    BY NatLessThanWellFounded DEF OpToRel
  <2>2. \A x, y \in Nat : x < y => <<x, y>> \in less
    OBVIOUS
  <2> HIDE DEF less
  <2>3. PICK m \in S : \A n \in S : <<n, m>> \notin less
    BY <1>1, <2>1, WFMin
  <2> QED
    BY <1>1, <2>2, <2>3
<1>3. \A n \in S : m <= n
  BY <1>1, <1>2
<1> QED
  BY <1>3 DEF First

\* The part of TypeOK about one position.
RowOK(i) == IF Row(i) THEN row[i].due \in row[i].fills ELSE row[i] = NoRow

\* A step that loses no position and no fill of one.
RowsGrow == \A i \in RowId : (Row(i) => Row(i)') /\ row[i].fills \subseteq row'[i].fills

\* What AddFloat's UPDATE and its INSERT do to the positions and to what is added.
LEMMA AddToRowKeeps ==
    ASSUME TypeOK, Placed, NEW f \in Fill, f \notin added, AddToRow(f)
    PROVE  /\ row' \in [RowId -> RowType]
           /\ \A i \in RowId : RowOK(i)'
           /\ \A i \in RowId : row'[i].settled = row[i].settled
           /\ \A i \in RowId : row'[i].fills \subseteq row[i].fills \cup {f}
           /\ \A i \in RowId : row[i].settled => row'[i] = row[i]
           /\ RowsGrow
           /\ added' = added \cup {f}
           /\ Placed'
<1>1. PICK i \in Unsettled(FiatOf[f]) : row' = [row EXCEPT ![i] = Accumulates(row[i], f)]
  BY DEF AddToRow
<1>2. i \in RowId /\ row[i].fiat = FiatOf[f] /\ ~row[i].settled /\ Row(i)
  BY <1>1, FiatAssumption, NoneAssumption DEF Unsettled, Row
<1>3. row[i] \in RowType /\ row \in [RowId -> RowType]
  BY <1>2 DEF TypeOK
<1>4. row'[i] = [row[i] EXCEPT !.fills = row[i].fills \cup {f}, !.due = f]
  BY <1>1, <1>2, <1>3 DEF Accumulates
<1>5. \A j \in RowId : j # i => row'[j] = row[j]
  BY <1>1, <1>3
<1>6. /\ row'[i] \in RowType /\ row'[i].fills = row[i].fills \cup {f} /\ row'[i].due = f
      /\ row'[i].fiat = row[i].fiat /\ row'[i].settled = row[i].settled
  <2>1. row[i].fills \cup {f} \in SUBSET Fill
    BY <1>3 DEF RowType
  <2>2. \A S \in SUBSET Fill :
          LET r == [row[i] EXCEPT !.fills = S, !.due = f] IN
          r \in RowType /\ r.fills = S /\ r.due = f /\ r.fiat = row[i].fiat
            /\ r.settled = row[i].settled
    BY <1>3 DEF RowType
  <2> QED
    BY <1>4, <2>1, <2>2
<1>7. row' \in [RowId -> RowType]
  BY <1>1, <1>3, <1>4, <1>6
<1>8. added' = added \cup {f}
  BY DEF AddToRow
<1>9. \A j \in RowId : RowOK(j)'
  BY <1>2, <1>5, <1>6 DEF TypeOK, RowOK, Row
<1>10. RowsGrow
  BY <1>5, <1>6 DEF RowsGrow, Row
<1>11. Placed'
  <2>1. ASSUME NEW j \in RowId, NEW g \in row'[j].fills
        PROVE  g \in added' /\ FiatOf[g] = row'[j].fiat
    BY <2>1, <1>2, <1>5, <1>6, <1>8 DEF Placed
  <2>2. ASSUME NEW g \in added'
        PROVE  \E j \in RowId : g \in row'[j].fills
    BY <2>2, <1>2, <1>5, <1>6, <1>8 DEF Placed
  <2>3. \A j \in RowId : f \notin row[j].fills
    BY DEF Placed
  <2>4. ASSUME NEW j \in RowId, NEW k \in RowId, j # k
        PROVE  row'[j].fills \cap row'[k].fills = {}
    BY <2>3, <2>4, <1>2, <1>5, <1>6 DEF Placed
  <2> QED
    BY <2>1, <2>2, <2>4 DEF Placed
<1> QED
  BY <1>2, <1>5, <1>6, <1>7, <1>8, <1>9, <1>10, <1>11

LEMMA InsertRowKeeps ==
    ASSUME TypeOK, Placed, NEW f \in Fill, f \notin added, InsertRow(f)
    PROVE  /\ row' \in [RowId -> RowType]
           /\ \A i \in RowId : RowOK(i)'
           /\ \A i \in RowId : row'[i].settled = row[i].settled
           /\ \A i \in RowId : row'[i].fills \subseteq row[i].fills \cup {f}
           /\ \A i \in RowId : row[i].settled => row'[i] = row[i]
           /\ RowsGrow
           /\ added' = added \cup {f}
           /\ Placed'
<1>1. PICK i \in RowId : ~Row(i) /\ row' = [row EXCEPT ![i] = NewRow(f)]
  BY DEF InsertRow
<1>2. row \in [RowId -> RowType] /\ row[i] = NoRow
  BY <1>1 DEF TypeOK
<1>3. row'[i] = NewRow(f) /\ \A j \in RowId : j # i => row'[j] = row[j]
  BY <1>1, <1>2
<1>4. /\ row'[i].fills = {f} /\ row'[i].due = f /\ row'[i].fiat = FiatOf[f]
      /\ row'[i].settled = FALSE /\ row'[i] \in RowType
  BY <1>3, FiatAssumption DEF NewRow, RowType
<1>5. row[i].fills = {} /\ row[i].settled = FALSE
  BY <1>2 DEF NoRow
<1>6. row' \in [RowId -> RowType]
  BY <1>1, <1>2, <1>3, <1>4
<1>7. added' = added \cup {f}
  BY DEF InsertRow
<1>8. \A j \in RowId : RowOK(j)'
  <2>1. FiatOf[f] # None
    BY FiatAssumption, NoneAssumption
  <2> QED
    BY <2>1, <1>3, <1>4 DEF TypeOK, RowOK, Row
<1>9. RowsGrow
  BY <1>1, <1>3, <1>5 DEF RowsGrow, Row
<1>10. Placed'
  <2>1. ASSUME NEW j \in RowId, NEW g \in row'[j].fills
        PROVE  g \in added' /\ FiatOf[g] = row'[j].fiat
    BY <2>1, <1>3, <1>4, <1>7 DEF Placed
  <2>2. ASSUME NEW g \in added'
        PROVE  \E j \in RowId : g \in row'[j].fills
    BY <2>2, <1>3, <1>4, <1>5, <1>7 DEF Placed
  <2>3. \A j \in RowId : f \notin row[j].fills
    BY DEF Placed
  <2>4. ASSUME NEW j \in RowId, NEW k \in RowId, j # k
        PROVE  row'[j].fills \cap row'[k].fills = {}
    BY <2>3, <2>4, <1>3, <1>4 DEF Placed
  <2> QED
    BY <2>1, <2>2, <2>4 DEF Placed
<1> QED
  BY <1>3, <1>4, <1>5, <1>6, <1>7, <1>8, <1>9, <1>10

\* What SettleFloat does to them, whatever became of the row since it was listed.
LEMMA SettleFloatKeeps ==
    ASSUME TypeOK, Placed, NEW i \in RowId, Row(i), SettleFloat(i), added' = added
    PROVE  /\ row' \in [RowId -> RowType]
           /\ \A j \in RowId : RowOK(j)'
           /\ row'[i].settled /\ \A j \in RowId : j # i => row'[j] = row[j]
           /\ \A j \in RowId : row'[j].fills = row[j].fills
           /\ RowsGrow
           /\ swept' = swept \cup row[i].fills
           /\ swept' \subseteq added
           /\ Placed'
<1>1. row[i] \in RowType /\ row \in [RowId -> RowType]
  BY DEF TypeOK
<1>2. /\ row'[i] = [row[i] EXCEPT !.settled = TRUE]
      /\ \A j \in RowId : j # i => row'[j] = row[j]
  BY <1>1 DEF SettleFloat, Settled
<1>3. /\ row'[i] \in RowType /\ row'[i].fills = row[i].fills /\ row'[i].settled
      /\ row'[i].due = row[i].due /\ row'[i].fiat = row[i].fiat
  BY <1>1, <1>2 DEF RowType
<1>4. row' \in [RowId -> RowType]
  <2>1. row' = [row EXCEPT ![i] = Settled(row[i])]
    BY DEF SettleFloat
  <2>2. Settled(row[i]) \in RowType
    BY <1>1 DEF Settled, RowType
  <2> QED
    BY <2>1, <2>2, <1>1
<1>5. swept' = swept \cup row[i].fills
  BY DEF SettleFloat
<1>6. \A j \in RowId : RowOK(j)'
  BY <1>2, <1>3 DEF TypeOK, RowOK, Row
<1>7. \A j \in RowId : row'[j].fills = row[j].fills /\ row'[j].fiat = row[j].fiat
  BY <1>2, <1>3
<1>8. RowsGrow
  BY <1>7 DEF RowsGrow, Row
<1>9. swept' \subseteq added
  BY <1>5 DEF TypeOK, Placed
<1>10. Placed'
  BY <1>7 DEF Placed
<1> QED
  BY <1>2, <1>3, <1>4, <1>5, <1>6, <1>7, <1>8, <1>9, <1>10

-------------------------------------------------------------------------------
(* Every step keeps the invariant.                                         *)

\* The part of TypeOK about the sweeper.
SweepOK ==
    /\ sweep \in SweepType
    /\ sweep.pc # "idle" => ~postgres /\ sweep.fiat \in Currency
    /\ sweep.pc = "settle" <=> sweep.todo # {}
    /\ \A i \in sweep.todo : Row(i)

LEMMA NoSweepTyped ==
    NoSweep \in SweepType /\ NoSweep.pc = "idle" /\ NoSweep.todo = {}
BY DEF NoSweep, SweepType

\* The row the sweeper is about to settle is a position.
LEMMA FirstIsRow ==
    ASSUME TypeOK, sweep.pc = "settle"
    PROVE  First(sweep.todo) \in sweep.todo /\ First(sweep.todo) \in RowId /\ Row(First(sweep.todo))
<1>1. sweep.todo \in SUBSET RowId /\ sweep.todo # {}
  BY DEF TypeOK, SweepType
<1> QED
  BY <1>1, FirstIsListed DEF TypeOK

\* AddFloat's writes, whatever the next stage of the fill.
LEMMA AddKeeps ==
    ASSUME FloatInv, NEW f \in Fill, NEW there \in {"bounds", "done"},
           pc[f] \in {"add", "insert"}, AddToRow(f) \/ InsertRow(f),
           Goto(f, there), faults' \in Nat,
           UNCHANGED <<postgres, sweep, due, swept, alarmed>>
    PROVE  FloatInv'
<1>1. f \notin added
  BY DEF FloatInv, AddedOnce
<1>2. /\ row' \in [RowId -> RowType]
      /\ \A i \in RowId : RowOK(i)'
      /\ RowsGrow
      /\ added' = added \cup {f}
      /\ Placed'
  BY <1>1, AddToRowKeeps, InsertRowKeeps DEF FloatInv
<1>3. /\ pc' \in [Fill -> Stages] /\ pc'[f] = there
      /\ \A g \in Fill : g # f => pc'[g] = pc[g]
  BY GotoTyped DEF FloatInv, Stages
<1>4. TypeOK'
  <2>1. \A i \in sweep.todo : i \in RowId
    BY DEF FloatInv, TypeOK, SweepType
  <2>2. \A i \in sweep'.todo : Row(i)'
    BY <1>2, <2>1 DEF FloatInv, TypeOK, RowsGrow
  <2> QED
    BY <1>2, <1>3, <2>2 DEF FloatInv, TypeOK, RowOK, Stages
<1>5. AddedOnce'
  BY <1>2, <1>3 DEF FloatInv, AddedOnce, TypeOK
<1> QED
  BY <1>2, <1>4, <1>5 DEF FloatInv

\* A fill that moves without touching the positions.
LEMMA OnlyMoves ==
    ASSUME FloatInv, NEW f \in Fill, NEW there \in Stages, Goto(f, there),
           pc[f] \in {"none", "add", "insert"} \/ there = "done",
           faults' \in Nat, alarmed' \subseteq Currency,
           UNCHANGED <<postgres, row, sweep, due, added, swept>>
    PROVE  FloatInv'
<1>1. /\ pc' \in [Fill -> Stages] /\ pc'[f] = there
      /\ \A g \in Fill : g # f => pc'[g] = pc[g]
  BY GotoTyped DEF FloatInv
<1>2. TypeOK'
  BY <1>1 DEF FloatInv, TypeOK, Row, Stages
<1>3. Placed'
  BY DEF FloatInv, Placed
<1>4. AddedOnce'
  BY <1>1 DEF FloatInv, AddedOnce, TypeOK
<1> QED
  BY <1>2, <1>3, <1>4 DEF FloatInv

\* The sweeper moves without touching the positions.
LEMMA OnlySweeps ==
    ASSUME FloatInv, SweepOK', alarmed' \subseteq Currency,
           UNCHANGED <<postgres, row, pc, due, added, swept, faults>>
    PROVE  FloatInv'
<1>1. TypeOK'
  BY DEF FloatInv, TypeOK, SweepOK, Row
<1>2. Placed' /\ AddedOnce'
  BY DEF FloatInv, Placed, AddedOnce
<1> QED
  BY <1>1, <1>2 DEF FloatInv

LEMMA SettleKeeps ==
    ASSUME FloatInv, SettleNext
    PROVE  FloatInv'
<1> DEFINE i == First(sweep.todo)
           rest == sweep.todo \ {i}
<1>1. i \in RowId /\ Row(i)
  BY FirstIsRow DEF FloatInv, SettleNext
<1>2. SettleFloat(i) /\ UNCHANGED <<postgres, pc, due, added, alarmed, faults>>
  BY DEF SettleNext
<1>3. sweep' = [sweep EXCEPT !.pc = IF rest = {} THEN "bounds" ELSE "settle", !.todo = rest]
  BY DEF SettleNext
<1> HIDE DEF i
<1>4. /\ row' \in [RowId -> RowType]
      /\ \A j \in RowId : RowOK(j)'
      /\ RowsGrow
      /\ swept' \subseteq added
      /\ Placed'
  BY <1>1, <1>2, SettleFloatKeeps DEF FloatInv
<1>5. SweepOK'
  <2>1. sweep \in SweepType /\ sweep.pc = "settle" /\ \A j \in sweep.todo : Row(j)
    BY DEF FloatInv, TypeOK, SettleNext
  <2>2. /\ sweep' \in SweepType /\ sweep'.fiat = sweep.fiat /\ sweep'.todo = rest
        /\ sweep'.pc = IF rest = {} THEN "bounds" ELSE "settle"
    BY <1>3, <2>1 DEF SweepType
  <2>3. \A j \in rest : j \in RowId /\ Row(j)
    BY <2>1 DEF SweepType
  <2>4. sweep.fiat \in Currency /\ ~postgres
    BY <2>1 DEF FloatInv, TypeOK
  <2> QED
    BY <1>2, <1>4, <2>2, <2>3, <2>4 DEF SweepOK, RowsGrow
<1>6. TypeOK'
  BY <1>2, <1>4, <1>5 DEF FloatInv, TypeOK, RowOK, SweepOK
<1>7. AddedOnce'
  BY <1>2 DEF FloatInv, AddedOnce
<1> QED
  BY <1>4, <1>6, <1>7 DEF FloatInv

LEMMA NoRowTyped ==
    NoRow \in RowType /\ NoRow.fiat = None /\ NoRow.fills = {} /\ NoRow.settled = FALSE
BY DEF NoRow, RowType

\* A store in memory is empty after a crash, as at the start.
LEMMA CrashKeeps == FloatInv /\ Crash => FloatInv'
<1> SUFFICES ASSUME FloatInv, Crash PROVE FloatInv'
  OBVIOUS
<1>1. \A i \in RowId : row'[i] = NoRow
  BY DEF Crash
<1>2. row' \in [RowId -> RowType] /\ \A i \in RowId : RowOK(i)'
  BY <1>1, NoRowTyped DEF Crash, RowOK, Row
<1>3. pc' \in [Fill -> Stages] /\ faults' \in Nat
  BY DEF Crash, FloatInv, TypeOK, Stages
<1>4. TypeOK'
  BY <1>2, <1>3, NoSweepTyped DEF Crash, FloatInv, TypeOK, RowOK, Stages
<1>5. Placed' /\ AddedOnce'
  BY <1>1, NoRowTyped DEF Crash, Placed, AddedOnce
<1> QED
  BY <1>4, <1>5 DEF FloatInv

LEMMA InitHolds == Init => FloatInv
<1> SUFFICES ASSUME Init PROVE FloatInv
  OBVIOUS
<1>1. TypeOK
  BY NoRowTyped, NoSweepTyped, FaultsAssumption DEF Init, TypeOK, Row
<1>2. Placed
  BY NoRowTyped DEF Init, Placed
<1>3. AddedOnce
  BY DEF Init, AddedOnce
<1> QED
  BY <1>1, <1>2, <1>3 DEF FloatInv

LEMMA StepHolds == FloatInv /\ [Next]_vars => FloatInv'
<1> SUFFICES ASSUME FloatInv, [Next]_vars PROVE FloatInv'
  OBVIOUS
<1> faults \in Nat /\ alarmed \subseteq Currency
  BY DEF FloatInv, TypeOK
<1>1. ASSUME NEW c \in Currency, Report(c) PROVE alarmed' \subseteq Currency
  BY <1>1 DEF Report
<1>2. ASSUME NEW f \in Fill, Begin(f) PROVE FloatInv'
  BY <1>2, OnlyMoves DEF Begin, At, Stages
<1>3. ASSUME NEW f \in Fill, FindNone(f) PROVE FloatInv'
  BY <1>3, OnlyMoves DEF FindNone, At, Stages
<1>4. ASSUME NEW f \in Fill, AddFloat(f) PROVE FloatInv'
  BY <1>4, AddKeeps DEF AddFloat, AfterAdd, At
<1>5. ASSUME NEW f \in Fill, CheckBounds(f) PROVE FloatInv'
  BY <1>1, <1>5, OnlyMoves, FiatAssumption DEF CheckBounds, Stages
<1>6. ASSUME NEW f \in Fill, FillFails(f) PROVE FloatInv'
  <2>1. CASE UNCHANGED <<row, added>>
    BY <1>6, <2>1, OnlyMoves DEF FillFails, Stages
  <2>2. CASE \/ At(f, "add") /\ AddToRow(f)
             \/ At(f, "insert") /\ InsertRow(f)
    BY <1>6, <2>2, AddKeeps DEF FillFails, At
  <2> QED
    BY <1>6, <2>1, <2>2 DEF FillFails
<1>7. CASE ListMatured
  <2>1. Matured \subseteq RowId /\ Matured # {} /\ \A i \in Matured : Row(i)
    BY <1>7 DEF ListMatured, Matured
  <2>2. row[First(Matured)].fiat \in Currency
    BY <2>1, FirstIsListed DEF FloatInv, TypeOK, RowType, Row
  <2>3. /\ sweep' \in SweepType /\ sweep'.pc = "settle" /\ sweep'.fiat \in Currency
        /\ sweep'.todo = Matured
    BY <1>7, <2>1, <2>2 DEF ListMatured, SweepType
  <2>4. SweepOK'
    BY <1>7, <2>1, <2>3 DEF ListMatured, ListAnswers, SweepOK, Row
  <2> QED
    BY <1>7, <2>4, OnlySweeps DEF ListMatured
<1>8. CASE SettleNext
  BY <1>8, SettleKeeps
<1>9. CASE CheckAfterSweep
  <2>1. sweep.fiat \in Currency
    BY <1>9 DEF CheckAfterSweep, FloatInv, TypeOK
  <2>2. SweepOK'
    BY <1>9, NoSweepTyped DEF CheckAfterSweep, SweepOK
  <2> QED
    BY <1>1, <1>9, <2>1, <2>2, OnlySweeps DEF CheckAfterSweep
<1>10. CASE Crash
  BY <1>10, CrashKeeps
<1>11. ASSUME NEW f \in Fill, FallsDue(f) PROVE FloatInv'
  <2>1. TypeOK'
    BY <1>11 DEF FallsDue, FloatInv, TypeOK, Row
  <2> QED
    BY <1>11, <2>1 DEF FallsDue, FloatInv, Placed, AddedOnce
<1>12. CASE UNCHANGED vars
  <2>1. TypeOK'
    BY <1>12 DEF vars, FloatInv, TypeOK, Row
  <2> QED
    BY <1>12, <2>1 DEF vars, FloatInv, Placed, AddedOnce
<1> QED
  BY <1>2, <1>3, <1>4, <1>5, <1>6, <1>7, <1>8, <1>9, <1>10, <1>11, <1>12
  DEF Next, Handle, Sweep

LEMMA FloatInvHolds == Spec => []FloatInv
BY InitHolds, StepHolds, PTL DEF Spec

\* Type correctness: a position contains the fill whose due date it has, and the sweeper
\* works on positions in memory only.
THEOREM TypeCorrect == Spec => []TypeOK
<1>1. FloatInv => TypeOK
  BY DEF FloatInv
<1> QED
  BY <1>1, FloatInvHolds, PTL

LEMMA AddsUp == FloatInv => FloatAddsUp
<1> SUFFICES ASSUME FloatInv PROVE FloatAddsUp
  OBVIOUS
<1>1. ASSUME NEW c \in Currency
      PROVE  Total(c) = {f \in added : FiatOf[f] = c}
  <2>1. ASSUME NEW f \in Total(c) PROVE f \in added /\ FiatOf[f] = c
    BY <2>1 DEF Total, FloatInv, Placed
  <2>2. ASSUME NEW f \in added, FiatOf[f] = c PROVE f \in Total(c)
    <3>1. PICK i \in RowId : f \in row[i].fills
      BY <2>2 DEF FloatInv, TypeOK, Placed
    <3> QED
      BY <2>2, <3>1 DEF Total, FloatInv, Placed
  <2> QED
    BY <2>1, <2>2
<1> QED
  BY <1>1 DEF FloatInv, Placed, FloatAddsUp

\* What GetFloat reports for a currency is all that AddFloat added to the store, and no
\* fill counts twice, however fills, the sweeper and faults interleave.
THEOREM FloatIsAddedUp == Spec => []FloatAddsUp
BY AddsUp, FloatInvHolds, PTL

-------------------------------------------------------------------------------
(* A breach is reported: only AddFloat raises a total, and who adds looks, *)
(* unless that fails, which concerns the one currency of the fill.         *)

Looking(c) == \E f \in Fill : FiatOf[f] = c /\ pc[f] = "bounds"

LEMMA BreachStep ==
    ASSUME FloatInv, FloatAddsUp, FloatAddsUp', [Next]_vars,
           NEW c \in Currency, Total(c)' \in OverMax, c \notin Unreported,
           \A f \in Fill : FillFails(f) => FiatOf[f] # c
    PROVE  c \in alarmed' \/ Looking(c)'
<1>0. TypeOK
  BY DEF FloatInv
<1>2. /\ Total(c) = {f \in added : FiatOf[f] = c}
      /\ Total(c)' = {f \in added' : FiatOf[f] = c}
  BY DEF FloatAddsUp
<1>3. Total(c) \in OverMax => c \in alarmed \/ Looking(c)
  BY DEF Unreported, Looking, At
\* A step that raises no total, forgets no report and ends nobody's look.
<1>4. ASSUME Total(c)' \subseteq Total(c),
             c \in alarmed => c \in alarmed',
             \A f \in Fill : FiatOf[f] = c /\ pc[f] = "bounds" => c \in alarmed' \/ pc'[f] = "bounds"
      PROVE  c \in alarmed' \/ Looking(c)'
  <2>1. Total(c) \in SUBSET Fill
    BY <1>0, <1>2 DEF TypeOK
  <2>2. Total(c) \in OverMax
    BY <1>4, <2>1, OverMaxAssumption
  <2> QED
    BY <1>3, <1>4, <2>2 DEF Looking
<1>5. ASSUME NEW f \in Fill, Begin(f) \/ FindNone(f) \/ FallsDue(f)
      PROVE  c \in alarmed' \/ Looking(c)'
  <2>1. UNCHANGED <<added, alarmed>>
    BY <1>5 DEF Begin, FindNone, FallsDue
  <2>2. \A g \in Fill : pc[g] = "bounds" => pc'[g] = "bounds"
    BY <1>0, <1>5 DEF Begin, FindNone, FallsDue, At, Goto, TypeOK
  <2> QED
    BY <1>2, <1>4, <2>1, <2>2
<1>6. ASSUME NEW f \in Fill, AddFloat(f)
      PROVE  c \in alarmed' \/ Looking(c)'
  <2>1. /\ added' = added \cup {f} /\ UNCHANGED alarmed
        /\ pc' = [pc EXCEPT ![f] = "bounds"]
    BY <1>6 DEF AddFloat, AddToRow, InsertRow, AfterAdd, Goto
  <2>2. pc'[f] = "bounds" /\ \A g \in Fill : pc[g] = "bounds" => pc'[g] = "bounds"
    BY <1>0, <2>1 DEF TypeOK
  <2>3. CASE FiatOf[f] = c
    BY <2>2, <2>3 DEF Looking
  <2>4. CASE FiatOf[f] # c
    <3>1. Total(c)' \subseteq Total(c)
      BY <1>2, <2>1, <2>4
    <3> QED
      BY <1>4, <2>1, <2>2, <3>1
  <2> QED
    BY <2>3, <2>4
<1>7. ASSUME NEW f \in Fill, CheckBounds(f)
      PROVE  c \in alarmed' \/ Looking(c)'
  <2>1. UNCHANGED <<row, added>> /\ Total(c)' = Total(c)
    BY <1>2, <1>7 DEF CheckBounds
  <2>2. alarmed \subseteq alarmed' /\ (FiatOf[f] = c => c \in alarmed')
    BY <1>7, <2>1 DEF CheckBounds, Report
  <2>3. \A g \in Fill : g # f => pc'[g] = pc[g]
    BY <1>0, <1>7 DEF CheckBounds, Goto, TypeOK
  <2> QED
    BY <1>4, <2>1, <2>2, <2>3
<1>8. CASE Sweep
  <2>1. pc' = pc /\ added' = added
    BY <1>8 DEF Sweep, ListMatured, SettleNext, CheckAfterSweep
  <2>2. c \in alarmed => c \in alarmed'
    BY <1>8 DEF Sweep, ListMatured, SettleNext, CheckAfterSweep, Report
  <2> QED
    BY <1>2, <1>4, <2>1, <2>2
<1>9. CASE Crash
  <2>1. Total(c)' = {}
    BY <1>2, <1>9 DEF Crash
  <2> QED
    BY <2>1, OverMaxAssumption
<1>10. ASSUME NEW f \in Fill, FillFails(f)
       PROVE  c \in alarmed' \/ Looking(c)'
  <2>1. /\ FiatOf[f] # c /\ UNCHANGED alarmed
        /\ \A g \in Fill : g # f => pc'[g] = pc[g]
    BY <1>0, <1>10 DEF FillFails, Goto, TypeOK
  <2>2. added' \subseteq added \cup {f}
    BY <1>10 DEF FillFails, AddToRow, InsertRow
  <2> QED
    BY <1>2, <1>4, <2>1, <2>2
<1>11. CASE UNCHANGED vars
  BY <1>2, <1>4, <1>11 DEF vars
<1> QED
  BY <1>5, <1>6, <1>7, <1>8, <1>9, <1>10, <1>11 DEF Next, Handle

LEMMA FaultsCounted ==
    ASSUME TypeOK, [Next]_vars
    PROVE  /\ faults \in Nat /\ faults' \in Nat /\ faults <= faults'
           /\ (\E f \in Fill : FillFails(f)) => faults' = faults + 1
<1>1. faults' = faults \/ faults' = faults + 1
  BY DEF Next, vars, Begin, Handle, FindNone, AddFloat, CheckBounds, FillFails, FallsDue, Sweep,
         ListMatured, SettleNext, CheckAfterSweep, Crash
<1> QED
  BY <1>1 DEF TypeOK, FillFails

\* Two fills that fail are two steps: one step adds at most one currency.
LEMMA UnreportedCases ==
    ASSUME FloatInv, FloatAddsUp, FloatAddsUp', [Next]_vars
    PROVE  \/ Unreported' \subseteq Unreported
           \/ \E f \in Fill : FillFails(f) /\ Unreported' \subseteq Unreported \cup {FiatOf[f]}
<1>1. ASSUME NEW c \in Unreported', c \notin Unreported
      PROVE  \E f \in Fill : FillFails(f) /\ FiatOf[f] = c
  BY <1>1, BreachStep DEF Unreported, Looking, At
<1>2. \A f, g \in Fill : FillFails(f) /\ FillFails(g) => f = g
  <2>1. ASSUME NEW f \in Fill, NEW g \in Fill, FillFails(f), FillFails(g), f # g
        PROVE  FALSE
    <3>1. /\ pc' = [pc EXCEPT ![f] = "done"] /\ pc' = [pc EXCEPT ![g] = "done"]
          /\ pc[f] # "done"
      BY <2>1 DEF FillFails, Goto, At
    <3> QED
      BY <2>1, <3>1 DEF FloatInv, TypeOK
  <2> QED
    BY <2>1
<1> QED
  BY <1>1, <1>2

\* BreachReported for any number of fills and faults, in either store: no float stands over its maximum
\* unless that was reported or is about to be, but for one currency per fault.
THEOREM BreachesReported == Spec => []BreachReported
<1> DEFINE BreachInv == IsFiniteSet(Unreported) /\ Cardinality(Unreported) <= faults
<1>1. Init => BreachInv
  <2>1. Init => Unreported = {} /\ faults = 0
    BY OverMaxAssumption DEF Init, Unreported, Total, NoRow
  <2> QED
    BY <2>1, FS_EmptySet
<1>2. /\ FloatInv /\ FloatAddsUp /\ FloatAddsUp' /\ BreachInv /\ [Next]_vars
      => BreachInv'
  <2> SUFFICES ASSUME FloatInv, FloatAddsUp, FloatAddsUp', BreachInv, [Next]_vars
               PROVE  BreachInv'
    OBVIOUS
  <2>1. /\ faults \in Nat /\ faults' \in Nat /\ faults <= faults'
        /\ (\E f \in Fill : FillFails(f)) => faults' = faults + 1
    BY FaultsCounted DEF FloatInv
  <2>2. CASE Unreported' \subseteq Unreported
    <3>1. IsFiniteSet(Unreported') /\ Cardinality(Unreported') <= Cardinality(Unreported)
      BY <2>2, FS_Subset
    <3> QED
      BY <2>1, <3>1, FS_CardinalityType
  <2>3. ASSUME NEW f \in Fill, FillFails(f), Unreported' \subseteq Unreported \cup {FiatOf[f]}
        PROVE  BreachInv'
    <3> DEFINE S == Unreported \cup {FiatOf[f]}
    <3>1. /\ IsFiniteSet(S) /\ Cardinality(Unreported) \in Nat
          /\ Cardinality(S) = IF FiatOf[f] \in Unreported THEN Cardinality(Unreported)
                              ELSE Cardinality(Unreported) + 1
      BY FS_AddElement, FS_CardinalityType
    <3>2. IsFiniteSet(Unreported') /\ Cardinality(Unreported') <= Cardinality(S)
      BY <2>3, <3>1, FS_Subset
    <3>3. Cardinality(S) <= faults'
      BY <2>1, <2>3, <3>1
    <3> QED
      BY <2>1, <3>1, <3>2, <3>3, FS_CardinalityType
  <2> QED
    BY <2>2, <2>3, UnreportedCases
<1>3. BreachInv => BreachReported
  BY DEF BreachReported
<1> QED
  BY <1>1, <1>2, <1>3, FloatInvHolds, FloatIsAddedUp, PTL DEF Spec

-------------------------------------------------------------------------------
(* What the sweeper has on its list is not settled and keeps a due fill.   *)

ListInv ==
    /\ \A i \in sweep.todo : ~row[i].settled /\ row[i].fills \cap due # {}
    /\ \A i \in RowId : row[i].settled \/ row[i].fills \cap swept = {}

LEMMA ListStep ==
    ASSUME FloatInv, ListInv, [Next]_vars
    PROVE  ListInv'
<1>0. TypeOK /\ Placed /\ sweep.todo \subseteq RowId
  BY DEF FloatInv, TypeOK, SweepType
\* AddFloat takes no fill from a position, and adds one that was not swept.
<1>1. ASSUME NEW f \in Fill, pc[f] \in {"add", "insert"}, AddToRow(f) \/ InsertRow(f),
             UNCHANGED <<sweep, due, swept>>
      PROVE  ListInv'
  <2>1. f \notin added /\ f \notin swept
    BY <1>1 DEF FloatInv, AddedOnce, TypeOK
  <2>2. \A i \in RowId : /\ row'[i].settled = row[i].settled
                         /\ row[i].fills \subseteq row'[i].fills
                         /\ row'[i].fills \subseteq row[i].fills \cup {f}
    BY <1>0, <1>1, <2>1, AddToRowKeeps, InsertRowKeeps DEF RowsGrow
  <2> QED
    BY <1>0, <1>1, <2>1, <2>2 DEF ListInv
<1>2. ASSUME NEW f \in Fill, AddFloat(f) \/ FillFails(f)
      PROVE  ListInv'
  <2>1. CASE UNCHANGED <<row, sweep, due, swept>>
    BY <2>1 DEF ListInv
  <2>2. CASE \/ At(f, "add") /\ (AddToRow(f) \/ InsertRow(f))
             \/ At(f, "insert") /\ InsertRow(f)
    BY <1>1, <1>2, <2>2 DEF AddFloat, FillFails, At
  <2> QED
    BY <1>2, <2>1, <2>2 DEF AddFloat, FillFails
<1>3. ASSUME UNCHANGED <<row, swept>>, due \subseteq due', sweep'.todo \subseteq sweep.todo
      PROVE  ListInv'
  BY <1>3 DEF ListInv
<1>4. ASSUME NEW f \in Fill, Begin(f) \/ FindNone(f) \/ CheckBounds(f) \/ FallsDue(f)
      PROVE  ListInv'
  BY <1>3, <1>4 DEF Begin, FindNone, CheckBounds, FallsDue
<1>5. CASE ListMatured
  <2>1. sweep'.todo = Matured /\ UNCHANGED <<row, due, swept>>
    BY <1>5 DEF ListMatured
  <2>2. \A i \in Matured : ~row[i].settled /\ row[i].fills \cap due # {}
    BY <1>0 DEF Matured, TypeOK
  <2> QED
    BY <2>1, <2>2 DEF ListInv
<1>6. CASE SettleNext
  <2> DEFINE i == First(sweep.todo)
  <2>1. i \in RowId /\ Row(i)
    BY <1>0, <1>6, FirstIsRow DEF SettleNext
  <2>2. SettleFloat(i) /\ UNCHANGED <<due, added>> /\ sweep'.todo = sweep.todo \ {i}
    BY <1>0, <1>6 DEF SettleNext, TypeOK, SweepType
  <2> HIDE DEF i
  <2>3. /\ row'[i].settled /\ \A j \in RowId : j # i => row'[j] = row[j]
        /\ swept' = swept \cup row[i].fills
    BY <1>0, <2>1, <2>2, SettleFloatKeeps
  <2>4. \A j \in RowId : j # i => row[j].fills \cap row[i].fills = {}
    BY <1>0, <2>1 DEF Placed
  <2> QED
    BY <1>0, <2>2, <2>3, <2>4 DEF ListInv
<1>7. CASE CheckAfterSweep
  BY <1>3, <1>7, NoSweepTyped DEF CheckAfterSweep
<1>8. CASE Crash
  BY <1>8, NoRowTyped, NoSweepTyped DEF Crash, ListInv
<1>9. CASE UNCHANGED vars
  BY <1>3, <1>9 DEF vars
<1> QED
  BY <1>2, <1>4, <1>5, <1>6, <1>7, <1>8, <1>9 DEF Next, Handle, Sweep

\* SweptWithDue for any number of fills and crashes: the sweep of the store in memory
\* (that of Postgres never takes a step) settles no position by an out-of-date list in
\* which nothing is due, although SettleFloat looks at neither due date nor flag.
THEOREM EarlyOnlyWithDue == Spec => SweptWithDue
<1>1. Init => ListInv
  BY NoRowTyped, NoSweepTyped DEF Init, ListInv
<1>2. FloatInv /\ ListInv /\ [Next]_vars => ListInv'
  BY ListStep
<1>3. FloatInv /\ ListInv /\ [Next]_vars
      => [swept' \subseteq swept \/ (swept' \ swept) \cap due # {}]_vars
  <2> SUFFICES ASSUME FloatInv, ListInv, [Next]_vars
               PROVE  swept' \subseteq swept \/ (swept' \ swept) \cap due # {}
    OBVIOUS
  <2>1. CASE SettleNext
    <3> DEFINE i == First(sweep.todo)
    <3>1. i \in sweep.todo /\ i \in RowId
      BY <2>1, FirstIsRow DEF FloatInv, SettleNext
    <3>2. swept' = swept \cup row[i].fills
      BY <2>1 DEF SettleNext, SettleFloat
    <3> HIDE DEF i
    <3>3. row[i].fills \cap due # {} /\ row[i].fills \cap swept = {}
      BY <3>1 DEF ListInv
    <3> QED
      BY <3>2, <3>3
  <2>2. CASE ~SettleNext
    BY <2>2 DEF Next, vars, Begin, Handle, FindNone, AddFloat, CheckBounds, FillFails, FallsDue,
       Sweep, ListMatured, CheckAfterSweep, Crash
  <2> QED
    BY <2>1, <2>2
<1> QED
  BY <1>1, <1>2, <1>3, FloatInvHolds, PTL DEF Spec, SweptWithDue
===============================================================================
