------------------------ MODULE BatchFormation_proofs -------------------------
(* What holds of batch formation for any number of replicas, transactions,   *)
(* pairs and batches, and any number of faults, replays and expiries.        *)
EXTENDS BatchFormation, FiniteSetTheorems, TLAPS

(* How many elements a set has that lost some of its elements, or gained one. *)
LEMMA SubsetCounts ==
  ASSUME NEW S, IsFiniteSet(S), NEW T, T \subseteq S
  PROVE  IsFiniteSet(T) /\ Cardinality(T) <= Cardinality(S)
BY FS_Subset

LEMMA OneMoreCounts ==
  ASSUME NEW S, IsFiniteSet(S), NEW x, NEW T, T \subseteq S \cup {x}
  PROVE  IsFiniteSet(T) /\ Cardinality(T) <= Cardinality(S) + 1
<1>1. /\ IsFiniteSet(S \cup {x}) /\ Cardinality(S) \in Nat
      /\ Cardinality(S \cup {x}) = IF x \in S THEN Cardinality(S) ELSE Cardinality(S) + 1
  BY FS_AddElement, FS_CardinalityType
<1>2. IsFiniteSet(T) /\ Cardinality(T) <= Cardinality(S \cup {x})
  BY <1>1, SubsetCounts
<1> QED
  BY <1>1, <1>2, FS_CardinalityType

(* Where the two kinds of threads return to is well typed.                   *)
LEMMA IdleTyped == NoFrame \in FrameType /\ NoClose \in ClosingType
  BY DEF NoFrame, FrameType, NoClose, ClosingType

LEMMA Closers ==
  /\ \A r \in Replica : <<"tick", r>> \in Closer
  /\ \A r \in Served : <<"api", r>> \in Closer /\ <<"api", r>>[1] # "tick"
  BY DEF Closer

LEMMA AfterCloseTyped ==
  ASSUME NEW c \in Closer, ClosingTypeOK
  PROVE  /\ AfterClose(c) \in ClosingType
         /\ AfterClose(c).pc \in {"idle", "scan"} /\ AfterClose(c).sum = {}
         /\ AfterClose(c).todo \subseteq closing[c].todo
         /\ c[1] # "tick" => AfterClose(c).pc = "idle"
  BY IdleTyped DEF AfterClose, ClosingTypeOK, ClosingType, NoClose

\* Type correctness of the specification, TypeOK: handlers and closes only ever
\* work on rows that exist.
THEOREM TypeCorrect == Spec => []TypeOK
<1>1. Init => TypeOK
  BY IdleTyped, Closers DEF Init, TypeOK, StoreTypeOK, FrameTypeOK, ClosingTypeOK, At, NoFrame, NoClose
<1>2. TypeOK /\ [Next]_vars => TypeOK'
  <2> SUFFICES ASSUME TypeOK, [Next]_vars PROVE TypeOK'
    OBVIOUS
  <2> USE DEF TypeOK
  <2>1. ASSUME NEW r \in Replica, NEW t \in Tx, Receive(r, t) PROVE TypeOK'
    <3>1. StoreTypeOK'
      BY <2>1 DEF Receive, StoreTypeOK, batchVars, orderVars
    <3>2. FrameTypeOK'
      BY <2>1, IdleTyped DEF Receive, FrameTypeOK, FrameType, At, NoFrame
    <3>3. ClosingTypeOK'
      BY <2>1 DEF Receive, ClosingTypeOK, batchVars
    <3> QED BY <3>1, <3>2, <3>3
  <2>13. ASSUME NEW r \in Replica, NEW t \in Tx, ReceiveFails(r, t) PROVE TypeOK'
    BY <2>13 DEF ReceiveFails, StoreTypeOK, FrameTypeOK, ClosingTypeOK, At, batchVars, orderVars
  <2>2. ASSUME NEW r \in Replica, Handle(r) PROVE TypeOK'
    <3>1. CASE CheckExists(r)
      <4>1. StoreTypeOK'
        BY <3>1 DEF CheckExists, StoreTypeOK, batchVars, orderVars, keyVars
      <4>2. FrameTypeOK'
        BY <3>1, IdleTyped DEF CheckExists, Goto, Finish, FrameTypeOK, FrameType, At, NoFrame
      <4>3. ClosingTypeOK'
        BY <3>1 DEF CheckExists, ClosingTypeOK, batchVars
      <4> QED BY <4>1, <4>2, <4>3
    <3>2. CASE FindOpen(r)
      <4>1. StoreTypeOK'
        BY <3>2 DEF FindOpen, StoreTypeOK, batchVars, orderVars, keyVars
      <4>2. FrameTypeOK'
        BY <3>2 DEF FindOpen, OpenFor, Open, Goto, FrameTypeOK, FrameType, At
      <4>3. ClosingTypeOK'
        BY <3>2 DEF FindOpen, ClosingTypeOK, batchVars
      <4> QED BY <4>1, <4>2, <4>3
    <3>3. CASE InsertBatch(r)
      <4> PICK b \in BatchId :
            /\ status[b] = "NONE"
            /\ status' = [status EXCEPT ![b] = "OPEN"]
            /\ pair' = [pair EXCEPT ![b] = PairOf[frame[r].tx]]
            /\ frame' = [frame EXCEPT ![r].pc = "list", ![r].batch = b]
        BY <3>3 DEF InsertBatch, InsertRow
      <4>0. PairOf[frame[r].tx] \in Pair
        BY <3>3, PairOfAssumption DEF InsertBatch, InsertRow, FrameTypeOK, At
      <4>1. StoreTypeOK'
        BY <3>3, <4>0 DEF InsertBatch, StoreTypeOK, orderVars, keyVars
      <4> DEFINE next == [frame[r] EXCEPT !.pc = "list", !.batch = b]
      <4>2. FrameTypeOK'
        <5>1. next \in FrameType /\ next.tx \in Tx /\ next.batch \in BatchId
          <6>1. frame[r] \in FrameType /\ frame[r].tx \in Tx
            BY <3>3 DEF InsertBatch, InsertRow, FrameTypeOK, At
          <6> QED
            BY <6>1 DEF FrameType
        <5>2. frame' = [frame EXCEPT ![r] = next]
          BY DEF FrameTypeOK
        <5> HIDE DEF next
        <5> QED
          BY <5>1, <5>2 DEF FrameTypeOK, At
      <4>3. ClosingTypeOK'
        BY <3>3 DEF InsertBatch, ClosingTypeOK, ClosingType, StoreTypeOK
      <4> QED BY <4>1, <4>2, <4>3
    <3>4. CASE ListMembers(r)
      <4>1. StoreTypeOK'
        BY <3>4 DEF ListMembers, StoreTypeOK, batchVars, orderVars, keyVars
      <4>2. FrameTypeOK'
        BY <3>4 DEF ListMembers, Goto, FrameTypeOK, FrameType, At
      <4>3. ClosingTypeOK'
        BY <3>4 DEF ListMembers, ClosingTypeOK, batchVars
      <4> QED BY <4>1, <4>2, <4>3
    <3>5. CASE AddMember(r)
      <4>0. frame[r].tx \in Tx /\ frame[r].batch \in BatchId
        BY <3>5 DEF AddMember, FrameTypeOK, At
      <4>1. StoreTypeOK'
        BY <3>5, <4>0 DEF AddMember, Join, StoreTypeOK, batchVars, orderVars, keyVars
      <4>2. FrameTypeOK'
        BY <3>5 DEF AddMember, Goto, FrameTypeOK, FrameType, At
      <4>3. ClosingTypeOK'
        BY <3>5 DEF AddMember, ClosingTypeOK, batchVars
      <4> QED BY <4>1, <4>2, <4>3
    <3>6. CASE EmitOpen(r)
      <4>1. StoreTypeOK'
        BY <3>6 DEF EmitOpen, StoreTypeOK, batchVars, orderVars, keyVars, FrameTypeOK, At
      <4>2. FrameTypeOK'
        BY <3>6 DEF EmitOpen, Goto, FrameTypeOK, FrameType, At
      <4>3. ClosingTypeOK'
        BY <3>6 DEF EmitOpen, ClosingTypeOK, batchVars
      <4> QED BY <4>1, <4>2, <4>3
    <3>7. CASE ReadTotal(r)
      <4>1. StoreTypeOK'
        BY <3>7 DEF ReadTotal, StoreTypeOK, batchVars, orderVars, keyVars
      <4>2. FrameTypeOK'
        BY <3>7 DEF ReadTotal, RunningTotal, Members, FrameTypeOK, FrameType, At
      <4>3. ClosingTypeOK'
        BY <3>7 DEF ReadTotal, ClosingTypeOK, batchVars
      <4> QED BY <4>1, <4>2, <4>3
    <3>8. CASE WriteTotal(r)
      <4>0. frame[r].batch \in BatchId /\ frame[r].sum \in SUBSET Tx
        BY <3>8 DEF WriteTotal, FrameTypeOK, FrameType, At
      <4>1. StoreTypeOK'
        BY <3>8, <4>0 DEF WriteTotal, StoreTypeOK, orderVars, keyVars
      <4>2. FrameTypeOK'
        BY <3>8, IdleTyped DEF WriteTotal, Finish, FrameTypeOK, FrameType, At, NoFrame
      <4>3. ClosingTypeOK'
        BY <3>8 DEF WriteTotal, ClosingTypeOK
      <4> QED BY <4>1, <4>2, <4>3
    <3> QED BY <2>2, <3>1, <3>2, <3>3, <3>4, <3>5, <3>6, <3>7, <3>8 DEF Handle
  <2>3. ASSUME NEW r \in Replica, ConsumerFails(r) PROVE TypeOK'
    <3>1. StoreTypeOK'
      BY <2>3 DEF ConsumerFails, StoreTypeOK, batchVars, orderVars, keyVars
    <3>2. FrameTypeOK'
      BY <2>3, IdleTyped DEF ConsumerFails, Goto, Finish, FrameTypeOK, FrameType, At, NoFrame
    <3>3. ClosingTypeOK'
      BY <2>3 DEF ConsumerFails, ClosingTypeOK, batchVars
    <3> QED BY <3>1, <3>2, <3>3
  <2>14. ASSUME NEW r \in Replica, ConsumerUnanswered(r) PROVE TypeOK'
    <3>0. frame[r].tx \in Tx /\ (frame[r].pc \in {"addFirst", "add"} => frame[r].batch \in BatchId)
      BY <2>14 DEF ConsumerUnanswered, InsertRow, FrameTypeOK, At
    <3>1. StoreTypeOK'
      <4>1. CASE \E b \in BatchId : InsertRow(r, b) /\ UNCHANGED member
        BY <2>14, <3>0, <4>1, PairOfAssumption
          DEF ConsumerUnanswered, InsertRow, StoreTypeOK, orderVars, keyVars
      <4>2. CASE /\ frame[r].pc \in {"addFirst", "add"}
                 /\ Join(frame[r].tx, frame[r].batch) /\ UNCHANGED <<status, pair>>
        BY <2>14, <3>0, <4>2 DEF ConsumerUnanswered, Join, StoreTypeOK, orderVars, keyVars
      <4> QED BY <2>14, <4>1, <4>2 DEF ConsumerUnanswered
    <3>2. FrameTypeOK'
      BY <2>14, IdleTyped DEF ConsumerUnanswered, Finish, FrameTypeOK, FrameType, At, NoFrame
    <3>3. \A b \in BatchId : status[b] # "NONE" => status'[b] # "NONE"
      BY <2>14 DEF ConsumerUnanswered, InsertRow, StoreTypeOK
    <3>4. ClosingTypeOK'
      BY <2>14, <3>3 DEF ConsumerUnanswered, ClosingTypeOK, ClosingType
    <3> QED BY <3>1, <3>2, <3>4
  <2>4. ASSUME NEW r \in Replica, StartTick(r) PROVE TypeOK'
    <3>1. StoreTypeOK' /\ FrameTypeOK'
      BY <2>4 DEF StartTick, StoreTypeOK, FrameTypeOK, At, batchVars, orderVars, keyVars
    <3>2. ClosingTypeOK'
      <4>1. PICK c \in Closer : c = <<"tick", r>> /\ \A d \in Served : c # <<"api", d>>
        BY Closers
      <4>2. /\ closing' = [closing EXCEPT ![c].pc = "scan", ![c].todo = Open]
            /\ closing \in [Closer -> ClosingType] /\ UNCHANGED status
        BY <2>4, <4>1 DEF StartTick, ClosingTypeOK, batchVars
      <4>3. Open \in SUBSET BatchId /\ \A b \in Open : status[b] # "NONE"
        BY DEF Open
      <4>4. /\ closing' \in [Closer -> ClosingType]
            /\ closing'[c].pc = "scan" /\ closing'[c].todo = Open
            /\ \A d \in Closer \ {c} : closing'[d] = closing[d]
        BY <4>2, <4>3 DEF ClosingType
      <4> QED
        BY <4>1, <4>2, <4>3, <4>4, Closers DEF ClosingTypeOK
    <3> QED BY <3>1, <3>2
  <2>5. ASSUME NEW r \in Replica, Crash(r) PROVE TypeOK'
    <3>1. StoreTypeOK'
      BY <2>5 DEF Crash, StoreTypeOK, batchVars, orderVars, keyVars
    <3>2. FrameTypeOK'
      BY <2>5, IdleTyped DEF Crash, Finish, FrameTypeOK, FrameType, At, NoFrame
    <3>3. ClosingTypeOK'
      BY <2>5, IdleTyped, Closers DEF Crash, ClosingTypeOK, NoClose, batchVars
    <3> QED BY <3>1, <3>2, <3>3
  <2>6. ASSUME NEW r \in Served, NEW b \in BatchId, RequestClose(r, b) PROVE TypeOK'
    <3>1. StoreTypeOK' /\ FrameTypeOK'
      BY <2>6 DEF RequestClose, StoreTypeOK, FrameTypeOK, At, batchVars, orderVars, keyVars
    <3>2. ClosingTypeOK'
      BY <2>6, Closers DEF RequestClose, ClosingAt, ClosingTypeOK, ClosingType, batchVars
    <3> QED BY <3>1, <3>2
  <2>7. ASSUME NEW c \in Closer, CloseStep(c) PROVE TypeOK'
    <3>1. CASE Scan(c)
      <4> DEFINE next(b) ==
            IF Due(b) THEN [pc |-> "lock", todo |-> closing[c].todo \ {b}, batch |-> b, sum |-> {}]
            ELSE [pc |-> "scan", todo |-> closing[c].todo \ {b}, batch |-> None, sum |-> {}]
      <4> PICK b \in closing[c].todo : closing' = [closing EXCEPT ![c] = next(b)]
        BY <3>1 DEF Scan
      <4>0. b \in BatchId /\ status[b] # "NONE"
        BY DEF ClosingTypeOK, ClosingType
      <4>1. StoreTypeOK' /\ FrameTypeOK'
        BY <3>1 DEF Scan, StoreTypeOK, FrameTypeOK, At, batchVars, orderVars, keyVars
      <4>2. closing' \in [Closer -> ClosingType]
        BY <4>0 DEF ClosingTypeOK, ClosingType
      <4>3. \A d \in Closer : closing'[d].todo \subseteq closing[d].todo
        BY DEF ClosingTypeOK, ClosingType
      <4>4. \A d \in Closer : closing'[d].pc \notin {"idle", "scan"} =>
              \/ closing'[d].pc = closing[d].pc /\ closing'[d].batch = closing[d].batch
              \/ d = c /\ closing[d].pc = "scan" /\ closing'[d].batch = b
        BY <3>1 DEF Scan, ClosingAt, ClosingTypeOK, ClosingType
      <4>5. \A r \in Served : c # <<"api", r>>
        BY <3>1, Closers DEF Scan, ClosingAt, ClosingTypeOK
      <4>6. ClosingTypeOK'
        BY <3>1, <4>0, <4>2, <4>3, <4>4, <4>5, Closers DEF Scan, ClosingTypeOK, batchVars
      <4> QED BY <4>1, <4>6
    <3>2. CASE EndTick(c)
      <4>1. StoreTypeOK' /\ FrameTypeOK'
        BY <3>2 DEF EndTick, StoreTypeOK, FrameTypeOK, At, batchVars, orderVars, keyVars
      <4>2. ClosingTypeOK'
        BY <3>2, IdleTyped DEF EndTick, ClosingTypeOK, NoClose, batchVars
      <4> QED BY <4>1, <4>2
    <3>3. CASE Acquire(c)
      <4>0. pair[closing[c].batch] \in Pair
        BY <3>3 DEF Acquire, ClosingAt, ClosingTypeOK, StoreTypeOK
      <4>1. StoreTypeOK' /\ FrameTypeOK'
        BY <3>3, <4>0 DEF Acquire, StoreTypeOK, FrameTypeOK, At, batchVars, orderVars
      <4>2. ClosingTypeOK'
        <5>1. CASE pair[closing[c].batch] \in cadence
          BY <3>3, <5>1, AfterCloseTyped, Closers
            DEF Acquire, CloseReturns, ClosingTypeOK, batchVars
        <5>2. CASE pair[closing[c].batch] \notin cadence
          BY <3>3, <5>2, Closers
            DEF Acquire, ClosingAt, CloseGoto, ClosingTypeOK, ClosingType, batchVars
        <5> QED BY <5>1, <5>2
      <4> QED BY <4>1, <4>2
    <3>4. CASE CheckOpen(c)
      <4>1. StoreTypeOK' /\ FrameTypeOK'
        BY <3>4 DEF CheckOpen, StoreTypeOK, FrameTypeOK, At, batchVars, orderVars, keyVars
      <4>2. ClosingTypeOK'
        <5>1. CASE status[closing[c].batch] = "OPEN"
          BY <3>4, <5>1, Closers
            DEF CheckOpen, ClosingAt, CloseGoto, ClosingTypeOK, ClosingType, batchVars
        <5>2. CASE status[closing[c].batch] # "OPEN"
          BY <3>4, <5>2, AfterCloseTyped, Closers
            DEF CheckOpen, CloseReturns, ClosingTypeOK, batchVars
        <5> QED BY <5>1, <5>2
      <4> QED BY <4>1, <4>2
    <3>5. CASE SumForClose(c)
      <4>1. StoreTypeOK' /\ FrameTypeOK'
        BY <3>5 DEF SumForClose, StoreTypeOK, FrameTypeOK, At, batchVars, orderVars, keyVars
      <4>2. ClosingTypeOK'
        BY <3>5, Closers DEF SumForClose, AfterSum, ClosingAt, Members, ClosingTypeOK, ClosingType, batchVars
      <4> QED BY <4>1, <4>2
    <3>6. CASE CasClosed(c)
      <4>0. closing[c].batch \in BatchId /\ closing[c].sum \in SUBSET Tx
        BY <3>6 DEF CasClosed, ClosingAt, ClosingTypeOK, ClosingType
      <4>1. StoreTypeOK' /\ FrameTypeOK'
        BY <3>6, <4>0
          DEF CasClosed, CloseRow, StillOpen, StoreTypeOK, FrameTypeOK, At, orderVars, keyVars
      <4>2. \A d \in BatchId : status[d] # "NONE" => status'[d] # "NONE"
        BY <3>6 DEF CasClosed, CloseRow, StoreTypeOK
      <4>3. closing' = [closing EXCEPT ![c].pc = "handover"] \/ CloseReturns(c)
        BY <3>6 DEF CasClosed, CloseGoto
      <4>4. ClosingTypeOK'
        BY <3>6, <4>2, <4>3, AfterCloseTyped, Closers
          DEF CasClosed, ClosingAt, CloseReturns, ClosingTypeOK, ClosingType
      <4> QED BY <4>1, <4>4
    <3>7. CASE HandOver(c)
      <4>0. closing[c].batch \in BatchId
        BY <3>7 DEF HandOver, ClosingAt, ClosingTypeOK
      <4>1. StoreTypeOK' /\ FrameTypeOK'
        BY <3>7, <4>0 DEF HandOver, StoreTypeOK, FrameTypeOK, At, batchVars, keyVars
      <4>2. ClosingTypeOK'
        BY <3>7, AfterCloseTyped, Closers
          DEF HandOver, ClosingAt, CloseReturns, ClosingTypeOK, ClosingType, batchVars
      <4> QED BY <4>1, <4>2
    <3> QED BY <2>7, <3>1, <3>2, <3>3, <3>4, <3>5, <3>6, <3>7 DEF CloseStep
  <2>8. ASSUME NEW c \in Closer, CloserFails(c) PROVE TypeOK'
    <3>1. StoreTypeOK' /\ FrameTypeOK'
      BY <2>8 DEF CloserFails, StoreTypeOK, FrameTypeOK, At, batchVars, orderVars, keyVars
    <3>2. ClosingTypeOK'
      BY <2>8, AfterCloseTyped, Closers
        DEF CloserFails, AfterSum, ClosingAt, CloseReturns, CloseGoto, ClosingTypeOK, ClosingType, batchVars
    <3> QED BY <3>1, <3>2
  <2>15. ASSUME NEW c \in Closer, CloserUnanswered(c) PROVE TypeOK'
    <3>0. closing[c].batch \in BatchId /\ status[closing[c].batch] # "NONE" /\ closing[c].sum \in SUBSET Tx
      BY <2>15 DEF CloserUnanswered, ClosingAt, ClosingTypeOK, ClosingType
    <3>1. StoreTypeOK' /\ FrameTypeOK'
      BY <2>15, <3>0
        DEF CloserUnanswered, CloseRow, StillOpen, StoreTypeOK, FrameTypeOK, At, orderVars
    <3>2. \A b \in BatchId : status[b] # "NONE" => status'[b] # "NONE"
      BY <2>15 DEF CloserUnanswered, CloseRow, StoreTypeOK
    <3>3. ClosingTypeOK'
      BY <2>15, <3>2, AfterCloseTyped, Closers
        DEF CloserUnanswered, CloseReturns, ClosingTypeOK, ClosingType
    <3> QED BY <3>1, <3>3
  <2>9. ASSUME NEW b \in BatchId, Age(b) PROVE TypeOK'
    BY <2>9 DEF Age, StoreTypeOK, FrameTypeOK, ClosingTypeOK, At, orderVars, keyVars
  <2>10. ASSUME NEW p \in Pair, CadenceExpires(p) PROVE TypeOK'
    BY <2>10 DEF CadenceExpires, StoreTypeOK, FrameTypeOK, ClosingTypeOK, At, batchVars, orderVars
  <2>11. ASSUME NEW t \in Tx, KeyExpires(t) PROVE TypeOK'
    BY <2>11 DEF KeyExpires, StoreTypeOK, FrameTypeOK, ClosingTypeOK, At, batchVars, orderVars
  <2>12. CASE UNCHANGED vars
    BY <2>12 DEF vars, StoreTypeOK, FrameTypeOK, ClosingTypeOK, At, batchVars, orderVars, keyVars
  <2> QED
    BY <2>1, <2>2, <2>3, <2>4, <2>5, <2>6, <2>7, <2>8, <2>9, <2>10, <2>11, <2>12, <2>13,
       <2>14, <2>15 DEF Next
<1> QED
  BY <1>1, <1>2, PTL DEF Spec

-------------------------------------------------------------------------------
(* A batch is closed at most once.  What excludes a second OnClose is not    *)
(* the cadence lock but the CAS: whoever is about to run OnClose has taken   *)
(* the batch out of OPEN, and nobody puts it back.                           *)

CloseOnceInv ==
  /\ \A b \in BatchId : handovers[b] <= 1 /\ (handovers[b] # 0 => status[b] = "CLOSED")
  /\ \A c \in Closer : closing[c].pc = "handover" =>
        status[closing[c].batch] = "CLOSED" /\ handovers[closing[c].batch] = 0
  /\ \A c, d \in Closer :
        /\ closing[c].pc = "handover" /\ closing[d].pc = "handover"
        /\ closing[c].batch = closing[d].batch
        => c = d

LEMMA CloseOnceStep ==
  ASSUME TypeOK, CloseOnceInv, [Next]_vars
  PROVE  CloseOnceInv'
<1> USE DEF CloseOnceInv, TypeOK
<1>1. ASSUME UNCHANGED <<status, closing, handovers>> PROVE CloseOnceInv'
  BY <1>1
<1>2. ASSUME NEW r \in Replica, NEW t \in Tx, Receive(r, t) PROVE CloseOnceInv'
  BY <1>1, <1>2 DEF Receive, batchVars, orderVars
<1>3. ASSUME NEW r \in Replica, Handle(r) PROVE CloseOnceInv'
  <2>1. CASE InsertBatch(r)
    <3>1. UNCHANGED <<closing, handovers>>
      BY <2>1 DEF InsertBatch, orderVars
    <3>2. \A b \in BatchId : status[b] = "CLOSED" => status'[b] = "CLOSED"
      BY <2>1 DEF InsertBatch, InsertRow, StoreTypeOK
    <3>3. \A c \in Closer : closing[c].pc = "handover" => closing[c].batch \in BatchId
      BY DEF ClosingTypeOK
    <3> QED BY <3>1, <3>2, <3>3
  <2>2. CASE ~InsertBatch(r)
    BY <1>1, <1>3, <2>2
      DEF Handle, CheckExists, FindOpen, ListMembers, AddMember, EmitOpen, ReadTotal, WriteTotal,
          batchVars, orderVars
  <2> QED BY <2>1, <2>2
<1>4. ASSUME NEW c \in Closer, NEW x,
             closing' = [closing EXCEPT ![c] = x], x.pc # "handover",
             UNCHANGED <<status, handovers>>
      PROVE  CloseOnceInv'
  <2>1. \A d \in Closer : closing'[d].pc = "handover" => d # c /\ closing'[d] = closing[d]
    BY <1>4 DEF ClosingTypeOK
  <2> QED BY <1>4, <2>1
<1>5. ASSUME NEW c \in Closer, CloseReturns(c), UNCHANGED <<status, handovers>> PROVE CloseOnceInv'
  BY <1>4, <1>5, AfterCloseTyped DEF CloseReturns
<1>6. ASSUME NEW r \in Replica, StartTick(r) PROVE CloseOnceInv'
  BY <1>6, Closers DEF StartTick, ClosingTypeOK, ClosingType, batchVars, orderVars
<1>12. ASSUME NEW r \in Served, NEW b \in BatchId, RequestClose(r, b) PROVE CloseOnceInv'
  BY <1>12, Closers DEF RequestClose, ClosingTypeOK, ClosingType, batchVars, orderVars
<1>7. ASSUME NEW r \in Replica, Crash(r) PROVE CloseOnceInv'
  BY <1>7 DEF Crash, NoClose, batchVars, orderVars
<1>8. ASSUME NEW c \in Closer, CloseStep(c) PROVE CloseOnceInv'
  <2>1. CASE Scan(c)
    BY <2>1 DEF Scan, ClosingTypeOK, batchVars, orderVars
  <2>2. CASE EndTick(c)
    BY <1>4, <2>2 DEF EndTick, NoClose, batchVars, orderVars
  <2>3. CASE Acquire(c) \/ CheckOpen(c) \/ SumForClose(c)
    BY <1>5, <2>3
      DEF Acquire, CheckOpen, SumForClose, AfterSum, CloseGoto, ClosingTypeOK, ClosingType,
          batchVars, orderVars
  <2>4. CASE CasClosed(c)
    <3> DEFINE b == closing[c].batch
    <3>0. b \in BatchId /\ UNCHANGED handovers
      BY <2>4 DEF CasClosed, ClosingAt, ClosingTypeOK, orderVars
    <3>1. CASE StillOpen(b)
      <4>1. status' = [status EXCEPT ![b] = "CLOSED"] /\ handovers[b] = 0 /\ status[b] = "OPEN"
        BY <2>4, <3>0, <3>1 DEF CasClosed, CloseRow, StillOpen
      <4>2. \A d \in Closer : closing[d].pc = "handover" => closing[d].batch # b
        BY <4>1
      <4>3. closing' = [closing EXCEPT ![c].pc = "handover"]
        BY <2>4, <3>1 DEF CasClosed, CloseGoto
      <4>4. \A d \in Closer : closing'[d].batch = closing[d].batch
                             /\ (d # c => closing'[d].pc = closing[d].pc)
        BY <4>3 DEF ClosingTypeOK, ClosingType
      <4> QED BY <3>0, <4>1, <4>2, <4>4 DEF StoreTypeOK, ClosingTypeOK
    <3>2. CASE ~StillOpen(b)
      BY <1>5, <2>4, <3>0, <3>2 DEF CasClosed, CloseRow
    <3> QED BY <3>1, <3>2
  <2>5. CASE HandOver(c)
    <3> DEFINE b == closing[c].batch
    <3>1. b \in BatchId /\ status[b] = "CLOSED" /\ handovers[b] = 0 /\ closing[c].pc = "handover"
      BY <2>5 DEF HandOver, ClosingAt, ClosingTypeOK
    <3>2. handovers' = [handovers EXCEPT ![b] = 1] /\ UNCHANGED status
      BY <2>5, <3>1 DEF HandOver, StoreTypeOK, batchVars
    <3>3. closing' = [closing EXCEPT ![c] = AfterClose(c)] /\ AfterClose(c).pc # "handover"
      BY <2>5, AfterCloseTyped DEF HandOver, CloseReturns
    <3>4. \A d \in Closer : closing'[d].pc = "handover" =>
            d # c /\ closing'[d] = closing[d] /\ closing[d].batch # b
      BY <3>1, <3>3 DEF ClosingTypeOK
    <3> QED BY <3>1, <3>2, <3>4 DEF StoreTypeOK
  <2> QED BY <1>8, <2>1, <2>2, <2>3, <2>4, <2>5 DEF CloseStep
<1>9. ASSUME NEW c \in Closer, CloserFails(c) PROVE CloseOnceInv'
  BY <1>5, <1>9
    DEF CloserFails, AfterSum, ClosingAt, CloseGoto, ClosingTypeOK, ClosingType, batchVars, orderVars
<1>10. ASSUME NEW r \in Replica, ConsumerFails(r) PROVE CloseOnceInv'
  BY <1>1, <1>10 DEF ConsumerFails, batchVars, orderVars
<1>13. ASSUME NEW r \in Replica, ConsumerUnanswered(r) PROVE CloseOnceInv'
  <2>1. /\ UNCHANGED <<closing, handovers>>
        /\ \A b \in BatchId : status[b] = "CLOSED" => status'[b] = "CLOSED"
    BY <1>13 DEF ConsumerUnanswered, InsertRow, StoreTypeOK, orderVars
  <2> QED BY <2>1 DEF ClosingTypeOK
<1>14. ASSUME NEW c \in Closer, CloserUnanswered(c) PROVE CloseOnceInv'
  <2>1. /\ UNCHANGED handovers
        /\ \A b \in BatchId : status[b] = "CLOSED" => status'[b] = "CLOSED"
    BY <1>14 DEF CloserUnanswered, CloseRow, StoreTypeOK, orderVars
  <2>2. closing' = [closing EXCEPT ![c] = AfterClose(c)] /\ AfterClose(c).pc # "handover"
    BY <1>14, AfterCloseTyped DEF CloserUnanswered, CloseReturns
  <2>3. \A d \in Closer : closing'[d].pc = "handover" => d # c /\ closing'[d] = closing[d]
    BY <2>2 DEF ClosingTypeOK
  <2> QED BY <2>1, <2>3 DEF ClosingTypeOK
<1>11. ASSUME \/ \E b \in BatchId : Age(b)
              \/ \E p \in Pair : CadenceExpires(p)
              \/ \E t \in Tx : KeyExpires(t)
              \/ \E r \in Replica, t \in Tx : ReceiveFails(r, t)
              \/ UNCHANGED vars
       PROVE CloseOnceInv'
  BY <1>1, <1>11 DEF ReceiveFails, Age, CadenceExpires, KeyExpires, vars, batchVars, orderVars
<1> QED
  BY <1>2, <1>3, <1>6, <1>7, <1>8, <1>9, <1>10, <1>11, <1>12, <1>13, <1>14 DEF Next

\* NoDoubleClose for any number of replicas: however early cadence keys expire and
\* whoever crashes, OnClose runs at most once for a batch.
THEOREM ClosedOnce == Spec => []NoDoubleClose
<1>1. Init => CloseOnceInv
  BY DEF Init, CloseOnceInv, NoClose
<1>2. TypeOK /\ CloseOnceInv /\ [Next]_vars => CloseOnceInv'
  BY CloseOnceStep
<1>3. CloseOnceInv => NoDoubleClose
  BY DEF CloseOnceInv, NoDoubleClose
<1> QED
  BY <1>1, <1>2, <1>3, TypeCorrect, PTL DEF Spec

-------------------------------------------------------------------------------
(* No amount is ordered twice.  A membership never moves, so whatever was    *)
(* once summed for a batch stays within the batch; every notional a batch or *)
(* an order carries is such a sum, however stale.                            *)

SumInv ==
  /\ \A b \in BatchId : notional[b] \subseteq Members(b)
  /\ \A b \in BatchId : order[b] \subseteq Members(b)
  /\ \A r \in Replica :
        IF frame[r].pc = "set" THEN frame[r].sum \subseteq Members(frame[r].batch)
        ELSE frame[r].sum = {}
  /\ \A c \in Closer :
        IF closing[c].pc \in {"cas", "handover"}
        THEN closing[c].sum \subseteq Members(closing[c].batch)
        ELSE closing[c].sum = {}

\* A membership, once there, stays: only AddMembership writes the table, and it inserts.
MembersStay == \A t \in Tx : member[t] # None => member'[t] = member[t]

LEMMA OnlyJoinsAdd ==
  ASSUME [Next]_vars
  PROVE  \/ UNCHANGED member
         \/ \E r \in Replica :
              /\ frame[r].pc \in {"addFirst", "add"}
              /\ Join(frame[r].tx, frame[r].batch)
              /\ AddMember(r) \/ ConsumerUnanswered(r)
BY DEF Next, vars, Receive, ReceiveFails, Handle, CheckExists, FindOpen, InsertBatch, ListMembers,
       AddMember, EmitOpen, ReadTotal, WriteTotal, ConsumerFails, ConsumerUnanswered, StartTick,
       Crash, RequestClose, CloseStep, Scan, EndTick, Acquire, CheckOpen, SumForClose, CasClosed,
       HandOver, CloserFails, CloserUnanswered, Age, CadenceExpires, KeyExpires, At

LEMMA MembersOnlyAdded ==
  ASSUME TypeOK, [Next]_vars
  PROVE  MembersStay
BY OnlyJoinsAdd DEF Join, Inserts, MembersStay, TypeOK, StoreTypeOK

LEMMA MembersGrow ==
  ASSUME TypeOK, [Next]_vars
  PROVE  \A b \in BatchId : Members(b) \subseteq Members(b)'
BY MembersOnlyAdded, NoneAssumption DEF MembersStay, Members

LEMMA SumStep ==
  ASSUME TypeOK, SumInv, [Next]_vars
  PROVE  SumInv'
<1> USE DEF SumInv, TypeOK
<1>0. /\ \A b \in BatchId : Members(b) \subseteq Members(b)'
      /\ \A r \in Replica : frame[r].pc = "set" => frame[r].batch \in BatchId
      /\ \A c \in Closer : closing[c].pc \in {"cas", "handover"} => closing[c].batch \in BatchId
  BY MembersGrow DEF FrameTypeOK, ClosingTypeOK, At
<1>1. ASSUME UNCHANGED <<notional, order>>,
             UNCHANGED closing \/ \E c \in Closer : CloseReturns(c),
             UNCHANGED frame \/ \E r \in Replica : Finish(r)
      PROVE  SumInv'
  <2>1. \A c \in Closer : closing'[c] = closing[c]
                         \/ (closing'[c].pc \in {"idle", "scan"} /\ closing'[c].sum = {})
    BY <1>1, AfterCloseTyped DEF CloseReturns, ClosingTypeOK
  <2>2. \A r \in Replica : frame'[r] = frame[r] \/ (frame'[r].pc = "idle" /\ frame'[r].sum = {})
    BY <1>1 DEF Finish, NoFrame, FrameTypeOK
  <2> QED BY <1>0, <1>1, <2>1, <2>2
<1>2. ASSUME NEW r \in Replica, NEW t \in Tx, Receive(r, t) PROVE SumInv'
  <2>1. UNCHANGED <<notional, order, closing>>
    BY <1>2 DEF Receive, batchVars, orderVars
  <2>2. \A s \in Replica : frame'[s] = frame[s] \/ (frame'[s].pc = "exists" /\ frame'[s].sum = {})
    BY <1>2 DEF Receive, NoFrame, FrameTypeOK
  <2> QED BY <1>0, <2>1, <2>2
<1>3. ASSUME NEW r \in Replica, Handle(r) PROVE SumInv'
  <2>1. CASE CheckExists(r) \/ FindOpen(r) \/ InsertBatch(r) \/ ListMembers(r) \/ AddMember(r) \/ EmitOpen(r)
    <3>1. UNCHANGED <<notional, order, closing>>
      BY <2>1 DEF CheckExists, FindOpen, InsertBatch, ListMembers, AddMember, EmitOpen, batchVars, orderVars
    <3>2. \A s \in Replica : frame'[s] = frame[s] \/ (frame'[s].pc # "set" /\ frame'[s].sum = {})
      BY <2>1 DEF CheckExists, FindOpen, InsertBatch, InsertRow, ListMembers, AddMember, EmitOpen, At, Goto,
                  Finish, NoFrame, FrameTypeOK, FrameType
    <3> QED BY <1>0, <3>1, <3>2
  <2>2. CASE ReadTotal(r)
    <3>1. UNCHANGED <<notional, order, closing, member>>
      BY <2>2 DEF ReadTotal, batchVars, orderVars
    <3>2. \A s \in Replica : frame'[s] = frame[s]
            \/ (frame'[s].pc = "set" /\ frame'[s].sum = Members(frame'[s].batch))
      BY <2>2 DEF ReadTotal, RunningTotal, FrameTypeOK, FrameType
    <3> QED BY <1>0, <3>1, <3>2 DEF Members
  <2>3. CASE WriteTotal(r)
    <3>1. UNCHANGED <<order, closing, member>> /\ frame[r].pc = "set" /\ frame[r].batch \in BatchId
      BY <1>0, <2>3 DEF WriteTotal, At, orderVars
    <3>2. \A b \in BatchId : notional'[b] \subseteq Members(b)
      BY <2>3, <3>1 DEF WriteTotal, StoreTypeOK
    <3>3. \A s \in Replica : frame'[s] = frame[s] \/ (frame'[s].pc = "idle" /\ frame'[s].sum = {})
      BY <2>3 DEF WriteTotal, Finish, NoFrame, FrameTypeOK
    <3> QED BY <3>1, <3>2, <3>3 DEF Members
  <2> QED BY <1>3, <2>1, <2>2, <2>3 DEF Handle
<1>4. ASSUME NEW r \in Replica, ConsumerFails(r) PROVE SumInv'
  <2>1. UNCHANGED <<notional, order, closing>>
    BY <1>4 DEF ConsumerFails, batchVars, orderVars
  <2>2. \A s \in Replica : frame'[s] = frame[s] \/ frame'[s].sum = {}
    BY <1>4 DEF ConsumerFails, At, Goto, Finish, NoFrame, FrameTypeOK, FrameType
  <2> QED BY <1>0, <2>1, <2>2
<1>5. ASSUME NEW r \in Replica, StartTick(r) PROVE SumInv'
  <2>1. UNCHANGED <<notional, order, frame>>
    BY <1>5 DEF StartTick, batchVars, orderVars
  <2>2. \A c \in Closer : closing'[c] = closing[c] \/ (closing'[c].pc = "scan" /\ closing'[c].sum = {})
    BY <1>5, Closers DEF StartTick, ClosingAt, ClosingTypeOK, ClosingType
  <2> QED BY <1>0, <2>1, <2>2
<1>6. ASSUME NEW r \in Served, NEW b \in BatchId, RequestClose(r, b) PROVE SumInv'
  <2>1. UNCHANGED <<notional, order, frame>>
    BY <1>6 DEF RequestClose, batchVars, orderVars
  <2>2. \A c \in Closer : closing'[c] = closing[c] \/ (closing'[c].pc = "get" /\ closing'[c].sum = {})
    BY <1>6, Closers DEF RequestClose, ClosingAt, ClosingTypeOK, ClosingType
  <2> QED BY <1>0, <2>1, <2>2
<1>7. ASSUME NEW r \in Replica, Crash(r) PROVE SumInv'
  <2>1. UNCHANGED <<notional, order>>
    BY <1>7 DEF Crash, batchVars, orderVars
  <2>2. \A c \in Closer : closing'[c] = closing[c] \/ (closing'[c].pc = "idle" /\ closing'[c].sum = {})
    BY <1>7 DEF Crash, NoClose
  <2>3. \A s \in Replica : frame'[s] = frame[s] \/ (frame'[s].pc = "idle" /\ frame'[s].sum = {})
    BY <1>7 DEF Crash, Finish, NoFrame, FrameTypeOK
  <2> QED BY <1>0, <2>1, <2>2, <2>3
<1>8. ASSUME NEW c \in Closer, CloseStep(c) PROVE SumInv'
  <2>1. CASE Scan(c) \/ EndTick(c) \/ Acquire(c) \/ CheckOpen(c)
    <3>1. UNCHANGED <<notional, order, frame>>
      BY <2>1 DEF Scan, EndTick, Acquire, CheckOpen, batchVars, orderVars
    <3>2. \A d \in Closer : closing'[d] = closing[d]
                          \/ (closing'[d].pc \notin {"cas", "handover"} /\ closing'[d].sum = {})
      <4>1. CASE Scan(c)
        BY <4>1 DEF Scan, ClosingTypeOK
      <4>2. CASE EndTick(c) \/ Acquire(c) \/ CheckOpen(c)
        BY <4>2, AfterCloseTyped DEF EndTick, Acquire, CheckOpen, ClosingAt, CloseGoto, CloseReturns,
                                     NoClose, ClosingTypeOK, ClosingType
      <4> QED BY <2>1, <4>1, <4>2
    <3> QED BY <1>0, <3>1, <3>2
  <2>2. CASE SumForClose(c)
    <3>1. UNCHANGED <<notional, order, frame, member>>
      BY <2>2 DEF SumForClose, batchVars, orderVars
    <3>2. \A d \in Closer : closing'[d] = closing[d]
            \/ (closing'[d].pc = "cas" /\ closing'[d].sum = Members(closing'[d].batch))
      BY <2>2 DEF SumForClose, AfterSum, ClosingTypeOK, ClosingType
    <3> QED BY <1>0, <3>1, <3>2 DEF Members
  <2>3. CASE CasClosed(c)
    <3>1. UNCHANGED <<order, frame, member>> /\ closing[c].batch \in BatchId
          /\ closing[c].sum \subseteq Members(closing[c].batch)
      BY <1>0, <2>3 DEF CasClosed, ClosingAt, orderVars
    <3>2. \A b \in BatchId : notional'[b] \subseteq Members(b)
      BY <2>3, <3>1 DEF CasClosed, CloseRow, StoreTypeOK
    <3>3. \A d \in Closer : d # c => closing'[d] = closing[d]
      BY <2>3 DEF CasClosed, CloseGoto, CloseReturns, ClosingTypeOK
    <3>4. CASE CloseGoto(c, "handover")
      <4>1. /\ closing'[c].pc = "handover" /\ closing'[c].batch = closing[c].batch
            /\ closing'[c].sum = closing[c].sum
        BY <3>4 DEF CloseGoto, ClosingTypeOK, ClosingType
      <4> QED BY <3>1, <3>2, <3>3, <4>1 DEF Members
    <3>5. CASE CloseReturns(c)
      <4>1. closing'[c].pc \in {"idle", "scan"} /\ closing'[c].sum = {}
        BY <3>5, AfterCloseTyped DEF CloseReturns, ClosingTypeOK
      <4> QED BY <3>1, <3>2, <3>3, <4>1 DEF Members
    <3> QED BY <2>3, <3>4, <3>5 DEF CasClosed
  <2>4. CASE HandOver(c)
    <3>1. UNCHANGED <<notional, frame, member>> /\ closing[c].batch \in BatchId
      BY <1>0, <2>4 DEF HandOver, ClosingAt, batchVars
    <3>2. \A b \in BatchId : order'[b] \subseteq Members(b)
      BY <2>4, <3>1 DEF HandOver, StoreTypeOK
    <3>3. \A d \in Closer : closing'[d] = closing[d]
                          \/ (closing'[d].pc \in {"idle", "scan"} /\ closing'[d].sum = {})
      BY <2>4, AfterCloseTyped DEF HandOver, CloseReturns, ClosingTypeOK
    <3> QED BY <3>1, <3>2, <3>3 DEF Members
  <2> QED BY <1>8, <2>1, <2>2, <2>3, <2>4 DEF CloseStep
<1>9. ASSUME NEW c \in Closer, CloserFails(c) PROVE SumInv'
  <2>1. UNCHANGED <<notional, order, frame>>
    BY <1>9 DEF CloserFails, batchVars, orderVars
  <2>2. \A d \in Closer : closing'[d] = closing[d] \/ closing'[d].sum = {}
    BY <1>9, AfterCloseTyped DEF CloserFails, ClosingAt, CloseGoto, CloseReturns, ClosingTypeOK,
                                 ClosingType
  <2> QED BY <1>0, <2>1, <2>2
<1>11. ASSUME NEW r \in Replica, ConsumerUnanswered(r) PROVE SumInv'
  BY <1>1, <1>11 DEF ConsumerUnanswered, orderVars
<1>12. ASSUME NEW c \in Closer, CloserUnanswered(c) PROVE SumInv'
  <2>1. CASE ClosingAt(c, "lock")
    BY <1>1, <1>12, <2>1 DEF CloserUnanswered, ClosingAt, orderVars
  <2>2. CASE ClosingAt(c, "cas") /\ CloseRow(c)
    <3>1. UNCHANGED <<order, frame, member>> /\ closing[c].batch \in BatchId
          /\ closing[c].sum \subseteq Members(closing[c].batch)
      BY <1>0, <1>12, <2>2 DEF CloserUnanswered, ClosingAt, orderVars
    <3>2. \A b \in BatchId : notional'[b] \subseteq Members(b)
      BY <2>2, <3>1 DEF CloseRow, StoreTypeOK
    <3>3. \A d \in Closer : closing'[d] = closing[d]
                          \/ (closing'[d].pc \in {"idle", "scan"} /\ closing'[d].sum = {})
      BY <1>12, AfterCloseTyped DEF CloserUnanswered, CloseReturns, ClosingTypeOK
    <3> QED BY <3>1, <3>2, <3>3 DEF Members
  <2> QED BY <1>12, <2>1, <2>2 DEF CloserUnanswered
<1>10. ASSUME \/ \E b \in BatchId : Age(b)
              \/ \E p \in Pair : CadenceExpires(p)
              \/ \E t \in Tx : KeyExpires(t)
              \/ \E r \in Replica, t \in Tx : ReceiveFails(r, t)
              \/ UNCHANGED vars
       PROVE SumInv'
  BY <1>1, <1>10 DEF ReceiveFails, Age, CadenceExpires, KeyExpires, vars, batchVars, orderVars
<1> QED
  BY <1>2, <1>3, <1>4, <1>5, <1>6, <1>7, <1>8, <1>9, <1>10, <1>11, <1>12 DEF Next

\* NoTxOrderedTwice for any number of replicas, replays, expiries and faults: each
\* transaction's amount reaches the market in at most one aggregate order.
THEOREM OrderedOnce == Spec => []NoTxOrderedTwice
<1>1. Init => SumInv
  BY DEF Init, SumInv, NoFrame, NoClose
<1>2. TypeOK /\ SumInv /\ [Next]_vars => SumInv'
  BY SumStep
<1>3. TypeOK /\ SumInv => NoTxOrderedTwice
  BY DEF TypeOK, StoreTypeOK, SumInv, NoTxOrderedTwice, Members
<1> QED
  BY <1>1, <1>2, <1>3, TypeCorrect, PTL DEF Spec

-------------------------------------------------------------------------------
(* How many batches of a pair are open.  Whoever is between SELECT and       *)
(* INSERT may still open one; nobody gets there while one is open.           *)

Inserting(p) == {r \in Replica : frame[r].pc = "insert" /\ PairOf[frame[r].tx] = p}

OpenInv == \A p \in Pair :
  /\ IsFiniteSet(OpenFor(p))
  /\ Cardinality(OpenFor(p)) + Cardinality(Inserting(p)) <= Cardinality(Replica)

\* A step lets go of rows and of inserts under way, finds no open row, or inserts one.
InsertsOne(p) ==
  \E r \in Inserting(p), b \in BatchId \ OpenFor(p) :
    OpenFor(p)' = OpenFor(p) \cup {b} /\ Inserting(p)' \subseteq Inserting(p) \ {r}
Quiet(p) == OpenFor(p)' \subseteq OpenFor(p) /\ Inserting(p)' \subseteq Inserting(p)

LEMMA OnlyFindersInsert ==
  ASSUME TypeOK, [Next]_vars, NEW p \in Pair,
         ~\E r \in Replica : FindOpen(r)
  PROVE  Inserting(p)' \subseteq Inserting(p)
<1> SUFFICES ASSUME NEW s \in Replica, frame'[s].pc = "insert"
             PROVE  frame'[s] = frame[s]
  BY DEF Inserting
<1> USE DEF TypeOK, FrameTypeOK, FrameType, NoFrame, Goto, Finish
<1>1. CASE \E r \in Replica, t \in Tx : Receive(r, t) \/ ReceiveFails(r, t)
  <2>1. \/ frame' = frame
        \/ \E r \in Replica, t \in Tx : frame' = [frame EXCEPT ![r] = [NoFrame EXCEPT !.pc = "exists", !.tx = t]]
    BY <1>1 DEF Receive, ReceiveFails
  <2> QED
    BY <2>1
<1>2. CASE \E r \in Replica : Handle(r)
  <2>1. CASE \E r \in Replica : CheckExists(r) \/ InsertBatch(r)
    BY <2>1 DEF CheckExists, InsertBatch
  <2>2. CASE \E r \in Replica : ListMembers(r) \/ AddMember(r)
    BY <2>2 DEF ListMembers, AddMember
  <2>3. CASE \E r \in Replica : EmitOpen(r) \/ ReadTotal(r) \/ WriteTotal(r)
    BY <2>3 DEF EmitOpen, ReadTotal, WriteTotal
  <2> QED
    BY <1>2, <2>1, <2>2, <2>3 DEF Handle
<1>3. CASE \E r \in Replica : ConsumerFails(r) \/ ConsumerUnanswered(r) \/ Crash(r)
  BY <1>3 DEF ConsumerFails, ConsumerUnanswered, Crash
<1>4. CASE frame' = frame
  BY <1>4
<1> QED
  BY <1>1, <1>2, <1>3, <1>4 DEF Next, vars, StartTick, RequestClose, CloseStep, Scan, EndTick, Acquire,
     CheckOpen, SumForClose, CasClosed, HandOver, CloserFails, CloserUnanswered, Age, CadenceExpires,
     KeyExpires

\* Two steps insert a row: the INSERT that is answered and the one that is not.
AddsRow(r, b) == (InsertBatch(r) \/ ConsumerUnanswered(r)) /\ InsertRow(r, b)

LEMMA OnlyInsertsOpen ==
  ASSUME TypeOK, [Next]_vars, NEW p \in Pair,
         ~\E r \in Replica, b \in BatchId : AddsRow(r, b)
  PROVE  OpenFor(p)' \subseteq OpenFor(p)
<1> SUFFICES \A b \in BatchId : status'[b] = "OPEN" => status[b] = "OPEN" /\ pair'[b] = pair[b]
  BY DEF OpenFor, Open
<1>1. ASSUME NEW r \in Replica, InsertBatch(r) \/ ConsumerUnanswered(r)
      PROVE  UNCHANGED <<status, pair>>
  BY <1>1 DEF AddsRow, InsertBatch, ConsumerUnanswered
<1>2. ASSUME ~\E r \in Replica : InsertBatch(r) \/ ConsumerUnanswered(r)
      PROVE  UNCHANGED pair /\ \A b \in BatchId : status'[b] = "OPEN" => status[b] = "OPEN"
  BY <1>2 DEF Next, vars, batchVars, Receive, ReceiveFails, Handle, CheckExists, FindOpen,
     ListMembers, AddMember, EmitOpen, ReadTotal, WriteTotal, ConsumerFails, StartTick, Crash,
     RequestClose, CloseStep, Scan, EndTick, Acquire, CheckOpen, SumForClose, CasClosed, CloseRow,
     HandOver, CloserFails, CloserUnanswered, Age, CadenceExpires, KeyExpires, TypeOK, StoreTypeOK
<1> QED
  BY <1>1, <1>2

LEMMA OpenCases ==
  ASSUME TypeOK, [Next]_vars, NEW p \in Pair
  PROVE  Quiet(p) \/ InsertsOne(p) \/ OpenFor(p)' = {}
<1> USE DEF TypeOK, StoreTypeOK
<1>1. ASSUME NEW r \in Replica, NEW b \in BatchId, AddsRow(r, b)
      PROVE  Quiet(p) \/ InsertsOne(p)
  <2>1. /\ frame[r].pc = "insert" /\ status[b] = "NONE"
        /\ status' = [status EXCEPT ![b] = "OPEN"]
        /\ pair' = [pair EXCEPT ![b] = PairOf[frame[r].tx]]
    BY <1>1 DEF AddsRow, InsertRow, At
  <2>2. /\ frame'[r].pc # "insert"
        /\ \A s \in Replica : s # r => frame'[s] = frame[s]
    BY <1>1 DEF AddsRow, InsertBatch, ConsumerUnanswered, Finish, NoFrame, FrameTypeOK, FrameType
  <2>3. Inserting(p)' \subseteq Inserting(p) \ {r}
    BY <2>2 DEF Inserting
  <2>4. CASE PairOf[frame[r].tx] = p
    <3>1. r \in Inserting(p) /\ b \in BatchId \ OpenFor(p) /\ OpenFor(p)' = OpenFor(p) \cup {b}
      BY <2>1, <2>4 DEF Inserting, OpenFor, Open
    <3> QED
      BY <2>3, <3>1 DEF InsertsOne
  <2>5. CASE PairOf[frame[r].tx] # p
    BY <2>1, <2>3, <2>5 DEF Quiet, OpenFor, Open
  <2> QED
    BY <2>4, <2>5
<1>2. ASSUME NEW r \in Replica, FindOpen(r)
      PROVE  Quiet(p) \/ OpenFor(p)' = {}
  <2>1. OpenFor(p)' = OpenFor(p)
    BY <1>2 DEF FindOpen, OpenFor, Open, batchVars
  <2>2. OpenFor(PairOf[frame[r].tx]) # {} \/ PairOf[frame[r].tx] # p => Inserting(p)' \subseteq Inserting(p)
    BY <1>2 DEF FindOpen, Goto, Inserting, FrameTypeOK, FrameType
  <2> QED
    BY <2>1, <2>2 DEF Quiet
<1>3. CASE /\ ~\E r \in Replica, b \in BatchId : AddsRow(r, b)
           /\ ~\E r \in Replica : FindOpen(r)
  BY <1>3, OnlyFindersInsert, OnlyInsertsOpen DEF Quiet
<1> QED
  BY <1>1, <1>2, <1>3

LEMMA OpenStep ==
  ASSUME TypeOK, OpenInv, [Next]_vars
  PROVE  OpenInv'
<1> SUFFICES ASSUME NEW p \in Pair
             PROVE  /\ IsFiniteSet(OpenFor(p)')
                    /\ Cardinality(OpenFor(p)') + Cardinality(Inserting(p)') <= Cardinality(Replica)
  BY DEF OpenInv
<1>1. IsFiniteSet(OpenFor(p)) /\ Cardinality(OpenFor(p)) + Cardinality(Inserting(p)) <= Cardinality(Replica)
  BY DEF OpenInv
<1>2. Inserting(p) \subseteq Replica /\ Inserting(p)' \subseteq Replica
  BY DEF Inserting
<1>3. IsFiniteSet(Inserting(p)) /\ IsFiniteSet(Inserting(p)') /\ Cardinality(Inserting(p)') <= Cardinality(Replica)
  BY <1>2, ReplicaAssumption, SubsetCounts
<1>4. CASE Quiet(p)
  <2>1. IsFiniteSet(OpenFor(p)') /\ Cardinality(OpenFor(p)') <= Cardinality(OpenFor(p))
    BY <1>1, <1>4, SubsetCounts DEF Quiet
  <2>2. Cardinality(Inserting(p)') <= Cardinality(Inserting(p))
    BY <1>3, <1>4, SubsetCounts DEF Quiet
  <2> QED
    BY <1>1, <1>3, <2>1, <2>2, FS_CardinalityType, ReplicaAssumption
<1>5. CASE InsertsOne(p)
  <2>1. PICK r \in Inserting(p), b \in BatchId \ OpenFor(p) :
          OpenFor(p)' = OpenFor(p) \cup {b} /\ Inserting(p)' \subseteq Inserting(p) \ {r}
    BY <1>5 DEF InsertsOne
  <2>2. IsFiniteSet(OpenFor(p)') /\ Cardinality(OpenFor(p)') = Cardinality(OpenFor(p)) + 1
    BY <1>1, <2>1, FS_AddElement
  <2>3. IsFiniteSet(Inserting(p) \ {r}) /\ Cardinality(Inserting(p) \ {r}) = Cardinality(Inserting(p)) - 1
    BY <1>3, <2>1, FS_RemoveElement
  <2>4. Cardinality(Inserting(p)') <= Cardinality(Inserting(p)) - 1
    BY <2>1, <2>3, SubsetCounts
  <2> QED
    BY <1>1, <1>3, <2>2, <2>4, FS_CardinalityType, ReplicaAssumption
<1>6. CASE OpenFor(p)' = {}
  BY <1>3, <1>6, FS_EmptySet, FS_CardinalityType, ReplicaAssumption
<1> QED
  BY <1>4, <1>5, <1>6, OpenCases

LEMMA OpenInvHolds == Spec => []OpenInv
<1>1. Init => OpenInv
  <2>1. Init => \A p \in Pair : OpenFor(p) = {} /\ Inserting(p) = {}
    BY DEF Init, OpenFor, Open, Inserting, NoFrame
  <2>2. IsFiniteSet({}) /\ Cardinality({}) + Cardinality({}) <= Cardinality(Replica)
    BY FS_EmptySet, FS_CardinalityType, ReplicaAssumption
  <2> QED
    BY <2>1, <2>2 DEF OpenInv
<1>2. TypeOK /\ OpenInv /\ [Next]_vars => OpenInv'
  BY OpenStep
<1> QED
  BY <1>1, <1>2, TypeCorrect, PTL DEF Spec

\* OpenPerReplica for any number of replicas and faults: a pair has at most as many open
\* batches as there are replicas, since whoever inserts found none open.
THEOREM OpensPerReplica == Spec => []OpenPerReplica
<1>1. OpenInv => OpenPerReplica
  <2> SUFFICES ASSUME OpenInv, NEW p \in Pair
               PROVE  Cardinality(OpenFor(p)) <= Cardinality(Replica)
    BY DEF OpenPerReplica, OpenFor
  <2>1. IsFiniteSet(Inserting(p))
    BY ReplicaAssumption, SubsetCounts DEF Inserting
  <2> QED
    BY <2>1, FS_CardinalityType, ReplicaAssumption DEF OpenInv
<1> QED
  BY <1>1, OpenInvHolds, PTL

OneConsumer == \A r, s \in Replica : r = s

\* What the reuse query promises, OneOpenPerPair, holds of a service that runs as a single
\* instance, whatever fails and restarts.
THEOREM SingleConsumerOpensOne ==
  ASSUME OneConsumer
  PROVE  Spec => []OneOpenPerPair
<1>1. TypeOK /\ OpenInv => OneOpenPerPair
  <2> SUFFICES ASSUME TypeOK, OpenInv, NEW b \in Open, NEW d \in Open, pair[b] = pair[d]
               PROVE  b = d
    BY DEF OneOpenPerPair
  <2> DEFINE p == pair[b]
  <2>1. p \in Pair /\ b \in OpenFor(p) /\ d \in OpenFor(p)
    BY DEF TypeOK, StoreTypeOK, OpenFor, Open
  <2>2. Cardinality(Replica) <= 1
    <3>1. CASE Replica = {}
      BY <3>1, FS_EmptySet
    <3>2. CASE Replica # {}
      <4>1. PICK r : Replica = {r}
        BY <3>2 DEF OneConsumer
      <4>2. Cardinality({r}) = 1
        BY FS_Singleton
      <4> QED
        BY <4>1, <4>2
    <3> QED
      BY <3>1, <3>2
  <2>3. IsFiniteSet(OpenFor(p)) /\ IsFiniteSet(Inserting(p))
    BY <2>1, ReplicaAssumption, SubsetCounts DEF OpenInv, Inserting
  <2>4. Cardinality(OpenFor(p)) <= 1
    BY <2>1, <2>2, <2>3, FS_CardinalityType, ReplicaAssumption DEF OpenInv
  <2>5. ASSUME b # d PROVE FALSE
    <3>1. Cardinality(OpenFor(p) \ {b}) = Cardinality(OpenFor(p)) - 1 /\ IsFiniteSet(OpenFor(p) \ {b})
      BY <2>1, <2>3, FS_RemoveElement
    <3>2. Cardinality(OpenFor(p) \ {b}) = 0
      BY <2>3, <2>4, <3>1, FS_CardinalityType
    <3>3. OpenFor(p) \ {b} = {}
      BY <3>1, <3>2, FS_EmptySet
    <3> QED
      BY <2>1, <2>5, <3>3
  <2> QED
    BY <2>5
<1> QED
  BY <1>1, OpenInvHolds, TypeCorrect, PTL

-------------------------------------------------------------------------------
(* BatchFormation implements BatchLifecycle: only three steps touch the rows *)
(* it speaks of, and the hand-over finds the batch closed.                   *)

LEMMA RowsUntouched ==
  ASSUME [Next]_vars,
         ~\E r \in Replica : InsertBatch(r) \/ ConsumerUnanswered(r),
         ~\E c \in Closer : CasClosed(c) \/ HandOver(c) \/ CloserUnanswered(c)
  PROVE  UNCHANGED <<status, order, ordered>>
BY DEF Next, vars, batchVars, orderVars, Receive, ReceiveFails, Handle, CheckExists, FindOpen,
       ListMembers, AddMember, EmitOpen, ReadTotal, WriteTotal, ConsumerFails, StartTick, Crash,
       RequestClose, CloseStep, Scan, EndTick, Acquire, CheckOpen, SumForClose, CloserFails, Age,
       CadenceExpires, KeyExpires

LEMMA LifecycleStep ==
  ASSUME TypeOK, CloseOnceInv, [Next]_vars
  PROVE  [Lifecycle!Next]_(Lifecycle!vars)
<1> USE DEF Lifecycle!vars, TypeOK, StoreTypeOK
<1>1. ASSUME NEW r \in Replica, InsertBatch(r) \/ ConsumerUnanswered(r)
      PROVE  [Lifecycle!Next]_(Lifecycle!vars)
  <2>1. UNCHANGED <<order, ordered>>
    BY <1>1 DEF InsertBatch, ConsumerUnanswered, orderVars
  <2>2. CASE UNCHANGED status
    BY <2>1, <2>2
  <2>3. CASE \E b \in BatchId : InsertRow(r, b)
    BY <2>1, <2>3 DEF InsertRow, Lifecycle!Next, Lifecycle!Open
  <2> QED
    BY <1>1, <2>2, <2>3 DEF InsertBatch, ConsumerUnanswered
<1>2. ASSUME NEW c \in Closer, CasClosed(c) \/ CloserUnanswered(c)
      PROVE  [Lifecycle!Next]_(Lifecycle!vars)
  <2>1. closing[c].batch \in BatchId /\ UNCHANGED <<order, ordered>>
    BY <1>2 DEF CasClosed, CloserUnanswered, ClosingAt, ClosingTypeOK, orderVars
  <2>2. CASE CloseRow(c)
    <3>1. Lifecycle!Advance(closing[c].batch, "CLOSED")
      BY <2>1, <2>2 DEF CloseRow, StillOpen, Lifecycle!Advance, Lifecycle!CanTransition
    <3> QED
      BY <2>1, <3>1 DEF Lifecycle!Next
  <2>3. CASE UNCHANGED status
    BY <2>1, <2>3
  <2> QED
    BY <1>2, <2>2, <2>3 DEF CasClosed, CloserUnanswered
<1>3. ASSUME NEW c \in Closer, HandOver(c)
      PROVE  [Lifecycle!Next]_(Lifecycle!vars)
  <2>1. PICK b \in BatchId, n \in SUBSET Tx : b = closing[c].batch /\ n = notional[b]
    BY <1>3 DEF HandOver, ClosingAt, ClosingTypeOK
  <2>2. status[b] = "CLOSED"
    BY <1>3, <2>1 DEF HandOver, ClosingAt, CloseOnceInv
  <2>3. /\ status' = status /\ ordered' = ordered \cup {b}
        /\ order' = IF b \in ordered THEN order ELSE [order EXCEPT ![b] = n]
    BY <1>3, <2>1 DEF HandOver, batchVars
  <2>4. CASE b \in ordered
    BY <2>3, <2>4
  <2>5. CASE b \notin ordered
    <3>1. Lifecycle!CreateOrder(b, n)
      BY <2>2, <2>3, <2>5 DEF Lifecycle!CreateOrder
    <3> QED
      BY <3>1 DEF Lifecycle!Next
  <2> QED
    BY <2>4, <2>5
<1>4. CASE UNCHANGED <<status, order, ordered>>
  BY <1>4
<1> QED
  BY <1>1, <1>2, <1>3, <1>4, RowsUntouched

\* BatchFormation implements BatchLifecycle: consumers, tickers, requests, expired locks
\* and crashes change the rows of a batch only as LifecyclePromise allows.
THEOREM ImplementsLifecycle == Spec => LifecyclePromise
<1>1. Init => Lifecycle!Init /\ CloseOnceInv
  BY DEF Init, Lifecycle!Init, CloseOnceInv, NoClose
<1>2. TypeOK /\ CloseOnceInv /\ [Next]_vars => [Lifecycle!Next]_(Lifecycle!vars) /\ CloseOnceInv'
  BY LifecycleStep, CloseOnceStep
<1> QED
  BY <1>1, <1>2, TypeCorrect, PTL DEF Spec, LifecyclePromise, Lifecycle!Spec
-------------------------------------------------------------------------------
(* A fault loses at most one event and leaves at most one opening unaudited. *)
(* A membership, once there, stays; what a handler has found out about it    *)
(* stays true, although others insert between its steps.                     *)

KnownInv ==
  /\ \A t \in txKey : deliveries[t] > 0
  /\ \A r \in Replica : At(r, "idle") => frame[r].tx = None
  /\ \A r \in Replica : frame[r].pc \in {"emit", "sum", "set"} => member[frame[r].tx] # None
  /\ \A r \in Replica : At(r, "add") => \E t \in Tx : member[t] = frame[r].batch

LEMMA KnownStep ==
  ASSUME TypeOK, KnownInv, [Next]_vars
  PROVE  KnownInv'
<1> USE DEF KnownInv, TypeOK, At
<1>0. /\ MembersStay
      /\ \A r \in Replica : frame[r].pc \notin {"idle", "exists", "open", "insert"}
                              => frame[r].tx \in Tx /\ frame[r].batch \in BatchId
  BY MembersOnlyAdded DEF FrameTypeOK
<1>1. ASSUME txKey' \subseteq txKey, deliveries' = deliveries,
             \A r \in Replica :
                \/ frame'[r] = frame[r]
                \/ frame'[r] = NoFrame
                \/ frame'[r].pc \in {"open", "insert", "list", "addFirst"}
                \/ /\ frame[r].pc \in {"emit", "sum"} /\ frame'[r].pc \in {"sum", "set"}
                   /\ frame'[r].tx = frame[r].tx
      PROVE  KnownInv'
  <2>1. \A t \in txKey' : deliveries'[t] > 0
    BY <1>1
  <2>2. \A r \in Replica : frame'[r].pc = "idle" => frame'[r].tx = None
    BY <1>1 DEF NoFrame
  <2>3. \A r \in Replica : frame'[r].pc \in {"emit", "sum", "set"} => member'[frame'[r].tx] # None
    BY <1>0, <1>1, NoneAssumption DEF NoFrame, MembersStay
  <2>4. \A r \in Replica : frame'[r].pc = "add" => \E t \in Tx : member'[t] = frame'[r].batch
    <3> SUFFICES ASSUME NEW r \in Replica, frame'[r].pc = "add"
                 PROVE  \E t \in Tx : member'[t] = frame'[r].batch
      OBVIOUS
    <3>1. frame'[r] = frame[r]
      BY <1>1 DEF NoFrame
    <3>2. PICK t \in Tx : member[t] = frame[r].batch
      BY <3>1
    <3>3. frame[r].batch # None
      BY <1>0, <3>1, NoneAssumption
    <3> QED
      BY <1>0, <3>1, <3>2, <3>3 DEF MembersStay
  <2> QED
    BY <2>1, <2>2, <2>3, <2>4
<1>2. ASSUME NEW r \in Replica, NEW t \in Tx, Receive(r, t) PROVE KnownInv'
  <2>1. \A u \in txKey' : deliveries'[u] > 0
    BY <1>2 DEF Receive, StoreTypeOK
  <2>2. member' = member
    BY <1>2 DEF Receive
  <2>3. \A s \in Replica : frame'[s] = frame[s] \/ frame'[s].pc = "exists"
    BY <1>2 DEF Receive, FrameTypeOK, NoFrame
  <2> QED
    BY <2>1, <2>2, <2>3
<1>3. ASSUME NEW r \in Replica, NEW t \in Tx, ReceiveFails(r, t) PROVE KnownInv'
  BY <1>3 DEF ReceiveFails, keyVars, StoreTypeOK
<1>4. ASSUME NEW r \in Replica, Handle(r) PROVE KnownInv'
  <2>1. UNCHANGED <<txKey, deliveries>>
    BY <1>4 DEF Handle, CheckExists, FindOpen, InsertBatch, ListMembers, AddMember, EmitOpen, ReadTotal,
                WriteTotal, keyVars
  <2>2. CASE ListMembers(r) /\ ~IsNew(frame[r].batch)
    <3>1. PICK t \in Tx : member[t] = frame[r].batch
      BY <2>2 DEF IsNew, Members
    <3>2. /\ member' = member /\ frame'[r].pc = "add" /\ frame'[r].batch = frame[r].batch
          /\ \A s \in Replica : s # r => frame'[s] = frame[s]
      BY <2>2 DEF ListMembers, Goto, FrameTypeOK, FrameType
    <3> QED
      BY <2>1, <3>1, <3>2
  <2>3. CASE AddMember(r)
    <3>1. /\ frame[r].tx \in Tx /\ frame[r].batch \in BatchId
      BY <1>0, <2>3 DEF AddMember
    <3>2. member'[frame[r].tx] # None
      BY <2>3, <3>1, NoneAssumption DEF AddMember, Join, Inserts, StoreTypeOK
    <3>3. /\ frame'[r].pc \in {"emit", "sum"} /\ frame'[r].tx = frame[r].tx
          /\ \A s \in Replica : s # r => frame'[s] = frame[s]
      BY <2>3 DEF AddMember, Goto, FrameTypeOK, FrameType
    <3>4. \A s \in Replica : frame[s].pc = "add" => \E t \in Tx : member'[t] = frame[s].batch
      <4> SUFFICES ASSUME NEW s \in Replica, frame[s].pc = "add"
                   PROVE  \E t \in Tx : member'[t] = frame[s].batch
        OBVIOUS
      <4>1. PICK t \in Tx : member[t] = frame[s].batch
        OBVIOUS
      <4>2. frame[s].batch # None
        BY <1>0, NoneAssumption
      <4> QED
        BY <1>0, <4>1, <4>2 DEF MembersStay
    <3>5. \A s \in Replica : frame[s].pc \in {"emit", "sum", "set"} => member'[frame[s].tx] # None
      BY <1>0 DEF MembersStay
    <3> QED
      BY <2>1, <3>2, <3>3, <3>4, <3>5
  <2>4. CASE /\ ~AddMember(r) /\ ~(ListMembers(r) /\ ~IsNew(frame[r].batch))
    <3>1. CASE CheckExists(r) \/ FindOpen(r) \/ InsertBatch(r) \/ WriteTotal(r)
      BY <1>1, <2>1, <3>1 DEF CheckExists, FindOpen, InsertBatch, WriteTotal, Goto, Finish, FrameTypeOK,
                              FrameType
    <3>2. CASE EmitOpen(r) \/ ReadTotal(r)
      BY <1>1, <2>1, <3>2 DEF EmitOpen, ReadTotal, Goto, FrameTypeOK, FrameType
    <3>3. CASE ListMembers(r) /\ IsNew(frame[r].batch)
      BY <1>1, <2>1, <3>3 DEF ListMembers, Goto, FrameTypeOK, FrameType
    <3> QED
      BY <1>4, <2>4, <3>1, <3>2, <3>3 DEF Handle
  <2> QED
    BY <2>2, <2>3, <2>4
<1>5. ASSUME NEW r \in Replica, ConsumerFails(r) \/ ConsumerUnanswered(r) \/ Crash(r) PROVE KnownInv'
  <2>1. UNCHANGED <<txKey, deliveries>>
    BY <1>5 DEF ConsumerFails, ConsumerUnanswered, Crash, keyVars
  <2>2. CASE ConsumerFails(r)
    <3>1. CASE Finish(r)
      BY <1>1, <2>1, <3>1 DEF Finish, FrameTypeOK
    <3>2. CASE /\ frame[r].pc = "list" /\ Goto(r, "addFirst")
      BY <1>1, <2>1, <3>2 DEF Goto, FrameTypeOK, FrameType
    <3>3. CASE \/ frame[r].pc = "emit" /\ Goto(r, "sum")
               \/ frame[r].pc = "sum" /\ Goto(r, "set")
      BY <1>1, <2>1, <3>3 DEF Goto, FrameTypeOK, FrameType
    <3> QED
      BY <2>2, <3>1, <3>2, <3>3 DEF ConsumerFails
  <2>3. CASE ConsumerUnanswered(r) \/ Crash(r)
    BY <1>1, <2>1, <2>3 DEF ConsumerUnanswered, Crash, Finish, FrameTypeOK
  <2> QED
    BY <1>5, <2>2, <2>3
<1>6. ASSUME \/ \E r \in Replica : StartTick(r)
             \/ \E r \in Served, b \in BatchId : RequestClose(r, b)
             \/ \E c \in Closer : CloseStep(c) \/ CloserFails(c) \/ CloserUnanswered(c)
             \/ \E b \in BatchId : Age(b)
             \/ \E p \in Pair : CadenceExpires(p)
             \/ \E t \in Tx : KeyExpires(t)
             \/ UNCHANGED vars
      PROVE KnownInv'
  <2>1. frame' = frame /\ deliveries' = deliveries /\ txKey' \subseteq txKey
    BY <1>6 DEF StartTick, RequestClose, CloseStep, Scan, EndTick, Acquire, CheckOpen, SumForClose,
                CasClosed, HandOver, CloserFails, CloserUnanswered, Age, CadenceExpires, KeyExpires,
                vars, keyVars
  <2> QED
    BY <1>1, <2>1
<1> QED
  BY <1>2, <1>3, <1>4, <1>5, <1>6 DEF Next

LEMMA KnownInit == Init => KnownInv
BY DEF Init, KnownInv, At, NoFrame

\* The steps in which something goes wrong, and what the other threads leave alone.
Fault ==
  \/ \E r \in Replica, t \in Tx : ReceiveFails(r, t)
  \/ \E r \in Replica : ConsumerFails(r) \/ ConsumerUnanswered(r) \/ Crash(r)
  \/ \E c \in Closer : CloserFails(c) \/ CloserUnanswered(c)

Consumption == <<frame, member, deliveries, opened>>

LEMMA FaultsCounted ==
  ASSUME TypeOK, [Next]_vars
  PROVE  /\ faults \in Nat /\ faults' \in Nat /\ faults <= faults'
         /\ Fault => faults' = faults + 1
<1>1. faults \in Nat
  BY DEF TypeOK, StoreTypeOK
<1>2. Fault => faults' = faults + 1
  BY DEF Fault, ReceiveFails, ConsumerFails, ConsumerUnanswered, Crash, CloserFails, CloserUnanswered
<1>3. ~Fault => faults' = faults
  BY DEF Fault, Next, vars, Receive, Handle, CheckExists, FindOpen, InsertBatch, AddMember, ListMembers,
         EmitOpen, ReadTotal, WriteTotal, StartTick, RequestClose, CloseStep, Scan, EndTick, Acquire,
         CheckOpen, SumForClose, CasClosed, HandOver, Age, CadenceExpires, KeyExpires
<1> QED
  BY <1>1, <1>2, <1>3

LEMMA OthersConsumeNothing ==
  ASSUME [Next]_vars,
         ~\E r \in Replica, t \in Tx : Receive(r, t) \/ ReceiveFails(r, t),
         ~\E r \in Replica : Handle(r) \/ ConsumerFails(r) \/ ConsumerUnanswered(r) \/ Crash(r)
  PROVE  UNCHANGED Consumption
BY DEF Consumption, Next, vars, StartTick, RequestClose, CloseStep, Scan, EndTick, Acquire, CheckOpen,
       SumForClose, CasClosed, HandOver, CloserFails, CloserUnanswered, Age, CadenceExpires, KeyExpires

\* What one fault may add one element to, and nothing else adds to, is counted by faults.
LEMMA CountedByFaults ==
  ASSUME TypeOK, [Next]_vars, NEW S, NEW T, IsFiniteSet(S), Cardinality(S) <= faults,
         T \subseteq S \/ (Fault /\ \E x : T \subseteq S \cup {x})
  PROVE  IsFiniteSet(T) /\ Cardinality(T) <= faults'
<1>1. CASE T \subseteq S
  BY <1>1, SubsetCounts, FaultsCounted, FS_CardinalityType
<1>2. CASE Fault /\ \E x : T \subseteq S \cup {x}
  <2>1. PICK x : T \subseteq S \cup {x}
    BY <1>2
  <2>2. IsFiniteSet(T) /\ Cardinality(T) <= Cardinality(S) + 1
    BY <2>1, OneMoreCounts
  <2> QED
    BY <1>2, <2>2, FaultsCounted, FS_CardinalityType
<1> QED
  BY <1>1, <1>2

\* Whom a consumer's fault can concern: the event and the batch it was working on.
LEMMA OneConsumerFails ==
  ASSUME TypeOK, NEW r \in Replica, ConsumerFails(r) \/ ConsumerUnanswered(r) \/ Crash(r)
  PROVE  /\ \A s \in Replica : s # r => frame'[s] = frame[s]
         /\ UNCHANGED <<deliveries, opened>>
         /\ \A b \in BatchId : b # frame[r].batch => Members(b)' \subseteq Members(b)
  <1>1. /\ \A s \in Replica : s # r => frame'[s] = frame[s]
        /\ UNCHANGED <<deliveries, opened>>
    BY DEF ConsumerFails, ConsumerUnanswered, Crash, Finish, Goto, TypeOK, FrameTypeOK
  <1>2. UNCHANGED member \/ member' = [member EXCEPT ![frame[r].tx] = frame[r].batch]
    BY DEF ConsumerFails, ConsumerUnanswered, Crash, Join
  <1>3. \A b \in BatchId : b # frame[r].batch => Members(b)' \subseteq Members(b)
    BY <1>2 DEF Members, TypeOK, StoreTypeOK
  <1> QED
    BY <1>1, <1>3

LEMMA LostCases ==
  ASSUME TypeOK, KnownInv, [Next]_vars
  PROVE  Lost' \subseteq Lost \/ (Fault /\ \E u : Lost' \subseteq Lost \cup {u})
<1> USE DEF TypeOK, FrameTypeOK
<1>0. ASSUME NEW t \in Lost', t \notin Lost
      PROVE  /\ t \in Tx /\ member[t] = None /\ deliveries'[t] > 0
             /\ ~\E s \in Replica : frame'[s].tx = t
             /\ deliveries[t] > 0 => \E s \in Replica : frame[s].tx = t
  BY <1>0, MembersOnlyAdded DEF Lost, Handling, MembersStay
<1>1. ASSUME NEW r \in Replica, NEW u \in Tx, Receive(r, u)
      PROVE  Lost' \subseteq Lost
  <2> SUFFICES ASSUME NEW t \in Lost', t \notin Lost PROVE FALSE
    OBVIOUS
  <2>1. /\ deliveries' = [deliveries EXCEPT ![u] = @ + 1]
        /\ u \in txKey => deliveries[u] > 0
    BY <1>1 DEF Receive, KnownInv
  <2>2. CASE u = t /\ u \notin txKey
    BY <1>0, <1>1, <2>2 DEF Receive, NoFrame
  <2>3. CASE u # t \/ u \in txKey
    <3>1. deliveries[t] > 0
      BY <1>0, <2>1, <2>3 DEF StoreTypeOK
    <3>2. PICK s \in Replica : frame[s].tx = t
      BY <1>0, <3>1
    <3>3. s # r
      BY <1>0, <1>1, <3>2, NoneAssumption DEF Receive, KnownInv
    <3> QED
      BY <1>0, <1>1, <3>2, <3>3 DEF Receive
  <2> QED
    BY <2>2, <2>3
<1>2. ASSUME NEW r \in Replica, NEW u \in Tx, ReceiveFails(r, u)
      PROVE  Lost' \subseteq Lost \cup {u}
  BY <1>2, <1>0 DEF ReceiveFails, StoreTypeOK
<1>3. ASSUME NEW r \in Replica, Handle(r)
      PROVE  Lost' \subseteq Lost
  <2> SUFFICES ASSUME NEW t \in Lost', t \notin Lost PROVE FALSE
    OBVIOUS
  <2>1. deliveries' = deliveries
    BY <1>3 DEF Handle, CheckExists, FindOpen, InsertBatch, ListMembers, AddMember, EmitOpen, ReadTotal,
                WriteTotal
  <2>2. PICK s \in Replica : frame[s].tx = t
    BY <1>0, <2>1
  <2>3. CASE CheckExists(r) /\ member[frame[r].tx] # None
    BY <1>0, <2>2, <2>3 DEF CheckExists, Finish
  <2>4. CASE WriteTotal(r)
    BY <1>0, <2>2, <2>4 DEF WriteTotal, At, KnownInv, Finish
  <2>5. CASE /\ ~(CheckExists(r) /\ member[frame[r].tx] # None) /\ ~WriteTotal(r)
    <3>1. CASE CheckExists(r) /\ member[frame[r].tx] = None
      BY <1>0, <2>2, <3>1 DEF CheckExists, Goto, FrameType
    <3>2. CASE FindOpen(r) \/ InsertBatch(r)
      BY <1>0, <2>2, <3>2 DEF FindOpen, InsertBatch, Goto, FrameType
    <3>3. CASE ListMembers(r) \/ AddMember(r) \/ EmitOpen(r) \/ ReadTotal(r)
      BY <1>0, <2>2, <3>3 DEF ListMembers, AddMember, EmitOpen, ReadTotal, Goto, FrameType
    <3> QED
      BY <1>3, <2>5, <3>1, <3>2, <3>3 DEF Handle
  <2> QED
    BY <2>3, <2>4, <2>5
<1>4. ASSUME NEW r \in Replica, ConsumerFails(r) \/ ConsumerUnanswered(r) \/ Crash(r)
      PROVE  Lost' \subseteq Lost \cup {frame[r].tx}
  BY <1>0, <1>4, OneConsumerFails
<1>5. ASSUME UNCHANGED Consumption
      PROVE  Lost' \subseteq Lost
  BY <1>5 DEF Consumption, Lost, Handling
<1> QED
  BY <1>1, <1>2, <1>3, <1>4, <1>5, OthersConsumeNothing DEF Fault

\* LossPerFault for any number of replicas, replays and expired keys: the tx key, marked
\* before anything is stored, hides at most one event per fault from every later replay.
THEOREM EventsKept == Spec => []LossPerFault
<1> DEFINE LostInv == IsFiniteSet(Lost) /\ Cardinality(Lost) <= faults
<1>1. Init => LostInv
  <2>1. Init => Lost = {} /\ faults = 0
    BY DEF Init, Lost
  <2> QED
    BY <2>1, FS_EmptySet
<1>2. TypeOK /\ KnownInv /\ LostInv /\ [Next]_vars => KnownInv' /\ LostInv'
  BY KnownStep, LostCases, CountedByFaults
<1>3. LostInv => LossPerFault
  BY DEF LossPerFault
<1> QED
  BY <1>1, <1>2, <1>3, KnownInit, TypeCorrect, PTL DEF Spec

\* A batch that becomes unaudited was empty or being announced until this step.
LEMMA UnauditedCases ==
  ASSUME TypeOK, KnownInv, [Next]_vars
  PROVE  Unaudited' \subseteq Unaudited \/ (Fault /\ \E d : Unaudited' \subseteq Unaudited \cup {d})
<1> USE DEF TypeOK, FrameTypeOK
<1>0. ASSUME NEW b \in Unaudited', b \notin Unaudited, opened \subseteq opened'
      PROVE  /\ b \in BatchId /\ Members(b)' # {} /\ b \notin opened'
             /\ ~\E s \in Replica : frame'[s].pc = "emit" /\ frame'[s].batch = b
             /\ Members(b) # {} => \E s \in Replica : frame[s].pc = "emit" /\ frame[s].batch = b
  BY <1>0 DEF Unaudited, Emitting, At
<1>1. ASSUME NEW r \in Replica, Handle(r)
      PROVE  Unaudited' \subseteq Unaudited
  <2> SUFFICES ASSUME NEW b \in Unaudited', b \notin Unaudited PROVE FALSE
    OBVIOUS
  <2>1. opened \subseteq opened' /\ \A s \in Replica : s # r => frame'[s] = frame[s]
    BY <1>1 DEF Handle, CheckExists, FindOpen, InsertBatch, ListMembers, AddMember, EmitOpen, ReadTotal,
                WriteTotal, Goto, Finish
  <2>2. CASE EmitOpen(r)
    <3>1. opened' = opened \cup {frame[r].batch} /\ member' = member
      BY <2>2 DEF EmitOpen
    <3> QED
      BY <1>0, <2>1, <3>1 DEF Members
  <2>3. CASE AddMember(r)
    <3>1. /\ frame[r].tx \in Tx /\ frame[r].batch \in BatchId /\ frame[r].pc # "emit"
          /\ member' = member \/ member' = [member EXCEPT ![frame[r].tx] = frame[r].batch]
      BY <2>3 DEF AddMember, At, Join
    <3>2. b # frame[r].batch => Members(b)' = {} \/ Members(b) # {}
      BY <3>1 DEF Members, StoreTypeOK
    <3>3. CASE frame[r].pc = "addFirst"
      <4>1. frame'[r].pc = "emit" /\ frame'[r].batch = frame[r].batch
        BY <2>3, <3>3 DEF AddMember, At, Goto, FrameType
      <4> QED
        BY <1>0, <2>1, <3>1, <3>2, <4>1
    <3>4. CASE frame[r].pc = "add"
      <4>1. Members(frame[r].batch) # {}
        BY <3>4 DEF KnownInv, At, Members
      <4> QED
        BY <1>0, <2>1, <3>1, <3>2, <4>1
    <3> QED
      BY <2>3, <3>3, <3>4 DEF AddMember, At
  <2>4. CASE ~EmitOpen(r) /\ ~AddMember(r)
    <3>1. member' = member /\ frame[r].pc # "emit"
      BY <1>1, <2>4 DEF Handle, CheckExists, FindOpen, InsertBatch, InsertRow, ListMembers, ReadTotal,
                          WriteTotal, At
    <3> QED
      BY <1>0, <2>1, <3>1 DEF Members
  <2> QED
    BY <2>2, <2>3, <2>4
<1>2. ASSUME NEW r \in Replica, NEW t \in Tx, Receive(r, t) \/ ReceiveFails(r, t)
      PROVE  Unaudited' \subseteq Unaudited
  <2>1. /\ UNCHANGED <<member, opened>>
        /\ \A s \in Replica : frame[s].pc = "emit" => frame'[s] = frame[s]
    BY <1>2 DEF Receive, ReceiveFails, At
  <2> QED
    BY <1>0, <2>1 DEF Members
<1>3. ASSUME NEW r \in Replica, ConsumerFails(r) \/ ConsumerUnanswered(r) \/ Crash(r)
      PROVE  Unaudited' \subseteq Unaudited \cup {frame[r].batch}
  <2> SUFFICES ASSUME NEW b \in Unaudited', b \notin Unaudited, b # frame[r].batch PROVE FALSE
    OBVIOUS
  <2>1. /\ opened' = opened /\ Members(b)' \subseteq Members(b)
        /\ \A s \in Replica : s # r => frame'[s] = frame[s]
    BY <1>3, OneConsumerFails DEF Unaudited
  <2> QED
    BY <1>0, <2>1
<1>4. ASSUME UNCHANGED Consumption
      PROVE  Unaudited' \subseteq Unaudited
  BY <1>4 DEF Consumption, Unaudited, Emitting, At, Members
<1> QED
  BY <1>1, <1>2, <1>3, <1>4, OthersConsumeNothing DEF Fault

\* OpenAudited for any number of replicas and replays: whichever member comes first,
\* somebody who found the batch empty appends its batch.open entry, but for one per fault.
THEOREM OpeningsAudited == Spec => []OpenAudited
<1> DEFINE AuditInv == IsFiniteSet(Unaudited) /\ Cardinality(Unaudited) <= faults
<1>1. Init => AuditInv
  <2>1. Init => Unaudited = {} /\ faults = 0
    BY NoneAssumption DEF Init, Unaudited, Members
  <2> QED
    BY <2>1, FS_EmptySet
<1>2. TypeOK /\ KnownInv /\ AuditInv /\ [Next]_vars => KnownInv' /\ AuditInv'
  BY KnownStep, UnauditedCases, CountedByFaults
<1>3. AuditInv => OpenAudited
  BY DEF OpenAudited
<1> QED
  BY <1>1, <1>2, <1>3, KnownInit, TypeCorrect, PTL DEF Spec

-------------------------------------------------------------------------------
(* An order misses a member only when a handler and a close of the same      *)
(* batch overlap: the handler found the batch open, the close sums, closes   *)
(* and hands over, and the member or the rolling total arrives too late.     *)

Holding(r) == frame[r].pc \in {"list", "addFirst", "add", "emit", "sum", "set"}
Overlap(r, c) ==
  Holding(r) /\ closing[c].pc \in {"sum", "cas", "handover"} /\ frame[r].batch = closing[c].batch
NoOverlap == \A r \in Replica, c \in Closer : ~Overlap(r, c)

CoverInv == faults = 0 =>
  /\ \A r \in Replica : Holding(r) => status[frame[r].batch] = "OPEN"
  /\ \A c \in Closer : closing[c].pc = "cas" => closing[c].sum = Members(closing[c].batch)
  /\ \A b \in BatchId : status[b] = "CLOSED" => Members(b) \subseteq notional[b]
  /\ \A b \in ordered : status[b] = "CLOSED" /\ Members(b) \subseteq order[b]

LEMMA CoverStep ==
  ASSUME TypeOK, CloseOnceInv, NoOverlap, CoverInv, [Next]_vars
  PROVE  CoverInv'
<1> SUFFICES ASSUME faults' = 0 PROVE CoverInv'
  BY DEF CoverInv
<1> USE DEF TypeOK, StoreTypeOK
<1>0. /\ faults = 0 /\ ~Fault
      /\ \A r \in Replica : Holding(r) => frame[r].batch \in BatchId /\ frame[r].tx \in Tx
      /\ \A c \in Closer : closing[c].pc \notin {"idle", "scan"} => closing[c].batch \in BatchId
  BY FaultsCounted DEF FrameTypeOK, At, Holding, ClosingTypeOK
<1>1. /\ \A r \in Replica : Holding(r) => status[frame[r].batch] = "OPEN"
      /\ \A c \in Closer : closing[c].pc = "cas" => closing[c].sum = Members(closing[c].batch)
      /\ \A b \in BatchId : status[b] = "CLOSED" => Members(b) \subseteq notional[b]
      /\ \A b \in ordered : status[b] = "CLOSED" /\ Members(b) \subseteq order[b]
  BY <1>0 DEF CoverInv
<1>2. ASSUME UNCHANGED <<status, notional, member, order, ordered>>,
             \A r \in Replica : Holding(r)' =>
                \/ Holding(r) /\ frame'[r].batch = frame[r].batch
                \/ status[frame'[r].batch] = "OPEN",
             \A c \in Closer : closing'[c] = closing[c] \/ closing'[c].pc # "cas"
      PROVE  CoverInv'
  BY <1>1, <1>2 DEF CoverInv, Members
<1>3. ASSUME NEW r \in Replica, NEW t \in Tx, Receive(r, t) PROVE CoverInv'
  <2>1. \A s \in Replica : frame'[s] = frame[s] \/ frame'[s].pc = "exists"
    BY <1>3 DEF Receive, NoFrame, FrameTypeOK
  <2> QED
    BY <1>2, <1>3, <2>1 DEF Receive, Holding, batchVars, orderVars
<1>4. ASSUME NEW r \in Replica, CheckExists(r) \/ ListMembers(r) \/ EmitOpen(r) \/ ReadTotal(r)
      PROVE  CoverInv'
  <2>1. \A s \in Replica : \/ frame'[s] = frame[s]
                           \/ frame'[s].pc \in {"idle", "open"}
                           \/ Holding(s) /\ frame'[s].batch = frame[s].batch
    <3>1. CASE CheckExists(r)
      <4>1. frame' = [frame EXCEPT ![r].pc = "open"] \/ frame' = [frame EXCEPT ![r] = NoFrame]
        BY <3>1 DEF CheckExists, Goto, Finish
      <4>2. \A s \in Replica : frame'[s] = frame[s] \/ frame'[s].pc \in {"idle", "open"}
        BY <4>1 DEF NoFrame, FrameTypeOK, FrameType
      <4> QED
        BY <4>2
    <3>2. CASE ListMembers(r) \/ EmitOpen(r) \/ ReadTotal(r)
      BY <3>2 DEF ListMembers, EmitOpen, ReadTotal, At, Goto, Holding, FrameTypeOK, FrameType
    <3> QED
      BY <1>4, <3>1, <3>2
  <2> QED
    BY <1>2, <1>4, <2>1 DEF CheckExists, ListMembers, EmitOpen, ReadTotal, Holding, batchVars, orderVars
<1>5. ASSUME NEW r \in Replica, FindOpen(r) PROVE CoverInv'
  <2>1. \A s \in Replica : \/ frame'[s] = frame[s]
                           \/ frame'[s].pc = "insert"
                           \/ status[frame'[s].batch] = "OPEN"
    BY <1>5 DEF FindOpen, OpenFor, Open, Goto, FrameTypeOK, FrameType
  <2> QED
    BY <1>2, <1>5, <2>1 DEF FindOpen, Holding, batchVars, orderVars
<1>6. ASSUME NEW r \in Replica, InsertBatch(r) PROVE CoverInv'
  <2>1. PICK b \in BatchId : /\ status[b] = "NONE" /\ status' = [status EXCEPT ![b] = "OPEN"]
                             /\ frame' = [frame EXCEPT ![r].pc = "list", ![r].batch = b]
    BY <1>6 DEF InsertBatch, InsertRow
  <2>2. UNCHANGED <<notional, member, order, ordered, closing>>
    BY <1>6 DEF InsertBatch, orderVars
  <2>3. \A s \in Replica : frame'[s] = frame[s] \/ frame'[s].batch = b
    BY <2>1 DEF FrameTypeOK, FrameType
  <2>4. \A s \in Replica : Holding(s)' => status'[frame'[s].batch] = "OPEN"
    BY <1>0, <1>1, <2>1, <2>3 DEF Holding
  <2>5. \A d \in BatchId : status'[d] = "CLOSED" <=> status[d] = "CLOSED"
    BY <2>1
  <2> QED
    BY <1>1, <2>2, <2>4, <2>5 DEF CoverInv, Members
<1>7. ASSUME NEW r \in Replica, AddMember(r) PROVE CoverInv'
  <2> DEFINE b == frame[r].batch
  <2>1. Holding(r) /\ b \in BatchId /\ status[b] = "OPEN"
    BY <1>0, <1>1, <1>7 DEF AddMember, At, Holding
  <2>2. /\ UNCHANGED <<status, notional, order, ordered, closing>>
        /\ member' = member \/ member' = [member EXCEPT ![frame[r].tx] = b]
    BY <1>7 DEF AddMember, Join, batchVars, orderVars
  <2>3. \A d \in BatchId : d # b => Members(d)' \subseteq Members(d)
    BY <2>2 DEF Members
  <2>4. \A c \in Closer : closing[c].pc = "cas" => closing[c].batch # b
    BY <2>1 DEF NoOverlap, Overlap
  <2>5. \A s \in Replica : \/ frame'[s] = frame[s]
                           \/ Holding(s) /\ frame'[s].batch = frame[s].batch
    BY <1>7 DEF AddMember, At, Goto, Holding, FrameTypeOK, FrameType
  <2>6. \A s \in Replica : Holding(s)' => status'[frame'[s].batch] = "OPEN"
    BY <1>1, <2>2, <2>5 DEF Holding
  <2>7. \A d \in BatchId : Members(d) \subseteq Members(d)'
    BY MembersGrow
  <2>8. \A c \in Closer : closing'[c].pc = "cas" => closing'[c].sum = {t \in Tx : member'[t] = closing'[c].batch}
    <3> SUFFICES ASSUME NEW c \in Closer, closing[c].pc = "cas"
                 PROVE  closing[c].sum = {t \in Tx : member'[t] = closing[c].batch}
      BY <2>2
    <3>1. PICK d \in BatchId : d = closing[c].batch /\ d # b
      BY <1>0, <2>4
    <3>2. Members(d)' = Members(d)
      BY <2>3, <2>7, <3>1
    <3> QED
      BY <1>1, <3>1, <3>2 DEF Members
  <2>9. \A d \in BatchId : status'[d] = "CLOSED" => Members(d)' \subseteq notional'[d]
    BY <1>1, <2>1, <2>2, <2>3
  <2>10. \A d \in ordered' : status'[d] = "CLOSED" /\ Members(d)' \subseteq order'[d]
    BY <1>1, <2>1, <2>2, <2>3
  <2> QED
    BY <2>6, <2>8, <2>9, <2>10 DEF CoverInv, Members
<1>8. ASSUME NEW r \in Replica, WriteTotal(r) PROVE CoverInv'
  <2>1. frame[r].batch \in BatchId /\ status[frame[r].batch] = "OPEN"
    BY <1>0, <1>1, <1>8 DEF WriteTotal, At, Holding
  <2>2. /\ UNCHANGED <<status, member, order, ordered, closing>>
        /\ notional' = [notional EXCEPT ![frame[r].batch] = frame[r].sum]
        /\ \A s \in Replica : frame'[s] = frame[s] \/ frame'[s].pc = "idle"
    BY <1>8 DEF WriteTotal, Finish, NoFrame, FrameTypeOK, orderVars
  <2>3. \A d \in BatchId : status[d] = "CLOSED" => notional'[d] = notional[d]
    BY <2>1, <2>2
  <2> QED
    BY <1>1, <2>2, <2>3 DEF CoverInv, Holding, Members
<1>9. ASSUME NEW c \in Closer, SumForClose(c) PROVE CoverInv'
  <2>1. \A d \in Closer : \/ closing'[d] = closing[d]
                          \/ closing'[d].sum = Members(closing'[d].batch)
    BY <1>9 DEF SumForClose, AfterSum, ClosingTypeOK, ClosingType
  <2>2. UNCHANGED <<status, notional, member, order, ordered, frame>>
    BY <1>9 DEF SumForClose, batchVars, orderVars
  <2> QED
    BY <1>1, <2>1, <2>2 DEF CoverInv, Holding, Members
<1>10. ASSUME NEW c \in Closer, CasClosed(c) PROVE CoverInv'
  <2> DEFINE b == closing[c].batch
  <2>1. /\ b \in BatchId /\ closing[c].pc = "cas"
        /\ UNCHANGED <<member, order, ordered, frame>>
        /\ \A d \in Closer : closing'[d] = closing[d] \/ closing'[d].pc # "cas"
    BY <1>0, <1>10, AfterCloseTyped DEF CasClosed, ClosingAt, CloseGoto, CloseReturns, ClosingTypeOK,
                                        ClosingType, orderVars
  <2>2. CASE CloseRow(c)
    <3>1. /\ status[b] = "OPEN"
          /\ status' = [status EXCEPT ![b] = "CLOSED"] /\ notional' = [notional EXCEPT ![b] = Members(b)]
      BY <1>1, <2>1, <2>2 DEF CloseRow, StillOpen
    <3>2. \A r \in Replica : Holding(r) => frame[r].batch # b
      BY <2>1 DEF NoOverlap, Overlap
    <3>3. \A r \in Replica : Holding(r) => status'[frame[r].batch] = "OPEN"
      BY <1>0, <1>1, <3>1, <3>2
    <3>4. \A d \in BatchId : status'[d] = "CLOSED" => Members(d) \subseteq notional'[d]
      BY <1>1, <3>1
    <3>5. \A d \in ordered : status'[d] = "CLOSED" /\ Members(d) \subseteq order[d]
      BY <1>1, <3>1
    <3> QED
      BY <1>1, <2>1, <3>3, <3>4, <3>5 DEF CoverInv, Holding, Members
  <2>3. CASE UNCHANGED <<status, notional>>
    BY <1>2, <2>1, <2>3 DEF Holding
  <2> QED
    BY <1>10, <2>2, <2>3 DEF CasClosed
<1>11. ASSUME NEW c \in Closer, HandOver(c) PROVE CoverInv'
  <2>1. PICK b \in BatchId : b = closing[c].batch /\ status[b] = "CLOSED"
    BY <1>0, <1>11 DEF HandOver, ClosingAt, CloseOnceInv
  <2>2. /\ UNCHANGED <<status, notional, member, frame>>
        /\ ordered' = ordered \cup {b}
        /\ order' = IF b \in ordered THEN order ELSE [order EXCEPT ![b] = notional[b]]
    BY <1>11, <2>1 DEF HandOver, batchVars
  <2>3. \A d \in Closer : closing'[d] = closing[d] \/ closing'[d].pc # "cas"
    BY <1>11, AfterCloseTyped DEF HandOver, CloseReturns, ClosingTypeOK
  <2>4. \A d \in ordered' : status[d] = "CLOSED" /\ Members(d) \subseteq order'[d]
    BY <1>1, <2>1, <2>2
  <2> QED
    BY <1>1, <2>2, <2>3, <2>4 DEF CoverInv, Holding, Members
<1>12. ASSUME NEW c \in Closer, Scan(c) \/ EndTick(c) \/ Acquire(c) \/ CheckOpen(c)
       PROVE  CoverInv'
  <2>1. \A d \in Closer : closing'[d] = closing[d] \/ closing'[d].pc # "cas"
    BY <1>12, AfterCloseTyped DEF Scan, EndTick, Acquire, CheckOpen, CloseGoto, CloseReturns, NoClose,
                                  ClosingTypeOK, ClosingType
  <2> QED
    BY <1>2, <1>12, <2>1 DEF Scan, EndTick, Acquire, CheckOpen, Holding, batchVars, orderVars
<1>13. ASSUME \/ \E r \in Replica : StartTick(r)
              \/ \E r \in Served, b \in BatchId : RequestClose(r, b)
       PROVE  CoverInv'
  <2>1. \A d \in Closer : closing'[d] = closing[d] \/ closing'[d].pc # "cas"
    <3>1. ASSUME NEW r \in Replica, StartTick(r)
          PROVE  \A d \in Closer : closing'[d] = closing[d] \/ closing'[d].pc # "cas"
      BY <3>1, Closers DEF StartTick, ClosingTypeOK, ClosingType
    <3>2. ASSUME NEW r \in Served, NEW b \in BatchId, RequestClose(r, b)
          PROVE  \A d \in Closer : closing'[d] = closing[d] \/ closing'[d].pc # "cas"
      BY <3>2, Closers DEF RequestClose, ClosingTypeOK, ClosingType
    <3> QED
      BY <1>13, <3>1, <3>2
  <2> QED
    BY <1>2, <1>13, <2>1 DEF StartTick, RequestClose, Holding, batchVars, orderVars
<1>14. CASE \/ \E b \in BatchId : Age(b)
            \/ \E p \in Pair : CadenceExpires(p)
            \/ \E t \in Tx : KeyExpires(t)
            \/ UNCHANGED vars
  BY <1>2, <1>14 DEF Age, CadenceExpires, KeyExpires, Holding, vars, batchVars, orderVars
<1> QED
  BY <1>0, <1>3, <1>4, <1>5, <1>6, <1>7, <1>8, <1>9, <1>10, <1>11, <1>12, <1>13, <1>14
    DEF Next, Handle, CloseStep, Fault

\* Without faults the overlap NoOverlap excludes is the only way to OrderCoversMembers'
\* counterexample: where no handler works on a batch while a close sums, closes and hands
\* it over, every member is in the order, for any number of replicas.
THEOREM CoveredUnlessOverlapping == Spec /\ []NoOverlap => []OrderCoversMembers
<1>1. Init => CloseOnceInv /\ CoverInv
  BY DEF Init, CloseOnceInv, CoverInv, Holding, NoFrame, NoClose
<1>2. TypeOK /\ CloseOnceInv /\ CoverInv /\ NoOverlap /\ [Next]_vars => CloseOnceInv' /\ CoverInv'
  BY CloseOnceStep, CoverStep
<1>3. TypeOK /\ CoverInv => OrderCoversMembers
  BY DEF TypeOK, StoreTypeOK, CoverInv, OrderCoversMembers, Members
<1> QED
  BY <1>1, <1>2, <1>3, TypeCorrect, PTL DEF Spec
===============================================================================
