----------------------------- MODULE Outbox_proofs ----------------------------
(***************************************************************************)
(* The outbox for any number of dispatchers, any entries and any limit:    *)
(* an entry leaves the pending list only when ledger and audit log have    *)
(* it.                                                                     *)
(***************************************************************************)
EXTENDS Outbox, WellFoundedInduction, FiniteSetTheorems, TLAPS

\* A list of something is not empty: the least id is on it, whatever the limit.
LEMMA FirstOfNonempty ==
    ASSUME NEW S \in SUBSET Entry, S # {}
    PROVE  FirstOf(S) # {} /\ FirstOf(S) \subseteq S
<1>1. S \subseteq Nat
  BY EntryAssumption
<1>2. PICK m \in S : \A n \in S : ~(n < m)
  <2> DEFINE less == {p \in Nat \X Nat : p[1] < p[2]}
  <2>1. IsWellFoundedOn(less, Nat)
    BY NatLessThanWellFounded DEF OpToRel
  <2>2. \A x, y \in Nat : x < y => <<x, y>> \in less
    OBVIOUS
  <2> HIDE DEF less
  <2>3. PICK m \in S : \A n \in S : <<n, m>> \notin less
    BY <1>1, <2>1, WFMin
  <2> QED
    BY <1>1, <2>2, <2>3
<1>3. {f \in S : f < m} = {}
  BY <1>2
<1>4. m \in FirstOf(S)
  BY <1>3, FS_EmptySet, LimitAssumption DEF FirstOf
<1> QED
  BY <1>4 DEF FirstOf

\* Continuing keeps the list a part of the old one, and idle dispatchers' lists empty.
LEMMA ContinueTyped ==
    ASSUME TypeOK, NEW d \in Dispatcher, NEW e \in Entry, Continue(d, e)
    PROVE  /\ pc' \in [Dispatcher -> {"idle", "post", "audit", "mark"}]
           /\ todo' \in [Dispatcher -> SUBSET appended]
           /\ \A x \in Dispatcher : pc'[x] = "idle" <=> todo'[x] = {}
           /\ pc'[d] \in {"idle", "post"}
           /\ \A x \in Dispatcher \ {d} : pc'[x] = pc[x] /\ todo'[x] = todo[x]
BY DEF TypeOK, Continue, RestOf

LEMMA GotoTyped ==
    ASSUME TypeOK, NEW d \in Dispatcher, pc[d] # "idle",
           NEW there \in {"audit", "mark"}, Goto(d, there)
    PROVE  /\ pc' \in [Dispatcher -> {"idle", "post", "audit", "mark"}]
           /\ todo' = todo
           /\ \A x \in Dispatcher : pc'[x] = "idle" <=> todo'[x] = {}
           /\ \A x \in Dispatcher \ {d} : pc'[x] = pc[x]
           /\ pc'[d] = there
BY DEF TypeOK, Goto

\* An entry somebody works on is a row of the table.
LEMMA CurrentIsRow ==
    ASSUME TypeOK, NEW d \in Dispatcher, NEW e \in Entry, Current(d, e)
    PROVE  e \in appended
BY DEF TypeOK, Current

\* Type correctness of the outbox, its dispatchers and what downstream has seen.
THEOREM TypeCorrect == Spec => []TypeOK
<1>1. Init => TypeOK
  BY FaultsAssumption DEF Init, TypeOK
<1>2. TypeOK /\ [Next]_vars => TypeOK'
  <2> SUFFICES ASSUME TypeOK, [Next]_vars
               PROVE  TypeOK'
    OBVIOUS
  <2>1. ASSUME NEW e \in Entry, Append(e)
        PROVE  TypeOK'
    BY <2>1 DEF Append, TypeOK
  <2>2. ASSUME NEW d \in Dispatcher, List(d)
        PROVE  TypeOK'
    <3>1. FirstOf(Pending) # {} /\ FirstOf(Pending) \subseteq appended
      BY <2>2, FirstOfNonempty DEF TypeOK, List, Pending
    <3> QED
      BY <2>2, <3>1 DEF List, TypeOK
  <2>3. ASSUME NEW d \in Dispatcher, NEW e \in Entry, Post(d, e)
        PROVE  TypeOK'
    <3>1. e \in appended /\ pc[d] # "idle"
      BY <2>3, CurrentIsRow DEF Post, At
    <3>2. CASE Refuses(e)
      BY <2>3, <3>2, ContinueTyped DEF Post, OnError, TypeOK
    <3>3. CASE ~Refuses(e)
      BY <2>3, <3>1, <3>3, GotoTyped DEF Post, LedgerTakes, TypeOK
    <3> QED
      BY <3>2, <3>3
  <2>4. ASSUME NEW d \in Dispatcher, NEW e \in Entry, Audit(d, e)
        PROVE  TypeOK'
    <3>1. e \in appended /\ pc[d] # "idle"
      BY <2>4, CurrentIsRow DEF Audit, At
    <3> QED
      BY <2>4, <3>1, GotoTyped DEF Audit, TypeOK
  <2>5. ASSUME NEW d \in Dispatcher, NEW e \in Entry, MarkEmitted(d, e)
        PROVE  TypeOK'
    <3>1. e \in appended
      BY <2>5, CurrentIsRow DEF MarkEmitted, At
    <3> QED
      BY <2>5, <3>1, ContinueTyped DEF MarkEmitted, TypeOK
  <2>6. ASSUME NEW d \in Dispatcher, NEW e \in Entry, CallFails(d, e)
        PROVE  TypeOK'
    <3>1. e \in appended
      BY <2>6, CurrentIsRow DEF CallFails, At
    <3> QED
      BY <2>6, <3>1, ContinueTyped DEF CallFails, OnError, LedgerTakes, TypeOK
  <2>7. ASSUME NEW d \in Dispatcher, Crash(d)
        PROVE  TypeOK'
    BY <2>7 DEF Crash, TypeOK
  <2>8. CASE UNCHANGED vars
    BY <2>8 DEF vars, TypeOK
  <2> QED
    BY <2>1, <2>2, <2>3, <2>4, <2>5, <2>6, <2>7, <2>8 DEF Next, Dispatch
<1> QED
  BY <1>1, <1>2, PTL DEF Spec

\* What a dispatcher has behind it when it is about to audit or to mark an entry.
Behind ==
    \A d \in Dispatcher, e \in Entry :
        /\ At(d, e, "audit") => e \in posted
        /\ At(d, e, "mark") => e \in audited

\* An entry leaves the pending list only when the ledger and the audit log have it,
\* and the audit log never runs ahead of the ledger.
THEOREM EmittedOnlyDelivered == Spec => []EmittedIsDelivered
<1> DEFINE Inv == EmittedIsDelivered /\ Behind
<1> USE DEF EmittedIsDelivered
<1>1. Init => Inv
  BY DEF Init, Behind, At
<1>2. TypeOK /\ Inv /\ [Next]_vars => Inv'
  <2> SUFFICES ASSUME TypeOK, Inv, [Next]_vars
               PROVE  Inv'
    OBVIOUS
  <2>1. ASSUME NEW e \in Entry, Append(e)
        PROVE  Inv'
    BY <2>1 DEF Append, Behind, At, Current
  <2>2. ASSUME NEW d \in Dispatcher, List(d)
        PROVE  Inv'
    BY <2>2 DEF List, Behind, At, Current, TypeOK
  <2>3. ASSUME NEW d \in Dispatcher, NEW e \in Entry, Post(d, e)
        PROVE  Inv'
    <3>1. CASE Refuses(e)
      BY <2>3, <3>1, ContinueTyped DEF Post, OnError, Behind, At, Current
    <3>2. CASE ~Refuses(e)
      BY <2>3, <3>2, GotoTyped, EntryAssumption DEF Post, LedgerTakes, Behind, At, Current
    <3> QED
      BY <3>1, <3>2
  <2>4. ASSUME NEW d \in Dispatcher, NEW e \in Entry, Audit(d, e)
        PROVE  Inv'
    BY <2>4, GotoTyped, EntryAssumption DEF Audit, Behind, At, Current
  <2>5. ASSUME NEW d \in Dispatcher, NEW e \in Entry, MarkEmitted(d, e)
        PROVE  Inv'
    BY <2>5, ContinueTyped DEF MarkEmitted, Behind, At, Current
  <2>6. ASSUME NEW d \in Dispatcher, NEW e \in Entry, CallFails(d, e)
        PROVE  Inv'
    BY <2>6, ContinueTyped DEF CallFails, OnError, LedgerTakes, Behind, At, Current
  <2>7. ASSUME NEW d \in Dispatcher, Crash(d)
        PROVE  Inv'
    BY <2>7 DEF Crash, Behind, At, Current, TypeOK
  <2>8. CASE UNCHANGED vars
    BY <2>8 DEF vars, Behind, At, Current
  <2> QED
    BY <2>1, <2>2, <2>3, <2>4, <2>5, <2>6, <2>7, <2>8 DEF Next, Dispatch
<1> QED
  BY <1>1, <1>2, TypeCorrect, PTL DEF Spec

-------------------------------------------------------------------------------
(* How often an entry is posted.                                           *)

\* The dispatchers that posted e from the list they work on, or have it behind them.
Did(e) ==
    {d \in Dispatcher :
        At(d, e, "audit") \/ At(d, e, "mark") \/ (e \in emitted /\ e \notin todo[d])}

\* Each loop posts an entry once, but for those it was interrupted in.
OncePerLoop == \A e \in Entry : postings[e] <= Cardinality(Did(e)) + faults

\* What a step does to one entry: it is posted by a loop that had not yet, or it is
\* posted by a call that fails, or a loop that had posted it is interrupted.
Counts(e) ==
    /\ postings'[e] \in Nat /\ faults' \in Nat
    /\ \/ postings'[e] = postings[e] /\ faults' = faults /\ Did(e) \subseteq Did(e)'
       \/ postings'[e] = postings[e] + 1 /\ faults' = faults
          /\ \E d \in Dispatcher : d \notin Did(e) /\ Did(e) \cup {d} \subseteq Did(e)'
       \/ postings'[e] <= postings[e] + 1 /\ faults' = faults + 1 /\ Did(e) \subseteq Did(e)'
       \/ postings'[e] = postings[e] /\ faults' = faults + 1
          /\ \E d \in Dispatcher : Did(e) \ {d} \subseteq Did(e)'

LEMMA DidFinite ==
    ASSUME NEW S \in SUBSET Dispatcher
    PROVE  IsFiniteSet(S) /\ Cardinality(S) \in Nat
                          /\ Cardinality(S) <= Cardinality(Dispatcher)
BY DispatcherAssumption, FS_Subset, FS_CardinalityType

\* So that the bound is kept.
LEMMA CountsKeep ==
    ASSUME TypeOK, NEW e \in Entry, Counts(e), postings[e] <= Cardinality(Did(e)) + faults
    PROVE  postings'[e] <= Cardinality(Did(e)') + faults'
<1> DEFINE was == Did(e)
           is == Did(e)'
<1>1. /\ was \in SUBSET Dispatcher /\ is \in SUBSET Dispatcher
      /\ postings[e] \in Nat /\ faults \in Nat /\ postings'[e] \in Nat /\ faults' \in Nat
  BY DEF Did, TypeOK, Counts
<1>2. /\ IsFiniteSet(was) /\ IsFiniteSet(is)
      /\ Cardinality(was) \in Nat /\ Cardinality(is) \in Nat
  BY <1>1, DidFinite
<1>3. postings[e] <= Cardinality(was) + faults
  OBVIOUS
<1>4. \/ postings'[e] = postings[e] /\ faults' = faults /\ was \subseteq is
      \/ postings'[e] = postings[e] + 1 /\ faults' = faults
         /\ \E d \in Dispatcher : d \notin was /\ was \cup {d} \subseteq is
      \/ postings'[e] <= postings[e] + 1 /\ faults' = faults + 1 /\ was \subseteq is
      \/ postings'[e] = postings[e] /\ faults' = faults + 1
         /\ \E d \in Dispatcher : was \ {d} \subseteq is
  BY DEF Counts
<1> HIDE DEF was, is
<1>5. CASE was \subseteq is /\ postings'[e] + faults <= postings[e] + faults'
  <2>1. Cardinality(was) <= Cardinality(is)
    BY <1>2, <1>5, FS_Subset
  <2> QED
    BY <1>1, <1>2, <1>3, <1>5, <2>1 DEF is
<1>6. ASSUME NEW d \in Dispatcher, d \notin was, was \cup {d} \subseteq is,
             postings'[e] = postings[e] + 1, faults' = faults
      PROVE  postings'[e] <= Cardinality(is) + faults'
  <2>1. IsFiniteSet(was \cup {d}) /\ Cardinality(was \cup {d}) = Cardinality(was) + 1
    BY <1>2, <1>6, FS_AddElement
  <2>2. Cardinality(was \cup {d}) <= Cardinality(is)
    BY <1>2, <1>6, FS_Subset
  <2> QED
    BY <1>1, <1>2, <1>3, <1>6, <2>1, <2>2
<1>7. ASSUME NEW d \in Dispatcher, was \ {d} \subseteq is,
             postings'[e] = postings[e], faults' = faults + 1
      PROVE  postings'[e] <= Cardinality(is) + faults'
  <2>1. /\ IsFiniteSet(was \ {d}) /\ Cardinality(was \ {d}) \in Nat
        /\ Cardinality(was) <= Cardinality(was \ {d}) + 1
    <3>1. IsFiniteSet(was \ {d})
      BY <1>2, FS_RemoveElement
    <3>2. Cardinality(was \ {d}) = IF d \in was THEN Cardinality(was) - 1 ELSE Cardinality(was)
      BY <1>2, FS_RemoveElement
    <3>3. Cardinality(was \ {d}) \in Nat
      BY <3>1, FS_CardinalityType
    <3> QED
      BY <1>2, <3>1, <3>2, <3>3
  <2>2. Cardinality(was \ {d}) <= Cardinality(is)
    BY <1>2, <1>7, FS_Subset
  <2> QED
    BY <1>1, <1>2, <1>3, <1>7, <2>1, <2>2
<1> QED
  BY <1>1, <1>4, <1>5, <1>6, <1>7 DEF is

\* A loop has one current entry.
LEMMA CurrentIsOne ==
    ASSUME TypeOK, NEW d \in Dispatcher, NEW e \in Entry, NEW f \in Entry,
           Current(d, e), Current(d, f)
    PROVE  e = f
<1>1. e \in Nat /\ f \in Nat /\ e <= f /\ f <= e
  BY EntryAssumption DEF Current
<1> QED
  BY <1>1

\* The other loops have done what they had, if emitted entries stay so and lists too.
LEMMA OthersDid ==
    ASSUME NEW d \in Dispatcher, NEW e \in Entry, emitted \subseteq emitted',
           \A x \in Dispatcher \ {d} : pc'[x] = pc[x] /\ todo'[x] = todo[x]
    PROVE  Did(e) \ {d} \subseteq Did(e)'
BY DEF Did, At, Current

LEMMA StepCounts ==
    ASSUME TypeOK, [Next]_vars, NEW e \in Entry
    PROVE  Counts(e)
<1> postings[e] \in Nat /\ faults \in Nat
  BY DEF TypeOK
<1>1. ASSUME NEW f \in Entry, Append(f)
      PROVE  Counts(e)
  BY <1>1 DEF Append, Counts, Did, At, Current
<1>2. ASSUME NEW d \in Dispatcher, List(d)
      PROVE  Counts(e)
  <2>1. Did(e) \subseteq Did(e)'
    <3>1. \A x \in Dispatcher \ {d} : pc'[x] = pc[x] /\ todo'[x] = todo[x]
      BY <1>2 DEF List, TypeOK
    <3>2. e \in emitted => e \notin todo'[d]
      BY <1>2 DEF List, TypeOK, FirstOf, Pending
    <3>3. d \in Did(e) => d \in Did(e)'
      BY <1>2, <3>2 DEF List, Did, At
    <3> QED
      BY <1>2, <3>1, <3>3, OthersDid DEF List
  <2> QED
    BY <1>2, <2>1 DEF List, Counts
<1>3. ASSUME NEW d \in Dispatcher, NEW f \in Entry, Continue(d, f),
             \A x \in Dispatcher \ {d} : pc'[x] = pc[x] /\ todo'[x] = todo[x],
             Current(d, f), emitted \subseteq emitted', e # f
      PROVE  Did(e) \subseteq Did(e)'
  <2>1. Did(e) \ {d} \subseteq Did(e)'
    BY <1>3, OthersDid
  <2>2. d \in Did(e) => e \in emitted /\ e \notin todo[d]
    BY <1>3, CurrentIsOne DEF Did, At
  <2>3. todo'[d] = todo[d] \ {f}
    BY <1>3 DEF Continue, RestOf, TypeOK
  <2> QED
    BY <1>3, <2>1, <2>2, <2>3 DEF Did
<1>4. ASSUME NEW d \in Dispatcher, NEW f \in Entry, At(d, f, "post"), Continue(d, f),
             \A x \in Dispatcher \ {d} : pc'[x] = pc[x] /\ todo'[x] = todo[x],
             emitted' = emitted
      PROVE  Did(e) \subseteq Did(e)'
  <2>1. CASE e # f
    BY <1>3, <1>4, <2>1 DEF At
  <2>2. CASE e = f
    <3>1. d \notin Did(e)
      BY <1>4, <2>2 DEF Did, At, Current
    <3> QED
      BY <1>4, <3>1, OthersDid
  <2> QED
    BY <2>1, <2>2
<1>5. ASSUME NEW d \in Dispatcher, NEW f \in Entry, Post(d, f)
      PROVE  Counts(e)
  <2>1. CASE Refuses(f)
    <3>1. UNCHANGED <<postings, faults, emitted>> /\ At(d, f, "post") /\ Continue(d, f)
      BY <1>5, <2>1 DEF Post, OnError
    <3> QED
      BY <3>1, <1>4, ContinueTyped DEF Counts
  <2>2. CASE ~Refuses(f)
    <3>1. /\ At(d, f, "post") /\ Goto(d, "audit") /\ LedgerTakes(f)
          /\ UNCHANGED <<emitted, faults>> /\ pc[d] # "idle"
      BY <1>5, <2>2 DEF Post, At
    <3>2. /\ todo' = todo /\ pc'[d] = "audit"
          /\ \A x \in Dispatcher \ {d} : pc'[x] = pc[x] /\ todo'[x] = todo[x]
      BY <3>1, GotoTyped
    <3>3. Did(e) \ {d} \subseteq Did(e)'
      BY <3>1, <3>2, OthersDid
    <3>4. CASE e # f
      <4>1. postings'[e] = postings[e]
        BY <3>1, <3>4 DEF LedgerTakes, TypeOK
      <4>2. d \in Did(e) => d \in Did(e)'
        BY <3>1, <3>2, <3>4, CurrentIsOne DEF Did, At
      <4> QED
        BY <3>1, <3>3, <4>1, <4>2 DEF Counts
    <3>5. CASE e = f
      <4>1. postings'[e] = postings[e] + 1
        BY <3>1, <3>5 DEF LedgerTakes, TypeOK
      <4>2. d \notin Did(e)
        BY <3>1, <3>5 DEF Did, At, Current
      <4>3. d \in Did(e)'
        BY <3>1, <3>2, <3>5 DEF Did, At, Current
      <4> QED
        BY <3>1, <3>3, <4>1, <4>2, <4>3 DEF Counts
    <3> QED
      BY <3>4, <3>5
  <2> QED
    BY <2>1, <2>2
<1>6. ASSUME NEW d \in Dispatcher, NEW f \in Entry, Audit(d, f)
      PROVE  Counts(e)
  <2>1. /\ At(d, f, "audit") /\ Goto(d, "mark")
        /\ UNCHANGED <<emitted, faults, postings>> /\ pc[d] # "idle"
    BY <1>6 DEF Audit, At
  <2>2. /\ todo' = todo /\ pc'[d] = "mark"
        /\ \A x \in Dispatcher \ {d} : pc'[x] = pc[x] /\ todo'[x] = todo[x]
    BY <2>1, GotoTyped
  <2>3. d \in Did(e) => d \in Did(e)'
    BY <2>1, <2>2 DEF Did, At, Current
  <2>4. Did(e) \ {d} \subseteq Did(e)'
    BY <2>1, <2>2, OthersDid
  <2> QED
    BY <2>1, <2>3, <2>4 DEF Counts
<1>7. ASSUME NEW d \in Dispatcher, NEW f \in Entry, MarkEmitted(d, f)
      PROVE  Counts(e)
  <2>1. /\ At(d, f, "mark") /\ Continue(d, f) /\ Current(d, f)
        /\ UNCHANGED <<faults, postings>> /\ emitted' = emitted \cup {f}
    BY <1>7 DEF MarkEmitted, At
  <2>2. Did(e) \ {d} \subseteq Did(e)'
    BY <2>1, ContinueTyped, OthersDid
  <2>3. CASE e = f
    <3>1. f \notin todo'[d] /\ f \in emitted'
      BY <2>1 DEF Continue, RestOf, TypeOK
    <3>2. d \in Did(e)'
      BY <2>3, <3>1 DEF Did
    <3> QED
      BY <2>1, <2>2, <3>2 DEF Counts
  <2>4. CASE e # f
    BY <2>1, <2>4, <1>3, ContinueTyped DEF Counts
  <2> QED
    BY <2>3, <2>4
<1>8. ASSUME NEW d \in Dispatcher, NEW f \in Entry, CallFails(d, f)
      PROVE  Counts(e)
  <2>1. faults' = faults + 1 /\ Continue(d, f) /\ emitted \subseteq emitted'
    BY <1>8 DEF CallFails, OnError
  <2>2. Did(e) \ {d} \subseteq Did(e)'
    BY <2>1, ContinueTyped, OthersDid
  <2>3. CASE At(d, f, "post")
    <3>1. emitted' = emitted /\ (LedgerTakes(f) \/ postings' = postings)
      BY <1>8, <2>3 DEF CallFails, At
    <3>2. postings'[e] \in Nat /\ postings'[e] <= postings[e] + 1
      BY <3>1 DEF LedgerTakes, TypeOK
    <3> QED
      BY <2>1, <2>3, <3>1, <3>2, <1>4, ContinueTyped DEF Counts
  <2>4. CASE ~At(d, f, "post")
    <3>1. postings' = postings
      BY <1>8, <2>4 DEF CallFails, At
    <3> QED
      BY <2>1, <2>2, <3>1 DEF Counts
  <2> QED
    BY <2>3, <2>4
<1>9. ASSUME NEW d \in Dispatcher, Crash(d)
      PROVE  Counts(e)
  <2>1. /\ faults' = faults + 1 /\ UNCHANGED <<postings, emitted>>
        /\ \A x \in Dispatcher \ {d} : pc'[x] = pc[x] /\ todo'[x] = todo[x]
    BY <1>9 DEF Crash, TypeOK
  <2>2. Did(e) \ {d} \subseteq Did(e)'
    BY <2>1, OthersDid
  <2> QED
    BY <2>1, <2>2 DEF Counts
<1>10. CASE UNCHANGED vars
  BY <1>10 DEF vars, Counts, Did, At, Current
<1> QED
  BY <1>1, <1>2, <1>5, <1>6, <1>7, <1>8, <1>9, <1>10 DEF Next, Dispatch

\* The ledger is sent an entry at most once per replica and once more per failure,
\* for any number of replicas that drain one outbox from stale lists.
THEOREM PostedSeldom == Spec => []PostingsBounded
<1>1. Init => OncePerLoop
  <2> SUFFICES ASSUME Init, NEW e \in Entry
               PROVE  postings[e] <= Cardinality(Did(e)) + faults
    BY DEF OncePerLoop
  <2>1. Did(e) \in SUBSET Dispatcher
    BY DEF Did
  <2>2. Cardinality(Did(e)) \in Nat
    BY <2>1, DidFinite
  <2> QED
    BY <2>2 DEF Init
<1>2. TypeOK /\ OncePerLoop /\ [Next]_vars => OncePerLoop'
  BY StepCounts, CountsKeep DEF OncePerLoop
<1>3. TypeOK /\ OncePerLoop => PostingsBounded
  <2> SUFFICES ASSUME TypeOK, OncePerLoop, NEW e \in Entry
               PROVE  postings[e] <= Cardinality(Dispatcher) + faults
    BY DEF PostingsBounded
  <2>1. Did(e) \in SUBSET Dispatcher
    BY DEF Did
  <2>2. /\ Cardinality(Did(e)) \in Nat /\ Cardinality(Did(e)) <= Cardinality(Dispatcher)
        /\ Cardinality(Dispatcher) \in Nat /\ postings[e] \in Nat /\ faults \in Nat
    BY <2>1, DidFinite, DispatcherAssumption, FS_CardinalityType DEF TypeOK
  <2> QED
    BY <2>2 DEF OncePerLoop
<1> QED
  BY <1>1, <1>2, <1>3, TypeCorrect, PTL DEF Spec
===============================================================================
