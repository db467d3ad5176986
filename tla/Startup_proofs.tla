---------------------------- MODULE Startup_proofs ----------------------------
(***************************************************************************)
(* Proofs about Startup, for any number of replicas, commands, migrations  *)
(* and faults.                                                             *)
(***************************************************************************)
EXTENDS Startup, TLAPS

Pcs == {"idle", "create", "query", "script", "record", "serving", "done"}

Step(p) ==
    \/ p \in Replica /\ Boot(p)
    \/ p \in Command /\ Invoke(p)
    \/ Migrate(p)
    \/ Dies(p)

LEMMA NextIsStep == ASSUME Next PROVE \E p \in Process : Step(p)
  BY DEF Next, Step, Process

\* A step that moves one process and lets others exit keeps the types.
LEMMA MovesOK ==
  ASSUME TypeOK, NEW p \in Process, NEW losers \in SUBSET Process,
         NEW there \in {"create", "query", "script", "record"}, After(p, there, losers),
         UNCHANGED <<doing, version>>
  PROVE  /\ pc' \in [Process -> Pcs] /\ \A r \in Replica : pc'[r] # "done"
         /\ \A c \in Command : pc'[c] # "serving"
  BY ProcessAssumption DEF TypeOK, After, Exited, Process, At, Pcs

LEMMA GoOnOK ==
  ASSUME TypeOK, NEW p \in Process, GoOn(p)
  PROVE  /\ pc' \in [Process -> Pcs] /\ \A r \in Replica : pc'[r] # "done"
         /\ \A c \in Command : pc'[c] # "serving"
         /\ version' \in [Process -> Version]
<1>1. version' \in [Process -> Version]
  BY LastAssumption DEF TypeOK, GoOn, AtLast, Version
<1>2. /\ pc' \in [Process -> Pcs] /\ \A r \in Replica : pc'[r] # "done"
      /\ \A c \in Command : pc'[c] # "serving"
  BY ProcessAssumption DEF TypeOK, GoOn, Through, Process, At, Pcs
<1> QED BY <1>1, <1>2

LEMMA TypeStep ==
  ASSUME TypeOK, NEW p \in Process, Step(p)
  PROVE  TypeOK'
<1>1. ASSUME NEW d \in {"up", "down"}, Begin(p, d), p \in Replica => d = "up"
      PROVE  TypeOK'
  <2>1. version' \in [Process -> Version]
    BY <1>1, LastAssumption DEF TypeOK, Begin, Version
  <2>2. pc' \in [Process -> Pcs] /\ \A r \in Replica : pc'[r] # "done"
    BY <1>1 DEF TypeOK, Begin, FirstStep, Process, At, Pcs
  <2>3. \A c \in Command : pc'[c] # "serving"
    BY <1>1 DEF TypeOK, Begin, FirstStep, Process, At
  <2>4. doing' \in [Process -> {"up", "down"}] /\ \A r \in Replica : doing'[r] = "up"
    BY <1>1 DEF TypeOK, Begin, Process
  <2>5. raced' \in BOOLEAN
    BY <1>1 DEF TypeOK, Begin
  <2> QED
    BY <1>1, <2>1, <2>2, <2>3, <2>4, <2>5 DEF TypeOK, Begin, dbVars, At, Pcs
<1>2. CASE CreateBookkeeping(p)
  <2>1. PICK losers \in SUBSET Process : After(p, "query", losers)
    BY <1>2 DEF CreateBookkeeping
  <2> QED
    BY <1>2, <2>1, MovesOK DEF TypeOK, CreateBookkeeping, At, Pcs
<1>3. CASE Query(p)
  <2>1. CASE GoOn(p)
    BY <1>3, <2>1, GoOnOK DEF TypeOK, Query, GoOn, dbVars, At, Pcs
  <2>2. CASE \E there \in {Exited(p), NotDone} : Goto(p, there)
    BY <1>3, <2>2, ProcessAssumption DEF TypeOK, Query, Goto, Exited, NotDone, dbVars, At, Process, Pcs
  <2> QED BY <1>3, <2>1, <2>2 DEF Query
<1>4. CASE ApplyScript(p)
  <2>1. PICK losers \in SUBSET Process : After(p, "record", losers)
    BY <1>4 DEF ApplyScript
  <2> QED
    BY <1>4, <2>1, MovesOK DEF TypeOK, ApplyScript, At, Pcs
<1>5. CASE RevertScript(p)
  BY <1>5 DEF TypeOK, RevertScript, Goto, At, Process
<1>6. CASE Record(p)
  BY <1>6, GoOnOK DEF TypeOK, Record, GoOn, At, Pcs
<1>7. CASE Dies(p)
  BY <1>7, ProcessAssumption, LastAssumption DEF TypeOK, Dies, Goto, Exited, dbVars, At, Process
<1>8. ASSUME Boot(p), p \in Replica PROVE TypeOK'
  BY <1>1, <1>8 DEF Boot
<1>9. ASSUME Invoke(p), p \in Command PROVE TypeOK'
  BY <1>1, <1>9, ProcessAssumption DEF Invoke
<1> QED
  BY <1>2, <1>3, <1>4, <1>5, <1>6, <1>7, <1>8, <1>9 DEF Step, Migrate

LEMMA InitTyped == Init => TypeOK
<1> SUFFICES ASSUME Init PROVE TypeOK
  OBVIOUS
<1>1. 1 \in Version
  BY LastAssumption DEF Version
<1>2. pc \in [Process -> {"idle"}] /\ doing \in [Process -> {"up"}] /\ version \in [Process -> Version]
  BY <1>1 DEF Init
<1>3. \A p \in Process : At(p, "idle") /\ doing[p] = "up"
  BY DEF Init, At
<1> QED
  BY <1>2, <1>3 DEF Init, TypeOK, At, Process

\* Type correctness: a process is at a migration there is, whoever else starts or dies.
THEOREM TypeCorrect == Spec => []TypeOK
<1>1. Init => TypeOK
  BY InitTyped
<1>2. TypeOK /\ [Next]_vars => TypeOK'
  <2>1. ASSUME TypeOK, Next PROVE TypeOK'
    BY <2>1, NextIsStep, TypeStep
  <2>2. ASSUME TypeOK, UNCHANGED vars PROVE TypeOK'
    BY <2>2 DEF TypeOK, vars, dbVars, At
  <2> QED BY <2>1, <2>2
<1> QED BY <1>1, <1>2, PTL DEF Spec

-------------------------------------------------------------------------------
(* Without a race of an Up and a Down, everybody under way has the same    *)
(* direction, an Up leaves the migrations below its own in place, a Down   *)
(* has taken away those above, and so the tables stay a prefix.            *)

DownClosed(S) == \A v \in S : 1..v \subseteq S

\* What a process under way may rely on.
Behind(p) ==
    /\ doing[p] = "up" =>
          /\ pc[p] = "create" => version[p] = 1
          /\ 1..(version[p] - 1) \subseteq tables
          /\ pc[p] = "record" => version[p] \in tables
    /\ doing[p] = "down" =>
          /\ tables \subseteq 1..version[p]
          /\ pc[p] = "record" => version[p] \notin tables

Ordered ==
    ~raced =>
        /\ recorded = tables /\ DownClosed(tables)
        /\ \A p, q \in Process : UnderWay(p) /\ UnderWay(q) => doing[p] = doing[q]
        /\ \A p \in Process : UnderWay(p) => Behind(p)

\* Until a Down is begun nothing races, and what is there stays there.
Upwards ==
    /\ \A p \in Process : At(p, "idle") /\ p \in Command => doing[p] = "up"
    /\ ~Reverted => ~raced /\ \A r \in Replica : At(r, "serving") => tables = Version

IInv == TypeOK /\ Ordered /\ Upwards

LEMMA IInvInit == Init => IInv
<1> SUFFICES ASSUME Init PROVE IInv
  OBVIOUS
<1>1. TypeOK
  BY InitTyped
<1>2. Ordered
  BY DEF Init, Ordered, UnderWay, DownClosed
<1>3. Upwards
  BY DEF Init, Upwards, Reverted, At, Process
<1> QED BY <1>1, <1>2, <1>3 DEF IInv

\* Only a Begin puts a process under way; the others keep who does what.
LEMMA StepKeeps ==
  ASSUME TypeOK, NEW p \in Process, Migrate(p) \/ Dies(p)
  PROVE  /\ doing' = doing /\ raced' = raced /\ doing[p] \in {"up", "down"}
         /\ \A q \in Process : UnderWay(q)' => UnderWay(q)
         /\ \A q \in Process \ {p} : UnderWay(q)' => pc'[q] = pc[q] /\ version'[q] = version[q]
<1>1. CASE CreateBookkeeping(p) \/ ApplyScript(p)
  <2>1. PICK losers \in SUBSET Process, there \in {"query", "record"} : After(p, there, losers)
    BY <1>1 DEF CreateBookkeeping, ApplyScript
  <2> QED
    BY <1>1, <2>1 DEF TypeOK, CreateBookkeeping, ApplyScript, After, Exited, UnderWay, At
<1>2. CASE Query(p) \/ Record(p)
  BY <1>2 DEF TypeOK, Query, Record, GoOn, Goto, UnderWay, At
<1>3. CASE RevertScript(p) \/ Dies(p)
  BY <1>3 DEF TypeOK, RevertScript, Dies, Goto, Exited, UnderWay, At
<1> QED BY <1>1, <1>2, <1>3 DEF Migrate

LEMMA GoOnBehind ==
  ASSUME TypeOK, NEW p \in Process, GoOn(p), UNCHANGED tables, DownClosed(tables),
         doing[p] = "up" => version[p] \in tables,
         doing[p] = "down" => version[p] \notin tables /\ tables \subseteq 1..version[p],
         UnderWay(p)'
  PROVE  Behind(p)'
<1>1. /\ ~AtLast(p) /\ pc'[p] = "query" /\ doing'[p] = doing[p]
      /\ version'[p] = IF doing[p] = "up" THEN version[p] + 1 ELSE version[p] - 1
  BY DEF TypeOK, GoOn, Through, UnderWay
<1>2. version[p] \in Nat
  BY DEF TypeOK, Version
<1>3. CASE doing[p] = "up"
  BY <1>1, <1>2, <1>3 DEF Behind, DownClosed
<1>4. CASE doing[p] = "down"
  <2>1. \A v \in tables : v \in 1..(version[p] - 1)
    BY <1>2, <1>4
  <2> QED BY <1>1, <1>4, <2>1 DEF Behind
<1> QED BY <1>3, <1>4 DEF TypeOK

LEMMA OrderedBegin ==
  ASSUME IInv, NEW p \in Process, NEW d \in {"up", "down"}, Begin(p, d)
  PROVE  Ordered'
<1> SUFFICES ASSUME ~raced' PROVE
        /\ (recorded = tables /\ DownClosed(tables))'
        /\ \A q, r \in Process : UnderWay(q)' /\ UnderWay(r)' => doing'[q] = doing'[r]
        /\ \A q \in Process : UnderWay(q)' => Behind(q)'
  BY DEF Ordered
<1>1. ~raced /\ \A q \in Process : UnderWay(q) => doing[q] = d
  BY DEF Begin
<1>2. recorded = tables /\ DownClosed(tables) /\ \A q \in Process : UnderWay(q) => Behind(q)
  BY <1>1 DEF IInv, Ordered
<1>3. UNCHANGED <<recorded, tables>>
  BY DEF Begin, dbVars
<1>4. /\ doing'[p] = d /\ pc'[p] = FirstStep(d)
      /\ version'[p] = IF d = "up" THEN 1 ELSE Last
  BY DEF Begin, IInv, TypeOK
<1>5. ASSUME NEW q \in Process \ {p}
      PROVE  pc'[q] = pc[q] /\ doing'[q] = doing[q] /\ version'[q] = version[q]
  BY DEF Begin, IInv, TypeOK
<1>6. \A q \in Process : UnderWay(q)' => doing'[q] = d
  BY <1>1, <1>4, <1>5 DEF UnderWay
<1>7. Behind(p)'
  BY <1>3, <1>4, LastAssumption DEF Behind, FirstStep, IInv, TypeOK, Version
<1>8. ASSUME NEW q \in Process \ {p}, UnderWay(q)' PROVE Behind(q)'
  BY <1>2, <1>3, <1>5, <1>8 DEF UnderWay, Behind
<1> QED BY <1>2, <1>3, <1>6, <1>7, <1>8 DEF DownClosed

LEMMA OrderedStep ==
  ASSUME IInv, NEW p \in Process, Migrate(p) \/ Dies(p)
  PROVE  Ordered'
<1>0. /\ doing' = doing /\ raced' = raced /\ doing[p] \in {"up", "down"}
      /\ \A q \in Process : UnderWay(q)' => UnderWay(q)
      /\ \A q \in Process \ {p} : UnderWay(q)' => pc'[q] = pc[q] /\ version'[q] = version[q]
  BY StepKeeps DEF IInv
<1> SUFFICES ASSUME ~raced PROVE
        /\ (recorded = tables /\ DownClosed(tables))'
        /\ \A q \in Process : UnderWay(q)' => Behind(q)'
  BY <1>0 DEF Ordered, IInv
<1>1. /\ recorded = tables /\ DownClosed(tables) /\ \A q \in Process : UnderWay(q) => Behind(q)
      /\ \A q \in Process : UnderWay(q) /\ UnderWay(p) => doing[q] = doing[p]
  BY DEF IInv, Ordered
<1>2. version \in [Process -> Nat] /\ tables \subseteq Nat /\ pc \in [Process -> Pcs]
  BY DEF IInv, TypeOK, Version, Pcs
<1>3. ASSUME UNCHANGED tables, NEW q \in Process \ {p}, UnderWay(q)' PROVE Behind(q)'
  BY <1>0, <1>1, <1>3 DEF UnderWay, Behind
<1>4. CASE CreateBookkeeping(p)
  <2>1. pc'[p] = "query" /\ version'[p] = version[p] /\ UNCHANGED <<recorded, tables>>
    BY <1>4, <1>2 DEF CreateBookkeeping, After, Losing
  <2>2. Behind(p)'
    BY <1>0, <1>1, <1>4, <2>1 DEF Behind, UnderWay, CreateBookkeeping, At
  <2> QED BY <1>1, <1>3, <2>1, <2>2 DEF DownClosed
<1>5. CASE Query(p)
  <2>1. UNCHANGED <<recorded, tables>> /\ UnderWay(p)
    BY <1>5 DEF Query, dbVars, UnderWay, At
  <2>2. ASSUME UnderWay(p)' PROVE Behind(p)'
    <3>1. CASE GoOn(p) /\ ~ToDo(p)
      BY <1>0, <1>1, <2>1, <2>2, <3>1, GoOnBehind DEF IInv, ToDo, Behind
    <3>2. CASE Goto(p, "script")
      BY <1>0, <1>1, <1>2, <2>1, <3>2, <1>5 DEF Goto, Behind, Query, At
    <3>3. CASE Goto(p, Exited(p))
      BY <1>2, <2>2, <3>3 DEF Goto, Exited, UnderWay
    <3> QED BY <1>5, <3>1, <3>2, <3>3 DEF Query, NotDone
  <2> QED BY <1>1, <1>3, <2>1, <2>2 DEF DownClosed
<1>6. CASE ApplyScript(p)
  <2>1. /\ pc[p] = "script" /\ doing[p] = "up" /\ UnderWay(p)
        /\ tables' = tables \cup {version[p]} /\ recorded' = recorded \cup {version[p]}
        /\ pc'[p] = "record" /\ version' = version
    BY <1>6, <1>2 DEF ApplyScript, After, Losing, At, UnderWay
  <2>2. 1..(version[p] - 1) \subseteq tables
    BY <1>1, <2>1 DEF Behind
  <2>3. DownClosed(tables')
    BY <1>1, <1>2, <2>1, <2>2 DEF DownClosed
  <2>4. ASSUME NEW q \in Process, UnderWay(q)' PROVE Behind(q)'
    <3>1. doing'[q] = "up" /\ Behind(q)
      BY <1>0, <1>1, <2>1, <2>4
    <3>2. version'[q] = version[q] /\ (q = p \/ pc'[q] = pc[q])
      BY <1>0, <2>1, <2>4
    <3> QED BY <1>0, <2>1, <3>1, <3>2 DEF Behind
  <2> QED BY <1>1, <2>1, <2>3, <2>4 DEF DownClosed
<1>7. CASE RevertScript(p)
  <2>1. /\ pc[p] = "script" /\ doing[p] = "down" /\ UnderWay(p)
        /\ tables' = tables \ {version[p]} /\ recorded' = recorded \ {version[p]}
        /\ pc'[p] = "record" /\ version' = version
    BY <1>7, <1>2 DEF RevertScript, Goto, At, UnderWay
  <2>2. tables \subseteq 1..version[p]
    BY <1>1, <2>1 DEF Behind
  <2>3. DownClosed(tables')
    BY <1>1, <1>2, <2>1, <2>2 DEF DownClosed
  <2>4. ASSUME NEW q \in Process, UnderWay(q)' PROVE Behind(q)'
    <3>1. doing'[q] = "down" /\ Behind(q)
      BY <1>0, <1>1, <2>1, <2>4
    <3>2. version'[q] = version[q] /\ (q = p \/ pc'[q] = pc[q])
      BY <1>0, <2>1, <2>4
    <3> QED BY <1>0, <2>1, <3>1, <3>2 DEF Behind
  <2> QED BY <1>1, <2>1, <2>3, <2>4 DEF DownClosed
<1>8. CASE Record(p)
  <2>1. pc[p] = "record" /\ UnderWay(p) /\ GoOn(p) /\ tables' = tables
    BY <1>8 DEF Record, UnderWay, At
  <2>2. Behind(p)
    BY <1>1, <2>1
  <2>3. recorded' = tables
    BY <1>0, <1>1, <1>8, <2>1, <2>2 DEF Record, Behind
  <2>4. ASSUME UnderWay(p)' PROVE Behind(p)'
    BY <1>1, <2>1, <2>2, <2>4, GoOnBehind DEF IInv, Behind
  <2> QED BY <1>1, <1>3, <2>1, <2>3, <2>4 DEF DownClosed
<1>9. CASE Dies(p)
  <2>1. UNCHANGED <<recorded, tables>> /\ ~UnderWay(p)'
    BY <1>9, <1>2 DEF Dies, dbVars, Goto, Exited, UnderWay
  <2> QED BY <1>1, <1>3, <2>1 DEF DownClosed
<1> QED BY <1>4, <1>5, <1>6, <1>7, <1>8, <1>9 DEF Migrate

\* A replica begins to serve after the last migration, which has all below it in place.
LEMMA UpwardsStep ==
  ASSUME IInv, TypeOK', NEW p \in Process, Step(p)
  PROVE  Upwards'
<1>1. ASSUME NEW c \in Command, At(c, "idle")' PROVE doing'[c] = "up"
  <2>0. c \in Process /\ c \notin Replica /\ (pc[c] = "idle" => doing[c] = "up")
    BY <1>1, ProcessAssumption DEF Process, IInv, Upwards, At
  <2>1. ASSUME NEW d \in {"up", "down"}, Begin(p, d) PROVE doing'[c] = "up"
    BY <1>1, <2>0, <2>1 DEF Begin, FirstStep, IInv, TypeOK, At
  <2>2. CASE Migrate(p) \/ Dies(p)
    <3>1. doing' = doing
      BY <2>2, StepKeeps DEF IInv
    <3>2. pc[c] = "idle"
      <4>1. CASE CreateBookkeeping(p) \/ ApplyScript(p)
        <5>1. PICK losers \in SUBSET Process, there \in {"query", "record"} :
                After(p, there, losers)
          BY <4>1 DEF CreateBookkeeping, ApplyScript
        <5> QED BY <1>1, <2>0, <5>1 DEF After, Exited, At
      <4>2. CASE Query(p) \/ Record(p) \/ RevertScript(p) \/ Dies(p)
        BY <1>1, <2>0, <4>2
        DEF Query, Record, RevertScript, Dies, Goto, GoOn, Exited, Through, NotDone, At, IInv, TypeOK
      <4> QED BY <2>2, <4>1, <4>2 DEF Migrate
    <3> QED BY <2>0, <3>1, <3>2
  <2> QED BY <2>1, <2>2 DEF Step, Boot, Invoke
<1>2. ASSUME ~Reverted' PROVE ~raced' /\ \A r \in Replica : At(r, "serving")' => tables' = Version
  <2>0. \A q \in Process : doing'[q] = "up"
    BY <1>2 DEF Reverted, TypeOK, Process
  <2>1. ~Reverted
    <3>1. ASSUME NEW c \in Command, doing[c] = "down" PROVE FALSE
      <4>1. c \in Process /\ pc[c] # "idle"
        BY <3>1 DEF IInv, Upwards, At, Process
      <4>2. ASSUME NEW d \in {"up", "down"}, Begin(p, d) PROVE FALSE
        BY <2>0, <3>1, <4>1, <4>2 DEF Begin, At, IInv, TypeOK
      <4>3. CASE Migrate(p) \/ Dies(p)
        BY <2>0, <3>1, <4>1, <4>3, StepKeeps DEF IInv
      <4> QED BY <4>2, <4>3 DEF Step, Boot, Invoke
    <3> QED BY <3>1 DEF Reverted
  <2>2. /\ ~raced /\ \A r \in Replica : At(r, "serving") => tables = Version
        /\ \A q \in Process : doing[q] = "up"
    BY <2>1 DEF IInv, Upwards, Reverted, TypeOK, Process
  <2>3. ASSUME NEW d \in {"up", "down"}, Begin(p, d)
        PROVE  ~raced' /\ \A r \in Replica : At(r, "serving")' => tables' = Version
    <3>1. d = "up"
      BY <2>0, <2>3 DEF Begin, IInv, TypeOK
    <3>2. ~raced'
      BY <2>2, <2>3, <3>1 DEF Begin
    <3>3. tables' = tables /\ \A r \in Replica : At(r, "serving")' => At(r, "serving")
      BY <2>3 DEF Begin, dbVars, FirstStep, At, IInv, TypeOK, Process
    <3> QED BY <2>2, <3>2, <3>3
  <2>4. CASE Migrate(p) \/ Dies(p)
    <3>1. ~raced'
      BY <2>2, <2>4, StepKeeps DEF IInv
    <3>2. tables \subseteq tables' /\ tables' \subseteq Version
      <4>1. ~RevertScript(p)
        BY <2>2 DEF RevertScript
      <4> QED
        BY <2>4, <4>1 DEF Migrate, CreateBookkeeping, Query, ApplyScript, Record, Dies, dbVars, TypeOK
    <3>3. ASSUME NEW r \in Replica, At(r, "serving")', ~At(r, "serving")
          PROVE  tables' = Version
      <4>1. r = p /\ GoOn(p) /\ (Record(p) \/ (Query(p) /\ ~ToDo(p))) /\ AtLast(p)
        <5>1. r \in Process /\ pc'[r] = "serving" /\ pc[r] # "serving"
          BY <3>3 DEF At, Process
        <5>2. CASE CreateBookkeeping(p) \/ ApplyScript(p)
          <6>1. PICK losers \in SUBSET Process, there \in {"query", "record"} :
                  After(p, there, losers)
            BY <5>2 DEF CreateBookkeeping, ApplyScript
          <6> QED BY <5>1, <6>1 DEF After, Exited
        <5>3. CASE RevertScript(p) \/ Dies(p)
          BY <5>1, <5>3 DEF RevertScript, Dies, Goto, Exited, IInv, TypeOK
        <5>4. CASE Query(p) \/ Record(p)
          <6>1. CASE GoOn(p) /\ (Record(p) \/ (Query(p) /\ ~ToDo(p)))
            BY <5>1, <6>1 DEF GoOn, IInv, TypeOK
          <6>2. CASE Goto(p, "script") \/ Goto(p, Exited(p))
            BY <5>1, <6>2 DEF Goto, Exited, IInv, TypeOK
          <6>3. CASE Record(p)
            <7>1. GoOn(p)
              BY <6>3 DEF Record
            <7> QED BY <6>1, <6>3, <7>1
          <6>4. CASE Query(p)
            BY <6>1, <6>2, <6>4, Zenon DEF Query, NotDone
          <6> QED BY <5>4, <6>3, <6>4
        <5> QED BY <2>4, <5>2, <5>3, <5>4 DEF Migrate
      <4>2. version[p] = Last /\ doing[p] = "up"
        BY <2>2, <4>1 DEF AtLast
      <4>3. recorded = tables /\ DownClosed(tables) /\ (UnderWay(p) => Behind(p))
        BY <2>2 DEF IInv, Ordered
      <4>4. Last \in tables
        BY <4>1, <4>2, <4>3 DEF Record, Query, ToDo, Behind, UnderWay, At
      <4>5. Version \subseteq tables
        BY <4>3, <4>4 DEF DownClosed, Version
      <4> QED BY <3>2, <4>5
    <3>4. ASSUME NEW r \in Replica, At(r, "serving") PROVE tables' = Version
      BY <2>2, <3>2, <3>4
    <3> QED BY <3>1, <3>3, <3>4
  <2> QED BY <2>3, <2>4 DEF Step, Boot, Invoke
<1> QED BY <1>1, <1>2 DEF Upwards, At, Reverted

\* The schema is sound: as long as no Up and Down overlap, the record tells the tables
\* there are, a prefix of the migrations, and nobody serves without its schema.
THEOREM SchemaIsSound == Spec => []SchemaSound
<1>1. IInv /\ [Next]_vars => IInv'
  <2>1. ASSUME IInv, Next PROVE IInv'
    <3>1. PICK p \in Process : Step(p)
      BY <2>1, NextIsStep
    <3>2. TypeOK'
      BY <2>1, <3>1, TypeStep DEF IInv
    <3>3. Ordered'
      BY <2>1, <3>1, OrderedBegin, OrderedStep DEF Step, Boot, Invoke
    <3> QED BY <2>1, <3>1, <3>2, <3>3, UpwardsStep DEF IInv
  <2>2. ASSUME IInv, UNCHANGED vars PROVE IInv'
    BY <2>2 DEF IInv, TypeOK, Ordered, Upwards, Reverted, Behind, UnderWay, DownClosed, vars, dbVars, At
  <2> QED BY <2>1, <2>2
<1>2. IInv => SchemaSound
  BY DEF IInv, Ordered, Upwards, DownClosed, SchemaSound
<1> QED BY IInvInit, <1>1, <1>2, PTL DEF Spec
===============================================================================
