---------------------------- MODULE Funding_proofs ----------------------------
(***************************************************************************)
(* Proofs about Funding and the Projection it extends, for any number of   *)
(* calls, samples, amounts and faults.                                     *)
(***************************************************************************)
EXTENDS Funding, FiniteSetTheorems, TLAPS

Pcs == {"new", "create", "append", "key", "move", "answer", "confirm", "reject", "done"}

\* What a step does to the calls' variables, by the call it is a step of.
CallStep(c) == Start(c) \/ Handle(c) \/ Fails(c) \/ WalletCompletes(c)

\* The projection's part of a step.
LEMMA ProjectionSteps ==
  ASSUME Next
  PROVE  \/ UNCHANGED projectionVars \/ ProjectDemand \/ Elapse \/ Forget
         \/ \E s \in Sample : Observe(s)
<1>1. CASE Crash
  BY <1>1 DEF Crash
<1>2. CASE Demand
  BY <1>2 DEF Demand
<1>3. ASSUME NEW c \in Call, CallStep(c)
      PROVE  UNCHANGED projectionVars \/ ProjectDemand
  BY <1>3 DEF CallStep, Start, Request, Repeat, LoopTick, StartJob, Handle, Fails, Persist,
     Audit, Mark, Take, Answered, Confirm, Reject, StoreFails, AuditFails, MarkFails,
     WalletFails, WalletCompletes
<1> QED BY <1>1, <1>2, <1>3 DEF Next, CallStep

-------------------------------------------------------------------------------
(* The window. A sample is of now or earlier, only samples are kept, and   *)
(* none is missing that is still in the window.                            *)

WindowInv ==
    /\ now \in Nat /\ at \in [Sample -> Int] /\ kept \subseteq Sample
    /\ \A s \in Sample : at[s] = Never \/ (at[s] \in Nat /\ at[s] <= now)
    /\ \A s \in kept : at[s] # Never
    /\ \A s \in Sample : at[s] # Never /\ at[s] + Window > now => s \in kept

LEMMA WindowInit == Init => WindowInv
  BY DEF Init, ProjectionInit, WindowInv, Never

LEMMA WindowStep ==
  ASSUME WindowInv, Next
  PROVE  WindowInv'
<1> USE WindowAssumption
<1>1. CASE UNCHANGED projectionVars
  BY <1>1 DEF WindowInv, projectionVars
<1>2. CASE ProjectDemand
  BY <1>2 DEF WindowInv, ProjectDemand, Demanding, Evicted, After, Never
<1>3. CASE Elapse
  BY <1>3 DEF WindowInv, Elapse, Never
<1>4. CASE Forget
  BY <1>4 DEF WindowInv, Forget, Never
<1>5. ASSUME NEW s \in Sample, Observe(s) PROVE WindowInv'
  <2>1. PICK t \in 0..now :
          at' = [at EXCEPT ![s] = t] /\ kept' = Evicted(at', kept \cup {s}, t)
    BY <1>5 DEF Observe
  <2>2. at[s] = Never /\ now' = now
    BY <1>5 DEF Observe
  <2>3. at' \in [Sample -> Int] /\ at'[s] = t /\ \A r \in Sample \ {s} : at'[r] = at[r]
    BY <2>1 DEF WindowInv
  <2>4. \A r \in Sample : r \in kept' <=> (r \in kept \/ r = s) /\ at'[r] > t - Window
    BY <2>1 DEF Evicted, After
  <2>5. kept' \subseteq Sample
    BY <2>1 DEF Evicted, After, WindowInv
  <2> QED BY <2>2, <2>3, <2>4, <2>5 DEF WindowInv, Never
<1> QED BY <1>1, <1>2, <1>3, <1>4, <1>5, ProjectionSteps

\* The demand projected is that of the trailing window, in whatever order samples are
\* observed and whenever an eviction happens as of one of them.
THEOREM ProjectsWindow == Spec => []DemandIsWindow
<1>1. WindowInv /\ [Next]_vars => WindowInv'
  BY WindowStep DEF vars, projectionVars, WindowInv
<1>2. WindowInv => DemandIsWindow
  BY WindowAssumption DEF WindowInv, DemandIsWindow, Demanding, Evicted, After, Never
<1> QED BY WindowInit, <1>1, <1>2, PTL DEF Spec

-------------------------------------------------------------------------------
(* Types.                                                                  *)

\* A call past its beginning goes on to another step, or returns.
LEMMA CallMoves ==
  ASSUME TypeOK, NEW c \in Call, pc[c] # "new",
         \/ \E there \in Pcs \ {"new"} : Goto(c, there)
         \/ \E told \in {"created", "error"} : Return(c, told)
  PROVE  /\ pc' \in [Call -> Pcs] /\ answer' \in [Call -> {"none", "refused", "created", "error"}]
         /\ UNCHANGED <<amount, request>>
         /\ \A d \in Call : At(d, "new")' <=> At(d, "new")
  BY DEF TypeOK, Goto, Return, At, Pcs

\* The shortfall the loop asks for is a number.
LEMMA ShortfallTyped ==
  ASSUME WindowInv
  PROVE  Capped(Notional * Cardinality(Demanding) - Target) \in Int
<1>1. Demanding \subseteq Sample
  BY DEF Demanding, Evicted, WindowInv
<1>2. Cardinality(Demanding) \in Nat
  BY <1>1, SampleAssumption, FS_Subset, FS_CardinalityType
<1>3. Notional * Cardinality(Demanding) \in Int
  BY <1>2, AmountAssumption
<1> QED BY <1>3, AmountAssumption DEF Capped

\* A beginning call asks for a number, for itself, for an earlier first attempt, for the
\* loop or for a job.
LEMMA StartIsBegin ==
  ASSUME WindowInv, TypeOK, NEW c \in Call, Start(c)
  PROVE  \E a \in Int, for \in Call \cup {"loop", "job"} :
            /\ Begin(c, a, for)
            /\ for \in Call => for = c \/ request[for] = for
<1>1. CASE Request(c)
  BY <1>1, AmountAssumption DEF Request
<1>2. CASE LoopTick(c)
  BY <1>2, ShortfallTyped, NoneAssumption DEF LoopTick
<1>3. CASE StartJob(c)
  BY <1>3, AmountAssumption, NoneAssumption DEF StartJob
<1>4. ASSUME NEW r \in Call, Repeat(c, r)
      PROVE  \E a \in Int, for \in Call \cup {"loop", "job"} :
                /\ Begin(c, a, for)
                /\ for \in Call => for = c \/ request[for] = for
  <2>1. Begin(c, amount[r], r) /\ request[r] = r /\ amount[r] \in Int
    BY <1>4 DEF Repeat, TypeOK
  <2> QED BY <2>1
<1> QED BY <1>1, <1>2, <1>3, <1>4 DEF Start

Requests ==
    /\ request \in [Call -> Call \cup {"loop", "job", None}]
    /\ \A c \in Call :
        /\ At(c, "new") <=> request[c] = None
        /\ request[c] \in Call => request[request[c]] = request[c]

LEMMA BeginRequests ==
  ASSUME TypeOK, NEW c \in Call, NEW a \in Int, NEW for \in Call \cup {"loop", "job"},
         Begin(c, a, for), for \in Call => for = c \/ request[for] = for
  PROVE  Requests'
<1>1. /\ request[c] = None /\ request' = [request EXCEPT ![c] = for]
      /\ pc' \in [Call -> Pcs] /\ pc'[c] \in {"create", "done"}
      /\ \A d \in Call \ {c} : pc'[d] = pc[d]
  BY DEF TypeOK, Begin, At, FirstStep, Pcs
<1>2. request' \in [Call -> Call \cup {"loop", "job", None}]
  BY <1>1 DEF TypeOK
<1>3. request'[c] = for /\ for # None
  BY <1>1, NoneAssumption DEF TypeOK
<1>4. \A d \in Call \ {c} : request'[d] = request[d]
  BY <1>1 DEF TypeOK
<1>5. \A d \in Call : request[d] # c
  BY <1>1, NoneAssumption DEF TypeOK
<1>6. ASSUME NEW d \in Call PROVE At(d, "new")' <=> request'[d] = None
  BY <1>1, <1>3, <1>4 DEF TypeOK, At
<1>7. ASSUME NEW d \in Call, request'[d] \in Call PROVE request'[request'[d]] = request'[d]
  <2>1. CASE d = c
    BY <1>3, <1>4, <1>7, <2>1
  <2>2. CASE d # c
    BY <1>4, <1>5, <1>7, <2>2 DEF TypeOK
  <2> QED BY <2>1, <2>2
<1> QED BY <1>2, <1>6, <1>7 DEF Requests

LEMMA TypeStep ==
  ASSUME TypeOK, WindowInv, WindowInv', Next
  PROVE  TypeOK'
<1>0. now' \in Nat /\ at' \in [Sample -> Int] /\ kept' \subseteq Sample
  BY DEF WindowInv
<1>1. ASSUME NEW c \in Call, Start(c) PROVE TypeOK'
  <2>1. PICK a \in Int, for \in Call \cup {"loop", "job"} :
          Begin(c, a, for) /\ (for \in Call => for = c \/ request[for] = for)
    BY <1>1, StartIsBegin
  <2>2. Requests'
    BY <2>1, BeginRequests
  <2>3. /\ pc' \in [Call -> Pcs] /\ amount' \in [Call -> Int]
        /\ answer' \in [Call -> {"none", "refused", "created", "error"}]
    BY <2>1 DEF TypeOK, Begin, FirstStep, Pcs
  <2>4. UNCHANGED <<row, audited, marked, wallet, lost, faults>>
    BY <2>1 DEF Begin, rowVars
  <2> QED BY <1>0, <2>2, <2>3, <2>4 DEF TypeOK, Requests, Pcs
<1>2. ASSUME NEW c \in Call, Handle(c) \/ Fails(c) PROVE TypeOK'
  <2>1. /\ pc[c] # "new"
        /\ \/ \E there \in Pcs \ {"new"} : Goto(c, there)
           \/ \E told \in {"created", "error"} : Return(c, told)
    <3>1. CASE Persist(c) \/ Audit(c) \/ Mark(c) \/ Take(c) \/ Answered(c)
      BY <1>2, <3>1 DEF Persist, Audit, Mark, Take, Answered, AfterAnswer, At, Pcs
    <3>2. CASE Confirm(c) \/ Reject(c) \/ StoreFails(c)
      BY <1>2, <3>2 DEF Confirm, Reject, StoreFails, Created, ToldRejected, At
    <3>3. CASE AuditFails(c) \/ MarkFails(c) \/ WalletFails(c)
      BY <1>2, <3>3 DEF AuditFails, MarkFails, WalletFails, At, Pcs
    <3> QED BY <1>2, <3>1, <3>2, <3>3 DEF Handle, Fails
  <2>2. /\ pc' \in [Call -> Pcs] /\ answer' \in [Call -> {"none", "refused", "created", "error"}]
        /\ UNCHANGED <<amount, request>>
        /\ \A d \in Call : At(d, "new")' <=> At(d, "new")
    BY <2>1, CallMoves
  <2>3. row' \in [Call -> {"NONE", "PENDING", "COMPLETED", "REJECTED"}]
    BY <1>2 DEF TypeOK, Handle, Fails, Persist, Audit, Mark, Take, Answered, Confirm, Reject,
       StoreFails, AuditFails, MarkFails, WalletFails, Insert, SetStatus, RejectedStatus, rowVars
  <2>4. audited' \subseteq Call /\ marked' \subseteq Call
    BY <1>2 DEF TypeOK, Handle, Fails, Persist, Audit, Mark, Take, Answered, Confirm, Reject,
       StoreFails, AuditFails, MarkFails, WalletFails, rowVars
  <2>5. wallet' \in [Call -> {"none", "accepted", "moved"}]
    BY <1>2 DEF TypeOK, Handle, Fails, Persist, Audit, Mark, Take, Answered, Confirm, Reject,
       StoreFails, AuditFails, MarkFails, WalletFails
  <2>6. lost' \subseteq {"entry", "answer"} \X Call
    BY <1>2 DEF TypeOK, Handle, Fails, Persist, Audit, Mark, Take, Answered, Confirm, Reject,
       StoreFails, AuditFails, MarkFails, WalletFails
  <2>7. faults' \in Nat
    BY <1>2 DEF TypeOK, Handle, Fails, Persist, Audit, Mark, Take, Answered, Confirm, Reject,
       StoreFails, AuditFails, MarkFails, WalletFails, Fault
  <2> QED BY <1>0, <2>2, <2>3, <2>4, <2>5, <2>6, <2>7 DEF TypeOK, Pcs
<1>3. ASSUME NEW c \in Call, WalletCompletes(c) PROVE TypeOK'
  BY <1>0, <1>3 DEF TypeOK, WalletCompletes, callVars, rowVars, At
<1>4. CASE Crash
  <2>1. /\ pc' \in [Call -> Pcs] /\ answer' \in [Call -> {"none", "refused", "created", "error"}]
        /\ \A d \in Call : At(d, "new")' <=> At(d, "new")
    BY <1>4 DEF TypeOK, Crash, At, Pcs
  <2>2. UNCHANGED <<amount, request, row, audited, marked, wallet, lost>> /\ faults' \in Nat
    BY <1>4 DEF TypeOK, Crash, Fault, rowVars
  <2> QED BY <1>0, <2>1, <2>2 DEF TypeOK, Pcs
<1>5. CASE Demand
  BY <1>0, <1>5 DEF TypeOK, Demand, callVars, rowVars, At
<1> QED BY <1>1, <1>2, <1>3, <1>4, <1>5 DEF Next

LEMMA InitTyped == Init => TypeOK
  BY NoneAssumption DEF Init, ProjectionInit, TypeOK, At, Never

\* Type correctness of the calls, their rows, the wallet and the projection.
THEOREM TypeCorrect == Spec => []TypeOK
<1>1. Init => TypeOK /\ WindowInv
  BY InitTyped, WindowInit
<1>2. TypeOK /\ WindowInv /\ [Next]_vars => (TypeOK /\ WindowInv)'
  <2>1. ASSUME TypeOK, WindowInv, Next PROVE (TypeOK /\ WindowInv)'
    BY <2>1, TypeStep, WindowStep
  <2>2. ASSUME TypeOK, WindowInv, UNCHANGED vars PROVE (TypeOK /\ WindowInv)'
    BY <2>2 DEF TypeOK, WindowInv, vars, projectionVars, callVars, rowVars, At
  <2> QED BY <2>1, <2>2
<1> QED BY <1>1, <1>2, PTL DEF Spec

-------------------------------------------------------------------------------
(* What the wallet did is known, step by step, to the call that asked.     *)

Working == {"create", "append", "key", "move", "answer", "confirm", "reject"}

Audited(c) == c \in audited \/ <<"entry", c>> \in lost

Place(c) ==
    /\ pc[c] \in {"new", "create"} => row[c] = "NONE"
    /\ pc[c] \in {"new", "create", "append", "key", "move"} => wallet[c] = "none"
    /\ pc[c] \in Working \ {"create"} => row[c] = "PENDING"
    /\ pc[c] \in Working => WithinPolicy(amount[c])
    /\ pc[c] \in Working \ {"create", "append"} => Audited(c)
    /\ pc[c] \in {"answer", "confirm"} => wallet[c] # "none"
    /\ pc[c] = "reject" /\ wallet[c] # "none" => <<"answer", c>> \in lost

\* The conjuncts of RecordMatchesWallet, for one call.
Matches(c) ==
    /\ wallet[c] # "none" => row[c] # "NONE" /\ WithinPolicy(amount[c]) /\ Audited(c)
    /\ row[c] = "COMPLETED" => wallet[c] # "none"
    /\ row[c] = "REJECTED" /\ wallet[c] # "none" => <<"answer", c>> \in lost

RecordInv == \A c \in Call : Place(c) /\ Matches(c)

\* A call's part is disturbed by its own steps only.
LEMMA OtherCalls ==
  ASSUME TypeOK, RecordInv, NEW d \in Call,
         pc'[d] = pc[d] \/ (pc'[d] = "done" /\ pc[d] # "new"),
         amount'[d] = amount[d], row'[d] = row[d], wallet'[d] = wallet[d],
         audited \subseteq audited', lost \subseteq lost'
  PROVE  Place(d)' /\ Matches(d)'
  BY DEF RecordInv, Place, Matches, Audited, Working

LEMMA OwnStep ==
  ASSUME TypeOK, WindowInv, RecordInv, NEW c \in Call, CallStep(c)
  PROVE  Place(c)' /\ Matches(c)'
<1>1. Place(c) /\ Matches(c)
  BY DEF RecordInv
<1>2. CASE Start(c)
  <2>1. PICK a \in Int, for \in Call \cup {"loop", "job"} : Begin(c, a, for)
    BY <1>2, StartIsBegin
  <2>2. /\ amount'[c] = a /\ row' = row /\ wallet' = wallet /\ pc[c] = "new"
        /\ pc'[c] = "done" \/ (pc'[c] = "create" /\ WithinPolicy(a))
    BY <2>1 DEF Begin, FirstStep, rowVars, At, TypeOK
  <2> QED BY <1>1, <2>2 DEF Place, Matches, Working
<1>3. CASE Persist(c)
  BY <1>1, <1>3 DEF Persist, Goto, Insert, At, TypeOK, Place, Matches, Audited, Working
<1>4. CASE Audit(c) \/ AuditFails(c)
  BY <1>1, <1>4 DEF Audit, AuditFails, Goto, At, TypeOK, Place, Matches, Audited, Working
<1>5. CASE Mark(c) \/ MarkFails(c)
  BY <1>1, <1>5 DEF Mark, MarkFails, Goto, At, TypeOK, Place, Matches, Audited, Working
<1>6. CASE Take(c)
  BY <1>1, <1>6 DEF Take, Goto, At, TypeOK, Place, Matches, Audited, Working, rowVars
<1>7. CASE Answered(c)
  BY <1>1, <1>7 DEF Answered, AfterAnswer, Goto, At, TypeOK, Place, Matches, Audited, Working, rowVars
<1>8. CASE Confirm(c)
  BY <1>1, <1>8 DEF Confirm, Return, SetStatus, At, TypeOK, Place, Matches, Audited, Working
<1>9. CASE Reject(c)
  BY <1>1, <1>9 DEF Reject, Return, SetStatus, RejectedStatus, At, TypeOK, Place, Matches, Audited, Working
<1>10. CASE StoreFails(c)
  BY <1>1, <1>10 DEF StoreFails, Return, Insert, SetStatus, RejectedStatus, At, TypeOK, Place,
     Matches, Audited, Working
<1>11. CASE WalletFails(c)
  BY <1>1, <1>11 DEF WalletFails, Goto, At, TypeOK, Place, Matches, Audited, Working, rowVars
<1>12. CASE WalletCompletes(c)
  BY <1>1, <1>12 DEF WalletCompletes, TypeOK, Place, Matches, Audited, Working, rowVars, callVars
<1> QED
  BY <1>2, <1>3, <1>4, <1>5, <1>6, <1>7, <1>8, <1>9, <1>10, <1>11, <1>12
  DEF CallStep, Handle, Fails

LEMMA OwnStepKeeps ==
  ASSUME TypeOK, WindowInv, NEW c \in Call, CallStep(c)
  PROVE  /\ \A d \in Call \ {c} : /\ pc'[d] = pc[d] /\ amount'[d] = amount[d]
                                 /\ row'[d] = row[d] /\ wallet'[d] = wallet[d]
                                 /\ answer'[d] = answer[d] /\ request'[d] = request[d]
         /\ audited \subseteq audited' /\ lost \subseteq lost'
<1>1. CASE Start(c)
  <2>1. PICK a \in Int, for \in Call \cup {"loop", "job"} : Begin(c, a, for)
    BY <1>1, StartIsBegin
  <2> QED BY <2>1 DEF Begin, rowVars, TypeOK
<1>2. CASE Persist(c) \/ Audit(c) \/ AuditFails(c) \/ Mark(c) \/ MarkFails(c)
  BY <1>2 DEF Persist, Audit, AuditFails, Mark, MarkFails, Goto, Insert, TypeOK
<1>3. CASE Take(c) \/ Answered(c) \/ WalletFails(c) \/ WalletCompletes(c)
  BY <1>3 DEF Take, Answered, WalletFails, WalletCompletes, Goto, TypeOK, rowVars, callVars
<1>4. CASE Confirm(c) \/ Reject(c) \/ StoreFails(c)
  BY <1>4 DEF Confirm, Reject, StoreFails, Return, Insert, SetStatus, TypeOK
<1> QED BY <1>1, <1>2, <1>3, <1>4 DEF CallStep, Handle, Fails

LEMMA RecordStep ==
  ASSUME TypeOK, WindowInv, RecordInv, Next
  PROVE  RecordInv'
<1>1. ASSUME NEW c \in Call, CallStep(c), NEW d \in Call PROVE Place(d)' /\ Matches(d)'
  <2>1. CASE d = c
    BY <1>1, <2>1, OwnStep
  <2>2. CASE d # c
    BY <1>1, <2>2, OwnStepKeeps, OtherCalls
  <2> QED BY <2>1, <2>2
<1>2. ASSUME Crash, NEW d \in Call PROVE Place(d)' /\ Matches(d)'
  <2>1. pc'[d] = pc[d] \/ (pc'[d] = "done" /\ pc[d] # "new")
    BY <1>2 DEF Crash
  <2> QED BY <1>2, <2>1, OtherCalls DEF Crash, rowVars
<1>3. ASSUME Demand, NEW d \in Call PROVE Place(d)' /\ Matches(d)'
  BY <1>3, OtherCalls DEF Demand, callVars, rowVars
<1> QED BY <1>1, <1>2, <1>3 DEF Next, CallStep, RecordInv

\* Every move is persisted before it is made, within the ceiling and audited unless the
\* entry got lost; and the row's final status is what the wallet did, unless its answer
\* got lost.
THEOREM RecordsMatch == Spec => []RecordMatchesWallet
<1> DEFINE I == TypeOK /\ WindowInv /\ RecordInv
<1>1. Init => I
  <2>1. Init => RecordInv
    BY DEF Init, RecordInv, Place, Matches, Working
  <2> QED BY <2>1, InitTyped, WindowInit
<1>2. I /\ [Next]_vars => I'
  <2>1. ASSUME I, Next PROVE I'
    BY <2>1, TypeStep, WindowStep, RecordStep
  <2>2. ASSUME I, UNCHANGED vars PROVE I'
    <3>1. TypeOK' /\ WindowInv'
      BY <2>2 DEF TypeOK, WindowInv, vars, projectionVars, callVars, rowVars, At
    <3>2. RecordInv'
      BY <2>2, OtherCalls DEF RecordInv, vars, callVars, rowVars
    <3> QED BY <3>1, <3>2
  <2> QED BY <2>1, <2>2
<1>3. I => RecordMatchesWallet
  BY DEF RecordInv, Matches, Audited, RecordMatchesWallet
<1> QED BY <1>1, <1>2, <1>3, PTL DEF Spec

-------------------------------------------------------------------------------
(* How often funds are moved for one request: a client repeats only after  *)
(* an error, and each error answer of an attempt is a fault.               *)

Errors(r) == {c \in Attempts(r) : answer[c] = "error"}

Bounded(r) ==
    /\ IsFiniteSet(Errors(r)) /\ Cardinality(Errors(r)) \in Nat
    /\ Cardinality(Errors(r)) <= faults
    /\ \A c, d \in Attempts(r) : answer[c] # "error" /\ answer[d] # "error" => c = d

Unanswered == \A c \in Call : pc[c] # "done" => answer[c] = "none"

RepeatInv == Unanswered /\ \A r \in Call : Bounded(r)

\* The bound of r is kept when at most one error is added, with a fault, and no attempt.
LEMMA KeepsBound ==
  ASSUME NEW r \in Call, Bounded(r), faults \in Nat, faults' \in Nat,
         request' = request, NEW c \in Call,
         \A d \in Attempts(r) : answer'[d] = answer[d] \/ (d = c /\ answer[d] # "error"),
         faults' >= faults,
         c \in Attempts(r) /\ answer[c] # "error" /\ answer'[c] = "error" => faults' = faults + 1
  PROVE  Bounded(r)'
<1>1. Attempts(r)' = Attempts(r)
  BY DEF Attempts
<1>2. CASE c \in Attempts(r) /\ answer[c] # "error" /\ answer'[c] = "error"
  <2>1. Errors(r)' = Errors(r) \cup {c} /\ c \notin Errors(r)
    BY <1>1, <1>2 DEF Errors
  <2>2. IsFiniteSet(Errors(r)') /\ Cardinality(Errors(r)') = Cardinality(Errors(r)) + 1
    BY <2>1, FS_AddElement DEF Bounded
  <2>3. \A d, e \in Attempts(r) : answer'[d] # "error" /\ answer'[e] # "error" => d = e
    BY DEF Bounded
  <2> QED BY <1>1, <1>2, <2>2, <2>3 DEF Bounded
<1>3. CASE ~(c \in Attempts(r) /\ answer[c] # "error" /\ answer'[c] = "error")
  <2>1. Errors(r)' = Errors(r)
    BY <1>1, <1>3 DEF Errors
  <2>2. \A d, e \in Attempts(r) : answer'[d] # "error" /\ answer'[e] # "error" => d = e
    BY DEF Bounded
  <2>3. IsFiniteSet(Errors(r)') /\ Cardinality(Errors(r)') \in Nat /\ Cardinality(Errors(r)') <= faults
    BY <2>1 DEF Bounded
  <2> QED BY <1>1, <2>2, <2>3 DEF Bounded
<1> QED BY <1>2, <1>3

\* A new attempt comes when all others of its request have been answered by an error.
LEMMA BeginBound ==
  ASSUME TypeOK, RepeatInv, NEW c \in Call, NEW a \in Int, NEW for \in Call \cup {"loop", "job"},
         Begin(c, a, for), NEW r \in Call,
         for \in Call => for = c \/ \A d \in Attempts(for) : answer[d] = "error"
  PROVE  Bounded(r)'
<1>1. /\ pc[c] = "new" /\ request[c] = None /\ answer[c] = "none" /\ request'[c] = for
      /\ answer'[c] # "error" /\ faults' = faults
      /\ \A d \in Call \ {c} : request'[d] = request[d] /\ answer'[d] = answer[d]
  BY DEF Begin, TypeOK, At, RepeatInv, Unanswered
<1>2. c \notin Attempts(r)
  BY <1>1, NoneAssumption DEF Attempts
<1>3. Attempts(r)' = IF for = r THEN Attempts(r) \cup {c} ELSE Attempts(r)
  BY <1>1, <1>2 DEF Attempts
<1>4. Errors(r)' = Errors(r)
  BY <1>1, <1>2, <1>3 DEF Errors, Attempts
<1>5. for = r => \A d \in Attempts(r) : answer[d] = "error"
  <2>1. ASSUME for = c PROVE Attempts(c) = {}
    BY <1>1, NoneAssumption DEF Attempts, TypeOK
  <2> QED BY <2>1
<1>6. \A d, e \in Attempts(r)' : answer'[d] # "error" /\ answer'[e] # "error" => d = e
  BY <1>1, <1>2, <1>3, <1>5 DEF RepeatInv, Bounded, Attempts
<1>7. IsFiniteSet(Errors(r)') /\ Cardinality(Errors(r)') \in Nat /\ Cardinality(Errors(r)') <= faults'
  BY <1>1, <1>4 DEF RepeatInv, Bounded
<1> QED BY <1>6, <1>7 DEF Bounded

LEMMA StartsAfterErrors ==
  ASSUME WindowInv, TypeOK, NEW c \in Call, Start(c)
  PROVE  \E a \in Int, for \in Call \cup {"loop", "job"} :
            /\ Begin(c, a, for)
            /\ for \in Call => for = c \/ \A d \in Attempts(for) : answer[d] = "error"
<1>1. CASE Request(c)
  BY <1>1, AmountAssumption DEF Request
<1>2. CASE LoopTick(c)
  BY <1>2, ShortfallTyped, NoneAssumption DEF LoopTick
<1>3. CASE StartJob(c)
  BY <1>3, AmountAssumption, NoneAssumption DEF StartJob
<1>4. ASSUME NEW r \in Call, Repeat(c, r)
      PROVE  \E a \in Int, for \in Call \cup {"loop", "job"} :
                /\ Begin(c, a, for)
                /\ for \in Call => for = c \/ \A d \in Attempts(for) : answer[d] = "error"
  <2>1. /\ Begin(c, amount[r], r) /\ amount[r] \in Int
        /\ \A d \in Attempts(r) : answer[d] = "error"
    BY <1>4 DEF Repeat, TypeOK
  <2> QED BY <2>1
<1> QED BY <1>1, <1>2, <1>3, <1>4 DEF Start

LEMMA RepeatStep ==
  ASSUME TypeOK, TypeOK', WindowInv, RepeatInv, Next
  PROVE  RepeatInv'
<1>1. ASSUME NEW c \in Call, Start(c) PROVE RepeatInv'
  <2>1. PICK a \in Int, for \in Call \cup {"loop", "job"} :
            /\ Begin(c, a, for)
            /\ for \in Call => for = c \/ \A d \in Attempts(for) : answer[d] = "error"
    BY <1>1, StartsAfterErrors
  <2>2. Unanswered'
    BY <2>1 DEF RepeatInv, Unanswered, Begin, FirstStep, TypeOK, At
  <2> QED BY <2>1, <2>2, BeginBound DEF RepeatInv
<1>2. ASSUME NEW c \in Call, Handle(c) \/ Fails(c) \/ WalletCompletes(c) PROVE RepeatInv'
  <2>1. /\ request' = request /\ faults' >= faults
        /\ \A d \in Call \ {c} : answer'[d] = answer[d] /\ pc'[d] = pc[d]
        /\ answer'[c] = answer[c] \/ pc[c] # "done"
        /\ pc'[c] = "done" \/ answer'[c] = answer[c]
        /\ pc'[c] # "done" => pc[c] # "done"
        /\ answer'[c] = "error" /\ answer[c] # "error" =>
              faults' = faults + 1 \/ request[c] = "job"
    <3>1. CASE Persist(c) \/ Audit(c) \/ Mark(c) \/ Take(c) \/ Answered(c)
      BY <1>2, <3>1 DEF Persist, Audit, Mark, Take, Answered, Goto, TypeOK, At, AfterAnswer
    <3>2. CASE AuditFails(c) \/ MarkFails(c) \/ WalletFails(c)
      BY <1>2, <3>2 DEF AuditFails, MarkFails, WalletFails, Goto, Fault, TypeOK, At
    <3>3. CASE Confirm(c) \/ Reject(c)
      BY <1>2, <3>3 DEF Confirm, Reject, Return, Created, ToldRejected, TypeOK, At
    <3>4. CASE StoreFails(c)
      BY <1>2, <3>4 DEF StoreFails, Return, Fault, ToldRejected, TypeOK, At
    <3>5. CASE WalletCompletes(c)
      BY <1>2, <3>5 DEF WalletCompletes, callVars, TypeOK
    <3> QED BY <1>2, <3>1, <3>2, <3>3, <3>4, <3>5 DEF Handle, Fails
  <2>2. Unanswered'
    BY <2>1 DEF RepeatInv, Unanswered
  <2>3. ASSUME NEW r \in Call PROVE Bounded(r)'
    <3>1. Bounded(r) /\ faults \in Nat /\ faults' \in Nat
      BY DEF RepeatInv, TypeOK
    <3>2. pc[c] # "done" => answer[c] # "error"
      BY DEF RepeatInv, Unanswered
    <3>3. \A d \in Attempts(r) : d \in Call /\ request[d] # "job"
      BY NoneAssumption DEF Attempts
    <3>4. \A d \in Attempts(r) : answer'[d] = answer[d] \/ (d = c /\ answer[d] # "error")
      BY <2>1, <3>2, <3>3
    <3>5. c \in Attempts(r) /\ answer[c] # "error" /\ answer'[c] = "error" => faults' = faults + 1
      BY <2>1, <3>3
    <3> QED BY <2>1, <3>1, <3>4, <3>5, KeepsBound
  <2> QED BY <2>2, <2>3 DEF RepeatInv
<1>3. CASE Crash
  <2>1. /\ request' = request /\ faults' = faults + 1
        /\ \A d \in Call : \/ pc[d] \notin {"new", "done"} /\ answer'[d] = "error" /\ pc'[d] = "done"
                           \/ answer'[d] = answer[d] /\ pc'[d] = pc[d]
    BY <1>3 DEF Crash, Fault
  <2>2. Unanswered'
    BY <2>1 DEF RepeatInv, Unanswered
  <2>3. ASSUME NEW r \in Call PROVE Bounded(r)'
    <3>1. /\ Bounded(r) /\ faults \in Nat /\ faults' \in Nat
          /\ \A d \in Call : pc[d] # "done" => answer[d] # "error"
      BY DEF RepeatInv, TypeOK, Unanswered
    <3>2. CASE \E c \in Attempts(r) : pc[c] \notin {"new", "done"}
      <4>1. PICK c \in Attempts(r) : pc[c] \notin {"new", "done"}
        BY <3>2
      <4>2. c \in Call /\ answer[c] # "error"
        BY <3>1, <4>1 DEF Attempts
      <4>3. \A d \in Attempts(r) : answer'[d] = answer[d] \/ (d = c /\ answer[d] # "error")
        BY <2>1, <3>1, <4>1, <4>2 DEF Bounded, Attempts
      <4> QED BY <2>1, <3>1, <4>2, <4>3, KeepsBound
    <3>3. CASE \A c \in Attempts(r) : pc[c] \in {"new", "done"}
      <4>1. \A d \in Attempts(r) : answer'[d] = answer[d]
        BY <2>1, <3>3 DEF Attempts
      <4>2. r \in Attempts(r) /\ answer[r] # "error" /\ answer'[r] = "error" => faults' = faults + 1
        BY <2>1
      <4> QED BY <2>1, <3>1, <4>1, <4>2, KeepsBound
    <3> QED BY <3>2, <3>3
  <2> QED BY <2>2, <2>3 DEF RepeatInv
<1>4. CASE Demand
  BY <1>4 DEF Demand, callVars, RepeatInv, Unanswered, Bounded, Errors, Attempts
<1> QED BY <1>1, <1>2, <1>3, <1>4 DEF Next

\* However often a client repeats a request it got no success for, the wallet moves its
\* funds at most once, and once more for each failure.
THEOREM MovesAreBounded == Spec => []MovesBounded
<1> DEFINE I == TypeOK /\ WindowInv /\ RepeatInv
<1>1. Init => I
  <2>1. Init => RepeatInv
    <3> SUFFICES ASSUME Init PROVE RepeatInv
      OBVIOUS
    <3>1. \A r \in Call : Attempts(r) = {} /\ Errors(r) = {}
      BY NoneAssumption DEF Init, Attempts, Errors
    <3>2. IsFiniteSet({}) /\ Cardinality({}) = 0
      BY FS_EmptySet
    <3> QED BY <3>1, <3>2 DEF Init, RepeatInv, Unanswered, Bounded
  <2> QED BY <2>1, InitTyped, WindowInit
<1>2. I /\ [Next]_vars => I'
  <2>1. ASSUME I, Next PROVE I'
    BY <2>1, TypeStep, WindowStep, RepeatStep
  <2>2. ASSUME I, UNCHANGED vars PROVE I'
    <3>1. TypeOK' /\ WindowInv'
      BY <2>2 DEF TypeOK, WindowInv, vars, projectionVars, callVars, rowVars, At
    <3>2. RepeatInv'
      BY <2>2 DEF RepeatInv, Unanswered, Bounded, Errors, Attempts, vars, callVars
    <3> QED BY <3>1, <3>2
  <2> QED BY <2>1, <2>2
<1>3. I => MovesBounded
  <2> SUFFICES ASSUME I, NEW r \in Call
               PROVE  Cardinality({c \in Attempts(r) : wallet[c] # "none"}) <= 1 + faults
    BY DEF MovesBounded
  <2> DEFINE moved == {c \in Attempts(r) : wallet[c] # "none"}
  <2>1. Bounded(r) /\ faults \in Nat
    BY DEF RepeatInv, TypeOK
  <2>2. PICK c : moved \subseteq Errors(r) \cup {c}
    BY <2>1 DEF Bounded, Errors
  <2>3. IsFiniteSet(Errors(r) \cup {c}) /\ Cardinality(Errors(r) \cup {c}) <= Cardinality(Errors(r)) + 1
    BY <2>1, FS_AddElement DEF Bounded
  <2>4. IsFiniteSet(moved) /\ Cardinality(moved) <= Cardinality(Errors(r) \cup {c})
    BY <2>2, <2>3, FS_Subset
  <2>5. Cardinality(moved) \in Nat /\ Cardinality(Errors(r) \cup {c}) \in Nat
    BY <2>3, <2>4, FS_CardinalityType
  <2> HIDE DEF moved
  <2>6. Cardinality(moved) <= 1 + faults
    BY <2>1, <2>3, <2>4, <2>5 DEF Bounded
  <2> QED BY <2>6 DEF moved
<1> QED BY <1>1, <1>2, <1>3, PTL DEF Spec
===============================================================================
