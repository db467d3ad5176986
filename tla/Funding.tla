-------------------------------- MODULE Funding --------------------------------
(***************************************************************************)
(* Hot-wallet funding (internal/funding): requests of clients and of the   *)
(* rebalance loop, and rebalancing jobs, each persisted, put into the      *)
(* outbox and then moved by wallet-management.                             *)
(*                                                                         *)
(* One process handles calls concurrently; every store, Redis or HTTP call *)
(* is one step, the wallet's in two: it takes the move, then it answers.   *)
(* CreateFundingRequest and Rebalance are the same steps on two tables.    *)
(***************************************************************************)
EXTENDS Projection

CONSTANTS
    Call,              \* calls of CreateFundingRequest and Rebalance
    Amount,            \* what may be asked for
    MaxFundingAmount,
    Target,            \* HotWalletTargetFor the asset
    Notional,          \* what one sample of demand counts
    MaxFaults,         \* bound: failed calls and crashes
    None

ASSUME AmountAssumption ==
    /\ Amount \subseteq Int
    /\ MaxFundingAmount \in Nat \ {0} /\ Target \in Nat /\ Notional \in Nat /\ MaxFaults \in Nat
ASSUME NoneAssumption == {"loop", "job", None} \cap Call = {} /\ None \notin {"loop", "job"}

VARIABLES
    pc,          \* per call: its next step
    amount,      \* per call: what it asks for
    request,     \* per call: the first attempt of the client's request it repeats
                 \* (itself, if it is that), the loop, or a rebalancing job
    row,         \* status of its row in funding_requests or rebalancing_jobs
    audited,     \* calls with their outbox entry
    marked,      \* calls whose idempotency key is marked
    wallet,      \* what wallet-management did: nothing, accepted it, moved the funds
    answer,      \* what the caller was told
    lost,        \* the outbox entries and wallet answers that got lost
    faults       \* used-up bound

callVars == <<pc, amount, request, answer>>
rowVars  == <<row, audited, marked>>
vars == <<projectionVars, callVars, rowVars, wallet, lost, faults>>

Init ==
    /\ ProjectionInit
    /\ pc = [c \in Call |-> "new"]
    /\ amount = [c \in Call |-> 0]
    /\ request = [c \in Call |-> None]
    /\ row = [c \in Call |-> "NONE"]
    /\ audited = {}
    /\ marked = {}
    /\ wallet = [c \in Call |-> "none"]
    /\ answer = [c \in Call |-> "none"]
    /\ lost = {}
    /\ faults = 0

At(c, here) == pc[c] = here
Goto(c, there) == pc' = [pc EXCEPT ![c] = there] /\ UNCHANGED <<amount, request, answer>>
Return(c, told) ==
    /\ pc' = [pc EXCEPT ![c] = "done"]
    /\ answer' = [answer EXCEPT ![c] = told]
    /\ UNCHANGED <<amount, request>>
Fault == faults < MaxFaults /\ faults' = faults + 1

-------------------------------------------------------------------------------
(* Who calls.                                                              *)

WithinPolicy(a) == a > 0 /\ a <= MaxFundingAmount

\* The first step of a call within policy.
SkipsPersist == "key"
FirstStep == "create"

\* A call arrives: out of policy it is refused and leaves nothing behind; otherwise
\* CreateFundingRequest looks at the projected demand, only for the record.
Begin(c, a, for) ==
    /\ At(c, "new")
    /\ amount' = [amount EXCEPT ![c] = a]
    /\ request' = [request EXCEPT ![c] = for]
    /\ IF WithinPolicy(a)
       THEN pc' = [pc EXCEPT ![c] = FirstStep] /\ answer' = answer
       ELSE pc' = [pc EXCEPT ![c] = "done"] /\ answer' = [answer EXCEPT ![c] = "refused"]
    /\ UNCHANGED <<rowVars, wallet, lost, faults>>

\* POST /v1/funding-requests.
Request(c) == \E a \in Amount : Begin(c, a, c) /\ ProjectDemand

Attempts(r) == {c \in Call : request[c] = r}

\* A client whose attempts were all answered by an error, or not at all, sends its
\* request again: the endpoint takes no idempotency key, so this is a new row.
Repeat(c, r) ==
    /\ request[r] = r
    /\ \A d \in Attempts(r) : answer[d] = "error"
    /\ Begin(c, amount[r], r)
    /\ ProjectDemand

\* checkAndRebalance: the loop waits for its call to return before its next tick; each
\* tick with a shortfall asks for all of it, up to the ceiling.
Capped(a) == IF a > MaxFundingAmount THEN MaxFundingAmount ELSE a
LoopTick(c) ==
    LET shortfall == Notional * Cardinality(Demanding) - Target IN
    /\ \A d \in Attempts("loop") : At(d, "done")
    /\ Target > 0 /\ shortfall > 0
    /\ Begin(c, Capped(shortfall), "loop")
    /\ ProjectDemand

\* Rebalance, which does not look at the demand.
StartJob(c) == \E a \in Amount : Begin(c, a, "job") /\ UNCHANGED projectionVars

-------------------------------------------------------------------------------
(* CreateFundingRequest and Rebalance.                                     *)

Insert(c) == row' = [row EXCEPT ![c] = "PENDING"]
FailedStatus == "FAILED"
RejectedStatus == "REJECTED"
SetStatus(c, status) == row' = [row EXCEPT ![c] = status]

Persist(c) ==
    /\ At(c, "create") /\ Goto(c, "append")
    /\ Insert(c)
    /\ UNCHANGED <<projectionVars, audited, marked, wallet, lost, faults>>

\* OnFunding, OnRebalance: append to the outbox.
Audit(c) ==
    /\ At(c, "append") /\ Goto(c, "key")
    /\ audited' = audited \cup {c}
    /\ UNCHANGED <<projectionVars, row, marked, wallet, lost, faults>>

\* CheckAndMark of a key that carries the row's id; what it returns is ignored.
Mark(c) ==
    /\ At(c, "key") /\ Goto(c, "move")
    /\ marked' = marked \cup {c}
    /\ UNCHANGED <<projectionVars, row, audited, wallet, lost, faults>>

\* wallet-management takes the move: it makes it, or answers that it is not completed
\* yet (FundingMoveResult.Completed), which nobody looks at.
Take(c) ==
    /\ At(c, "move") /\ Goto(c, "answer")
    /\ \E done \in {"accepted", "moved"} : wallet' = [wallet EXCEPT ![c] = done]
    /\ UNCHANGED <<projectionVars, rowVars, lost, faults>>

IgnoresAnswer == "done"
AfterAnswer == "confirm"
Answered(c) ==
    /\ At(c, "answer") /\ Goto(c, AfterAnswer)
    /\ UNCHANGED <<projectionVars, rowVars, wallet, lost, faults>>

\* What the caller is told when the move was confirmed, and when it was rejected: 201
\* with the request as it was created, where Rebalance returns the error.
AlwaysError == "error"
Created == "created"
ToldRejected(c) == IF request[c] = "job" THEN "error" ELSE "created"

Confirm(c) ==
    /\ At(c, "confirm") /\ Return(c, Created)
    /\ SetStatus(c, "COMPLETED")
    /\ UNCHANGED <<projectionVars, audited, marked, wallet, lost, faults>>

Reject(c) ==
    /\ At(c, "reject") /\ Return(c, ToldRejected(c))
    /\ SetStatus(c, RejectedStatus)
    /\ UNCHANGED <<projectionVars, audited, marked, wallet, lost, faults>>

-------------------------------------------------------------------------------
(* Failures.                                                               *)

\* A store call fails, before or after it took effect. An error of the insert or of the
\* confirmation is returned, those of the outbox and of the rejection are dropped.
StoreFails(c) ==
    /\ Fault
    /\ \/ At(c, "create") /\ Return(c, "error") /\ (Insert(c) \/ row' = row)
       \/ At(c, "confirm") /\ Return(c, "error") /\ (SetStatus(c, "COMPLETED") \/ row' = row)
       \/ /\ At(c, "reject") /\ Return(c, ToldRejected(c))
          /\ SetStatus(c, RejectedStatus) \/ row' = row
    /\ UNCHANGED <<projectionVars, audited, marked, wallet, lost>>

AuditFails(c) ==
    /\ Fault
    /\ At(c, "append") /\ Goto(c, "key")
    /\ \/ audited' = audited \cup {c} /\ lost' = lost
       \/ audited' = audited /\ lost' = lost \cup {<<"entry", c>>}
    /\ UNCHANGED <<projectionVars, row, marked, wallet>>

\* The idempotency store is not reached: logged, and the move goes on.
MarkFails(c) ==
    /\ Fault
    /\ At(c, "key") /\ Goto(c, "move")
    /\ marked' \in {marked, marked \cup {c}}
    /\ UNCHANGED <<projectionVars, row, audited, wallet, lost>>

\* Fund fails before the wallet took the move, or its answer does not come in time.
WalletFails(c) ==
    /\ Fault
    /\ \/ At(c, "move") /\ lost' = lost
       \/ At(c, "answer") /\ lost' = lost \cup {<<"answer", c>>}
    /\ Goto(c, "reject")
    /\ UNCHANGED <<projectionVars, rowVars, wallet>>

\* The process dies with the calls it is in; no call is resumed when it is back.
Crash ==
    /\ Fault
    /\ LET dying == {c \in Call : pc[c] \notin {"new", "done"}} IN
        /\ pc' = [c \in Call |-> IF c \in dying THEN "done" ELSE pc[c]]
        /\ answer' = [c \in Call |-> IF c \in dying THEN "error" ELSE answer[c]]
    /\ Forget
    /\ UNCHANGED <<amount, request, rowVars, wallet, lost>>

-------------------------------------------------------------------------------

\* wallet-management completes what it had accepted.
WalletCompletes(c) ==
    /\ wallet[c] = "accepted"
    /\ wallet' = [wallet EXCEPT ![c] = "moved"]
    /\ UNCHANGED <<projectionVars, callVars, rowVars, lost, faults>>

Start(c) == Request(c) \/ LoopTick(c) \/ StartJob(c) \/ \E r \in Call : Repeat(c, r)
Handle(c) ==
    Persist(c) \/ Audit(c) \/ Mark(c) \/ Take(c) \/ Answered(c) \/ Confirm(c) \/ Reject(c)
Fails(c) == StoreFails(c) \/ AuditFails(c) \/ MarkFails(c) \/ WalletFails(c)
Demand ==
    /\ Elapse \/ ProjectDemand \/ \E s \in Sample : Observe(s)
    /\ UNCHANGED <<callVars, rowVars, wallet, lost, faults>>

Next ==
    \/ \E c \in Call : Start(c) \/ Handle(c) \/ Fails(c) \/ WalletCompletes(c)
    \/ Crash \/ Demand

Spec == Init /\ [][Next]_vars

\* A call goes on: store, Redis and wallet answer, or their timeouts are among Fails.
\* Nobody has to call, and nothing has to fail.
FairSpec == Spec /\ \A c \in Call : WF_vars(Handle(c))

-------------------------------------------------------------------------------
(* Correctness.                                                            *)

\* Type correctness: a call that has begun has a request; an attempt repeats a first one.
TypeOK ==
    /\ now \in Nat /\ at \in [Sample -> Int] /\ kept \subseteq Sample
    /\ pc \in [Call -> {"new", "create", "append", "key", "move", "answer", "confirm",
                        "reject", "done"}]
    /\ amount \in [Call -> Int]
    /\ request \in [Call -> Call \cup {"loop", "job", None}]
    /\ \A c \in Call :
        /\ At(c, "new") <=> request[c] = None
        /\ request[c] \in Call => request[request[c]] = request[c]
    /\ row \in [Call -> {"NONE", "PENDING", "COMPLETED", "REJECTED"}]
    /\ audited \subseteq Call /\ marked \subseteq Call
    /\ wallet \in [Call -> {"none", "accepted", "moved"}]
    /\ answer \in [Call -> {"none", "refused", "created", "error"}]
    /\ lost \subseteq {"entry", "answer"} \X Call
    /\ faults \in Nat

\* "Every funding and rebalance move is persisted before execution" and within the
\* ceiling; it is in the outbox unless the append got lost. A row COMPLETED is a move the
\* wallet took; one REJECTED is none, unless the wallet's answer got lost.
RecordMatchesWallet ==
    \A c \in Call :
        /\ wallet[c] # "none" =>
              /\ row[c] # "NONE" /\ WithinPolicy(amount[c])
              /\ c \in audited \/ <<"entry", c>> \in lost
        /\ row[c] = "COMPLETED" => wallet[c] # "none"
        /\ row[c] = "REJECTED" /\ wallet[c] # "none" => <<"answer", c>> \in lost

\* "Replays are safe": of funding requests they are not, as each is a new row with a key
\* of its own; but a client that only repeats what it got no success for pays for each
\* failure with at most one more move, and without a failure it moves funds once.
MovesBounded ==
    \A r \in Call : Cardinality({c \in Attempts(r) : wallet[c] # "none"}) <= 1 + faults

\* A call returns, and leaves its row PENDING only if something failed.
Resolves ==
    \A c \in Call : ~At(c, "new") ~> At(c, "done") /\ (row[c] = "PENDING" => faults > 0)
===============================================================================
