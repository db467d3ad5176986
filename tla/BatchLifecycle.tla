---------------------------- MODULE BatchLifecycle ----------------------------
(***************************************************************************)
(* What the service promises of a batch and its aggregate order, whoever   *)
(* closes, submits, replays, fills and settles them: the batch passes      *)
(* through OPEN, CLOSED, EXECUTING and SETTLED in this order, one order is *)
(* created for it and only once it is closed, its notional is final, and a *)
(* settled batch is one whose fill is on record.                           *)
(*                                                                         *)
(* BatchFormation and AggregateExecution implement it; nothing here says   *)
(* which threads, calls or failures there are.                             *)
(***************************************************************************)
CONSTANTS
    Batch,
    Notional       \* what an order may be created with

VARIABLES
    status,        \* batches.status, "NONE" before the row exists
    order,         \* the notionals of the batch's aggregate orders
    filled,        \* the batches whose order has its fill
    settledOrder   \* the batches whose order is SETTLED

vars == <<status, order, filled, settledOrder>>

Init ==
    /\ status \in [Batch -> {"NONE", "OPEN"}]
    /\ order = [b \in Batch |-> {}]
    /\ filled = {}
    /\ settledOrder = {}

\* BatchStatus.CanTransitionTo.
CanTransition == {<<"OPEN", "CLOSED">>, <<"CLOSED", "EXECUTING">>, <<"EXECUTING", "SETTLED">>}

Open(b) ==
    /\ status[b] = "NONE"
    /\ status' = [status EXCEPT ![b] = "OPEN"]
    /\ UNCHANGED <<order, filled, settledOrder>>

\* A batch executes when it has an order and is settled when that is filled.
Advance(b, to) ==
    /\ <<status[b], to>> \in CanTransition
    /\ to = "EXECUTING" => order[b] # {}
    /\ to = "SETTLED" => b \in filled
    /\ status' = [status EXCEPT ![b] = to]
    /\ UNCHANGED <<order, filled, settledOrder>>

CreateOrder(b, n) ==
    /\ status[b] = "CLOSED" /\ order[b] = {}
    /\ order' = [order EXCEPT ![b] = {n}]
    /\ UNCHANGED <<status, filled, settledOrder>>

FillOrder(b) ==
    /\ order[b] # {}
    /\ filled' = filled \cup {b}
    /\ UNCHANGED <<status, order, settledOrder>>

SettleOrder(b) ==
    /\ b \in filled
    /\ settledOrder' = settledOrder \cup {b}
    /\ UNCHANGED <<status, order, filled>>

Next ==
    \E b \in Batch :
        \/ Open(b) \/ FillOrder(b) \/ SettleOrder(b)
        \/ \E to \in {"CLOSED", "EXECUTING", "SETTLED"} : Advance(b, to)
        \/ \E n \in Notional : CreateOrder(b, n)

Spec == Init /\ [][Next]_vars
===============================================================================
