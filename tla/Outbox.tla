-------------------------------- MODULE Outbox --------------------------------
(***************************************************************************)
(* The outbox (internal/ledger and the outbox table): appended entries are *)
(* drained by the dispatcher loop of every replica, which posts each to    *)
(* ledger-accounting, then emits it to the audit log, then marks it.       *)
(*                                                                         *)
(* No lock keeps two dispatchers off the same entry: a ListPending is a    *)
(* snapshot.  An entry is its id; ids are time-ordered (uuid v7), but made *)
(* before the INSERT, so rows may appear out of id order.                  *)
(***************************************************************************)
EXTENDS Naturals, FiniteSets

CONSTANTS
    Dispatcher,        \* the dispatcher loops, one per replica
    Entry,             \* ids of the entries
    Limit,             \* the batch size of ListPending (100)
    Rejected,          \* entries ledger-accounting never accepts (400)
    ConflictOnReplay,  \* does it answer 409 to a key it knows, or repeat its answer?
    MaxFaults          \* bound: failed calls and crashes

ASSUME DispatcherAssumption == IsFiniteSet(Dispatcher)
ASSUME EntryAssumption == Entry \subseteq Nat /\ Rejected \subseteq Entry
ASSUME LimitAssumption == Limit \in Nat \ {0}
ASSUME ConflictAssumption == ConflictOnReplay \in BOOLEAN
ASSUME FaultsAssumption == MaxFaults \in Nat

VARIABLES
    appended,    \* rows of the outbox table
    emitted,     \* those with emitted_at set
    posted,      \* keys ledger-accounting has
    postings,    \* how often it took each
    audited,     \* keys the audit log has
    pc,          \* per dispatcher: "idle", or the next call for its current entry
    todo,        \* per dispatcher: the rest of its list, the current entry included
    faults       \* used-up bound

vars == <<appended, emitted, posted, postings, audited, pc, todo, faults>>

Init ==
    /\ appended = {}
    /\ emitted = {}
    /\ posted = {}
    /\ postings = [e \in Entry |-> 0]
    /\ audited = {}
    /\ pc = [d \in Dispatcher |-> "idle"]
    /\ todo = [d \in Dispatcher |-> {}]
    /\ faults = 0

\* WHERE emitted_at IS NULL ORDER BY id LIMIT n.
EveryRow == appended
Pending == appended \ emitted
SkipsFirst(S) == {e \in S : Cardinality({f \in S : f < e}) \in 1..Limit}
FirstOf(S) == {e \in S : Cardinality({f \in S : f < e}) < Limit}

\* Entries are processed in the order of the list.
Current(d, e) == e \in todo[d] /\ \A f \in todo[d] : e <= f
At(d, e, here) == pc[d] = here /\ Current(d, e)
Goto(d, there) == pc' = [pc EXCEPT ![d] = there] /\ UNCHANGED todo

\* The entry is done with, or an error made the loop "continue" with the next one.
RestOf(d, e) == todo[d] \ {e}
Continue(d, e) ==
    /\ todo' = [todo EXCEPT ![d] = RestOf(d, e)]
    /\ pc' = [pc EXCEPT ![d] = IF RestOf(d, e) = {} THEN "idle" ELSE "post"]

\* Where an error leaves the loop.
StopsAtError(d, e) == todo' = [todo EXCEPT ![d] = {}] /\ pc' = [pc EXCEPT ![d] = "idle"]
GoesToMark(d, e) == Goto(d, "mark")
OnError(d, e) == Continue(d, e)

-------------------------------------------------------------------------------

\* Emitter.Append; ON CONFLICT (dedup_key) DO NOTHING makes a repeat a no-op.
Append(e) ==
    /\ e \notin appended
    /\ appended' = appended \cup {e}
    /\ UNCHANGED <<emitted, posted, postings, audited, pc, todo, faults>>

\* A tick: ListPending. With nothing pending, or if it fails, nothing happens.
List(d) ==
    /\ pc[d] = "idle"
    /\ Pending # {}
    /\ todo' = [todo EXCEPT ![d] = FirstOf(Pending)]
    /\ pc' = [pc EXCEPT ![d] = "post"]
    /\ UNCHANGED <<appended, emitted, posted, postings, audited, faults>>

LedgerTakes(e) ==
    /\ posted' = posted \cup {e}
    /\ postings' = [postings EXCEPT ![e] = @ + 1]

Refuses(e) == e \in Rejected \/ (ConflictOnReplay /\ e \in posted)

\* Ledger.Post with the dedup key as idempotency key; 400 and 409 are errors here.
Post(d, e) ==
    /\ At(d, e, "post")
    /\ \/ ~Refuses(e) /\ LedgerTakes(e) /\ Goto(d, "audit")
       \/ Refuses(e) /\ OnError(d, e) /\ UNCHANGED <<posted, postings>>
    /\ UNCHANGED <<appended, emitted, audited, faults>>

Audit(d, e) ==
    /\ At(d, e, "audit") /\ Goto(d, "mark")
    /\ audited' = audited \cup {e}
    /\ UNCHANGED <<appended, emitted, posted, postings, faults>>

MarkEmitted(d, e) ==
    /\ At(d, e, "mark") /\ Continue(d, e)
    /\ emitted' = emitted \cup {e}
    /\ UNCHANGED <<appended, posted, postings, audited, faults>>

\* A call fails, before or after it took effect; the loop continues with the next entry.
CallFails(d, e) ==
    /\ faults < MaxFaults
    /\ faults' = faults + 1
    /\ OnError(d, e)
    /\ \/ /\ At(d, e, "post")
          /\ (~Refuses(e) /\ LedgerTakes(e)) \/ UNCHANGED <<posted, postings>>
          /\ UNCHANGED <<audited, emitted>>
       \/ /\ At(d, e, "audit")
          /\ audited' \in {audited, audited \cup {e}}
          /\ UNCHANGED <<posted, postings, emitted>>
       \/ /\ At(d, e, "mark")
          /\ emitted' \in {emitted, emitted \cup {e}}
          /\ UNCHANGED <<posted, postings, audited>>
    /\ UNCHANGED appended

\* A replica dies with its list and is restarted.
Crash(d) ==
    /\ pc[d] # "idle"
    /\ faults < MaxFaults
    /\ faults' = faults + 1
    /\ pc' = [pc EXCEPT ![d] = "idle"]
    /\ todo' = [todo EXCEPT ![d] = {}]
    /\ UNCHANGED <<appended, emitted, posted, postings, audited>>

Dispatch(d) ==
    List(d) \/ \E e \in Entry : Post(d, e) \/ Audit(d, e) \/ MarkEmitted(d, e)

Next ==
    \/ \E e \in Entry : Append(e)
    \/ \E d \in Dispatcher : Dispatch(d) \/ Crash(d) \/ \E e \in Entry : CallFails(d, e)

Spec == Init /\ [][Next]_vars

\* The tickers keep firing and every call returns. Nothing obliges an append.
FairSpec == Spec /\ \A d \in Dispatcher : WF_vars(Dispatch(d))

-------------------------------------------------------------------------------
(* Correctness.                                                            *)

\* Type correctness: a list is a set of rows, and a busy dispatcher's is not empty.
TypeOK ==
    /\ appended \subseteq Entry /\ emitted \subseteq appended
    /\ posted \subseteq appended /\ audited \subseteq appended
    /\ postings \in [Entry -> Nat]
    /\ pc \in [Dispatcher -> {"idle", "post", "audit", "mark"}]
    /\ todo \in [Dispatcher -> SUBSET appended]
    /\ \A d \in Dispatcher : pc[d] = "idle" <=> todo[d] = {}
    /\ faults \in Nat

\* "Every movement has matching ledger posting and audit event": an entry leaves the
\* pending list only when both have it, and the audit log never runs ahead of the
\* ledger, whichever dispatchers race on stale lists, fail or crash between calls.
EmittedIsDelivered == emitted \subseteq audited /\ audited \subseteq posted

\* "No duplicate postings on replay": what the ledger is sent twice comes from a
\* failure or from two replicas draining one outbox, never from one loop alone.
PostingsBounded == \A e \in Entry : postings[e] <= Cardinality(Dispatcher) + faults

\* "Outbox guarantees delivery even if downstream is temporarily unavailable": an
\* entry the ledger accepts is eventually delivered, although entries it never
\* accepts stay at the head of the list, as long as these do not fill the list.
Delivered ==
    \A e \in Entry \ Rejected :
        e \in appended /\ Cardinality(Rejected) < Limit ~> e \in emitted
===============================================================================
