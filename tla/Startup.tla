-------------------------------- MODULE Startup --------------------------------
(***************************************************************************)
(* Start-up against the schema: replicas that apply the migrations before  *)
(* they serve (postgres.Open) and the migrate command, which applies or    *)
(* reverts them, at the same time and without a lock between them.         *)
(*                                                                         *)
(* A script is several statements in one simple query, which Postgres runs *)
(* as one transaction.  The script of version v is taken to be what that   *)
(* of 0001 is, the only one so far: up creates tables if they are not      *)
(* there and inserts its own record, down drops them and deletes it.       *)
(***************************************************************************)
EXTENDS Integers, FiniteSets

CONSTANTS
    Replica,     \* instances of the service, with a DB_URL
    Command,     \* invocations of cmd/migrate
    Last,        \* the number of migrations: All() returns 1..Last in order
    MaxFaults    \* bound: failed calls and crashes

ASSUME ProcessAssumption == Replica \cap Command = {}
ASSUME LastAssumption == Last \in Nat \ {0} /\ MaxFaults \in Nat

Process == Replica \cup Command
Version == 1..Last

VARIABLES
    bookkeeping, \* whether the table schema_migrations exists
    recorded,    \* its rows
    tables,      \* the versions whose tables exist
    pc,          \* per process: "idle", its next call, "serving" or "done"
    doing,       \* per process: "up" or "down"
    version,     \* per process: the migration it is at
    raced,       \* an Up and a Down were under way at the same time
    faults       \* used-up bound

dbVars == <<bookkeeping, recorded, tables>>
vars == <<dbVars, pc, doing, version, raced, faults>>

Init ==
    /\ bookkeeping = FALSE
    /\ recorded = {}
    /\ tables = {}
    /\ pc = [p \in Process |-> "idle"]
    /\ doing = [p \in Process |-> "up"]
    /\ version = [p \in Process |-> 1]
    /\ raced = FALSE
    /\ faults = 0

At(p, here) == pc[p] = here
UnderWay(p) == pc[p] \notin {"idle", "serving", "done"}
Goto(p, there) == pc' = [pc EXCEPT ![p] = there] /\ UNCHANGED <<doing, version>>

\* An error is fatal: a replica is started again, a command has failed.
Exited(p) == IF p \in Replica THEN "idle" ELSE "done"
\* When all migrations are done Open returns the stores, and the replica serves.
Through(p) == IF p \in Replica THEN "serving" ELSE "done"

-------------------------------------------------------------------------------

\* Up first creates the bookkeeping table, Down does not.
SkipsCreate(d) == "query"
FirstStep(d) == IF d = "up" THEN "create" ELSE "query"

Begin(p, d) ==
    /\ At(p, "idle")
    /\ pc' = [pc EXCEPT ![p] = FirstStep(d)]
    /\ doing' = [doing EXCEPT ![p] = d]
    /\ version' = [version EXCEPT ![p] = IF d = "up" THEN 1 ELSE Last]
    /\ raced' = (raced \/ \E q \in Process : UnderWay(q) /\ doing[q] # d)
    /\ UNCHANGED <<dbVars, faults>>

Boot(r) == Begin(r, "up")
Invoke(c) == Begin(c, "up") \/ Begin(c, "down")

\* Two sessions that both find a table missing both create it; the second waits for the
\* first and then fails: IF NOT EXISTS does not protect it. The losers of p are any of
\* the processes that are at the same statement.
Losing(p, losers) ==
    losers \subseteq
        {q \in Process \ {p} : pc[q] = pc[p] /\ doing[q] = "up" /\ version[q] = version[p]}
After(p, there, losers) ==
    pc' = [q \in Process |->
              IF q \in losers THEN Exited(q) ELSE IF q = p THEN there ELSE pc[q]]

CreateBookkeeping(p) ==
    /\ At(p, "create")
    /\ \E losers \in SUBSET Process :
        /\ Losing(p, losers) /\ (bookkeeping => losers = {})
        /\ After(p, "query", losers)
    /\ bookkeeping' = TRUE
    /\ UNCHANGED <<recorded, tables, doing, version, raced, faults>>

\* The order of versions: Up goes up, Down goes down.
PastLast(p) == version[p] = IF doing[p] = "up" THEN Last + 1 ELSE 0
AtLast(p) == version[p] = IF doing[p] = "up" THEN Last ELSE 1
GoOn(p) ==
    /\ IF AtLast(p)
       THEN pc' = [pc EXCEPT ![p] = Through(p)] /\ version' = version
       ELSE /\ pc' = [pc EXCEPT ![p] = "query"]
            /\ version' = [version EXCEPT ![p] = IF doing[p] = "up" THEN @ + 1 ELSE @ - 1]
    /\ doing' = doing

\* The query asks for the record; without the bookkeeping table it is an error.
ToDo(p) == version[p] \in recorded <=> doing[p] = "down"
RecordsOnly == "record"
NotDone == "script"
Query(p) ==
    /\ At(p, "query")
    /\ IF ~bookkeeping THEN Goto(p, Exited(p))
       ELSE IF ToDo(p) THEN Goto(p, NotDone) ELSE GoOn(p)
    /\ UNCHANGED <<dbVars, raced, faults>>

ApplyScript(p) ==
    /\ At(p, "script") /\ doing[p] = "up"
    /\ \E losers \in SUBSET Process :
        /\ Losing(p, losers) /\ (version[p] \in tables => losers = {})
        /\ After(p, "record", losers)
    /\ tables' = tables \cup {version[p]}
    /\ recorded' = recorded \cup {version[p]}
    /\ UNCHANGED <<bookkeeping, doing, version, raced, faults>>

RevertScript(p) ==
    /\ At(p, "script") /\ doing[p] = "down" /\ Goto(p, "record")
    /\ tables' = tables \ {version[p]}
    /\ recorded' = recorded \ {version[p]}
    /\ UNCHANGED <<bookkeeping, raced, faults>>

\* The runner's own INSERT .. ON CONFLICT DO NOTHING, or DELETE.
Record(p) ==
    /\ At(p, "record") /\ GoOn(p)
    /\ recorded' = IF doing[p] = "up" THEN recorded \cup {version[p]}
                                      ELSE recorded \ {version[p]}
    /\ UNCHANGED <<bookkeeping, tables, raced, faults>>

\* A call fails or the process dies before it (a call that took effect and then failed is
\* a death right after it: a dead process leaves no statement behind that runs later).
Dies(p) ==
    /\ UnderWay(p) \/ At(p, "serving")
    /\ faults < MaxFaults
    /\ faults' = faults + 1
    /\ Goto(p, Exited(p))
    /\ UNCHANGED <<dbVars, raced>>

Migrate(p) ==
    CreateBookkeeping(p) \/ Query(p) \/ ApplyScript(p) \/ RevertScript(p) \/ Record(p)

Next ==
    \/ \E r \in Replica : Boot(r)
    \/ \E c \in Command : Invoke(c)
    \/ \E p \in Process : Migrate(p) \/ Dies(p)

Spec == Init /\ [][Next]_vars

\* A process that migrates goes on and a replica that exited is started again.
FairSpec ==
    Spec /\ \A p \in Process : WF_vars(Migrate(p)) /\ \A r \in Replica : WF_vars(Boot(r))

-------------------------------------------------------------------------------
(* Correctness.                                                            *)

\* Type correctness: a process is at a migration there is; only commands revert.
TypeOK ==
    /\ bookkeeping \in BOOLEAN /\ raced \in BOOLEAN
    /\ recorded \subseteq Version /\ tables \subseteq Version
    /\ pc \in [Process -> {"idle", "create", "query", "script", "record", "serving", "done"}]
    /\ doing \in [Process -> {"up", "down"}]
    /\ version \in [Process -> Version]
    /\ \A r \in Replica : doing[r] = "up" /\ ~At(r, "done")
    /\ \A c \in Command : ~At(c, "serving")
    /\ faults \in Nat

Reverted == \E c \in Command : doing[c] = "down"

\* However many replicas start at once and wherever they die, the record tells which
\* tables there are, a prefix of the migrations; and a replica that serves has all of
\* them until a Down is run. Only an Up that a Down overlaps breaks this: the runner's
\* INSERT may then record tables that were dropped since, and no start-up ever creates
\* them again.
SchemaSound ==
    /\ ~raced => recorded = tables /\ \A v \in tables : 1..v \subseteq tables
    /\ ~Reverted => \A r \in Replica : At(r, "serving") => tables = Version

\* Start-ups that make each other fail, die or follow a Down do not keep a replica from
\* serving for ever.
AllServe == \A r \in Replica : []<>At(r, "serving")
===============================================================================
