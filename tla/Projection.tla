------------------------------ MODULE Projection ------------------------------
(***************************************************************************)
(* The demand projection (internal/projection): a sliding window of the    *)
(* notionals observed for an asset, in the memory of one process.  Assets  *)
(* do not influence each other, so the module is about one.                *)
(***************************************************************************)
EXTENDS Integers, FiniteSets

CONSTANTS
    Sample,      \* the notionals observed
    Window,      \* the length of the window
    MaxTime      \* bound: how far the clock runs

ASSUME SampleAssumption == IsFiniteSet(Sample)
ASSUME WindowAssumption == Window \in Nat \ {0} /\ MaxTime \in Nat

VARIABLES
    now,
    at,          \* when each sample was taken, over the life of the process
    kept         \* Model.samples

projectionVars == <<now, at, kept>>

Never == -1

ProjectionInit ==
    /\ now = 0
    /\ at = [s \in Sample |-> Never]
    /\ kept = {}

\* evictLocked: what was taken at the cutoff or before is dropped.
NotBefore(times, t) == {s \in Sample : times[s] >= t - Window}
After(times, t) == {s \in Sample : times[s] > t - Window}
Evicted(times, S, t) == S \cap After(times, t)

\* Observe appends and evicts as of the sample's own time, which is now or earlier:
\* samples of the past arrive in any order.
Observe(s) ==
    /\ at[s] = Never
    /\ \E t \in 0..now :
        /\ at' = [at EXCEPT ![s] = t]
        /\ kept' = Evicted(at', kept \cup {s}, t)
    /\ now' = now

\* ProjectedDemand (and VelocityPerSecond) evicts as of now and sums up the rest.
Demanding == Evicted(at, kept, now)
ProjectDemand == kept' = Demanding /\ UNCHANGED <<now, at>>

Elapse == now < MaxTime /\ now' = now + 1 /\ UNCHANGED <<at, kept>>

\* The process restarts: the model starts empty.
Forget == at' = [s \in Sample |-> Never] /\ kept' = {} /\ now' = now

\* "Sum of notional observed in the trailing window": whatever order the samples came in
\* and whenever the model was read, what it has kept gives the same sum as all samples
\* would. (An eviction as of another sample's time must not take away too much.)
DemandIsWindow == Demanding = {s \in Sample : at[s] # Never /\ at[s] + Window > now}
===============================================================================
