---------------------------- MODULE CircuitBreaker ----------------------------
(***************************************************************************)
(* The retry loop and the circuit breaker of one downstream client         *)
(* (internal/clients): Do, called concurrently by the goroutines that      *)
(* close batches, around the breaker they share.                           *)
(*                                                                         *)
(* Each method of the breaker runs under its mutex and is one step.  The   *)
(* last answer of a call and what Do records of it are one step too: an    *)
(* answer is visible to nobody before it is recorded.                      *)
(***************************************************************************)
EXTENDS Naturals

CONSTANTS
    Caller,         \* goroutines calling Do on this client
    Threshold,      \* failThreshold
    MaxAttempts,    \* opts.MaxAttempts, at least 1
    MaxFails,       \* bound: failed attempts; the outage ends with the last one
    MaxGiveUps      \* bound: calls abandoned in their backoff

ASSUME ThresholdAssumption == Threshold \in Nat \ {0}
ASSUME AttemptsAssumption == MaxAttempts \in Nat \ {0}
ASSUME BoundsAssumption == MaxFails \in Nat /\ MaxGiveUps \in Nat

VARIABLES
    failures, open, halfOpen,   \* the breaker's fields
    elapsed,    \* has resetTimeout passed since openedAt?
    via,        \* per caller: how it was admitted, "none" when it is not in Do
    tries,      \* per caller: failed attempts of its call
    fails, giveUps              \* used-up bounds

breaker == <<failures, open, halfOpen, elapsed>>
vars == <<breaker, via, tries, fails, giveUps>>

Init ==
    /\ failures = 0
    /\ open = FALSE
    /\ halfOpen = FALSE
    /\ elapsed = FALSE
    /\ via = [c \in Caller |-> "none"]
    /\ tries = [c \in Caller |-> 0]
    /\ fails = 0
    /\ giveUps = 0

Return(c) ==
    /\ via' = [via EXCEPT ![c] = "none"]
    /\ tries' = [tries EXCEPT ![c] = 0]

-------------------------------------------------------------------------------

\* RecordSuccess.
KeepsHalfOpen == halfOpen
AfterSuccess == FALSE
RecordSuccess ==
    /\ failures' = 0
    /\ open' = FALSE
    /\ halfOpen' = AfterSuccess
    /\ elapsed' = FALSE

Reopen == open' = TRUE /\ elapsed' = FALSE

\* RecordFailure: a half-open circuit re-opens without counting; otherwise the count
\* opens it, or pushes openedAt on if it is open already.
TripsLate(n) == n > Threshold
Trips(n) == n >= Threshold
RecordFailure ==
    \/ /\ halfOpen
       /\ Reopen
       /\ halfOpen' = FALSE
       /\ UNCHANGED failures
    \/ /\ ~halfOpen
       /\ failures' = failures + 1
       /\ IF Trips(failures + 1) THEN Reopen ELSE UNCHANGED <<open, elapsed>>
       /\ UNCHANGED halfOpen

\* Allow: an open circuit lets calls through once the timeout has passed.
OnlyOneProbe == open /\ elapsed /\ ~halfOpen
LetsProbe == open /\ elapsed

\* Do, up to its first attempt. A call that is not allowed changes nothing.
Call(c) ==
    /\ via[c] = "none"
    /\ \/ ~open /\ via' = [via EXCEPT ![c] = "closed"] /\ UNCHANGED halfOpen
       \/ LetsProbe /\ via' = [via EXCEPT ![c] = "probe"] /\ halfOpen' = TRUE
    /\ UNCHANGED <<failures, open, elapsed, tries, fails, giveUps>>

Succeeds(c) ==
    /\ via[c] # "none"
    /\ RecordSuccess /\ Return(c)
    /\ UNCHANGED <<fails, giveUps>>

Fault == fails < MaxFails /\ fails' = fails + 1

\* ErrConflict and ErrBadRequest are not retried, but count as failures.
FailsForGood(c) ==
    /\ via[c] # "none"
    /\ Fault
    /\ RecordFailure /\ Return(c)
    /\ UNCHANGED giveUps

\* Other errors are retried after a backoff, up to MaxAttempts attempts.
OneTryMore(c) == tries[c] >= MaxAttempts
LastTry(c) == tries[c] + 1 >= MaxAttempts
FailsRetryably(c) ==
    /\ via[c] # "none"
    /\ Fault
    /\ \/ LastTry(c) /\ RecordFailure /\ Return(c)
       \/ /\ ~LastTry(c)
          /\ tries' = [tries EXCEPT ![c] = @ + 1]
          /\ UNCHANGED <<breaker, via>>
    /\ UNCHANGED giveUps

\* The context ends during a backoff: Do returns and the breaker learns nothing.
GivesUp(c) ==
    /\ tries[c] > 0
    /\ giveUps < MaxGiveUps
    /\ giveUps' = giveUps + 1
    /\ Return(c)
    /\ UNCHANGED <<breaker, fails>>

TimeoutElapses ==
    /\ open /\ ~elapsed
    /\ elapsed' = TRUE
    /\ UNCHANGED <<failures, open, halfOpen, via, tries, fails, giveUps>>

Ends(c) == Succeeds(c) \/ FailsForGood(c) \/ FailsRetryably(c) \/ GivesUp(c)

Next == TimeoutElapses \/ \E c \in Caller : Call(c) \/ Ends(c)

Spec == Init /\ [][Next]_vars

\* Time passes and calls end. Of the environment it is assumed that there is traffic:
\* callers keep calling, as they do while batches keep closing.
FairSpec ==
    /\ Spec
    /\ WF_vars(TimeoutElapses)
    /\ \A c \in Caller : WF_vars(Call(c)) /\ WF_vars(Ends(c))

-------------------------------------------------------------------------------
(* Correctness.                                                            *)

Probes == {c \in Caller : via[c] = "probe"}

\* Type correctness: only a call has failed tries, and fewer than MaxAttempts.
TypeOK ==
    /\ failures \in Nat
    /\ open \in BOOLEAN /\ halfOpen \in BOOLEAN /\ elapsed \in BOOLEAN
    /\ via \in [Caller -> {"none", "closed", "probe"}]
    /\ tries \in [Caller -> 0..(MaxAttempts - 1)]
    /\ \A c \in Caller : via[c] = "none" => tries[c] = 0
    /\ fails \in Nat /\ giveUps \in Nat

\* The circuit is open exactly while the count is at the threshold, although
\* half-open failures are not counted and stale calls end in any order.
OpenIffTripped == open <=> failures >= Threshold

\* A half-open circuit has a probe on its way whose end will decide, unless a call
\* was abandoned: no success or failure leaves the mark of an earlier probe behind.
HalfOpenHasProbe == halfOpen => open /\ (Probes # {} \/ giveUps > 0)

\* Once the outage is over the circuit closes for good, although probes may be
\* abandoned and stale calls move openedAt.
Recovers == <>[]~open
===============================================================================
