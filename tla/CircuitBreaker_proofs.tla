------------------------ MODULE CircuitBreaker_proofs -------------------------
(***************************************************************************)
(* The breaker's invariants for every number of callers and every          *)
(* threshold: however calls admitted before and after an opening end, the  *)
(* flag and the counter agree, and a half-open circuit has its probe.      *)
(***************************************************************************)
EXTENDS CircuitBreaker, TLAPS

USE DEF breaker

\* The counters and per-caller fields, and apart from them the flags: the first need
\* arithmetic, the second propositional reasoning.
Counters ==
    /\ failures \in Nat
    /\ via \in [Caller -> {"none", "closed", "probe"}]
    /\ tries \in [Caller -> 0..(MaxAttempts - 1)]
    /\ \A c \in Caller : via[c] = "none" => tries[c] = 0
    /\ fails \in Nat /\ giveUps \in Nat
Flags == open \in BOOLEAN /\ halfOpen \in BOOLEAN /\ elapsed \in BOOLEAN

LEMMA RecordCounts ==
    ASSUME failures \in Nat, RecordFailure
    PROVE  failures' \in Nat
BY DEF RecordFailure

LEMMA RecordFlags ==
    ASSUME Flags, RecordFailure
    PROVE  Flags'
BY Zenon DEF RecordFailure, Reopen, Flags

LEMMA ReturnCounts ==
    ASSUME Counters, NEW c \in Caller, Return(c)
    PROVE  /\ via' \in [Caller -> {"none", "closed", "probe"}]
           /\ tries' \in [Caller -> 0..(MaxAttempts - 1)]
           /\ \A d \in Caller : via'[d] = "none" => tries'[d] = 0
BY AttemptsAssumption DEF Return, Counters

LEMMA CountersStep ==
    ASSUME Counters, [Next]_vars
    PROVE  Counters'
<1> USE DEF Counters
<1>1. CASE TimeoutElapses
  BY <1>1 DEF TimeoutElapses
<1>2. ASSUME NEW c \in Caller, Call(c)
      PROVE  Counters'
  BY <1>2 DEF Call
<1>3. ASSUME NEW c \in Caller, Succeeds(c)
      PROVE  Counters'
  BY <1>3, ReturnCounts DEF Succeeds, RecordSuccess
<1>4. ASSUME NEW c \in Caller, FailsForGood(c)
      PROVE  Counters'
  BY <1>4, ReturnCounts, RecordCounts DEF FailsForGood, Fault
<1>5. ASSUME NEW c \in Caller, FailsRetryably(c)
      PROVE  Counters'
  <2>1. CASE LastTry(c)
    BY <1>5, <2>1, ReturnCounts, RecordCounts DEF FailsRetryably, Fault
  <2>2. CASE ~LastTry(c)
    BY <1>5, <2>2, AttemptsAssumption DEF FailsRetryably, LastTry, Fault
  <2> QED
    BY <2>1, <2>2
<1>6. ASSUME NEW c \in Caller, GivesUp(c)
      PROVE  Counters'
  BY <1>6, ReturnCounts DEF GivesUp
<1>7. CASE UNCHANGED vars
  BY <1>7 DEF vars
<1> QED
  BY <1>1, <1>2, <1>3, <1>4, <1>5, <1>6, <1>7 DEF Next, Ends

LEMMA FlagsStep ==
    ASSUME Flags, [Next]_vars
    PROVE  Flags'
<1>1. CASE TimeoutElapses
  BY <1>1, Zenon DEF TimeoutElapses, Flags
<1>2. ASSUME NEW c \in Caller, Call(c)
      PROVE  Flags'
  BY <1>2, Zenon DEF Call, Flags
<1>3. ASSUME NEW c \in Caller, Succeeds(c)
      PROVE  Flags'
  BY <1>3, Zenon DEF Succeeds, RecordSuccess, AfterSuccess, Flags
<1>4. ASSUME NEW c \in Caller, FailsForGood(c)
      PROVE  Flags'
  BY <1>4, RecordFlags, Zenon DEF FailsForGood
<1>5. ASSUME NEW c \in Caller, FailsRetryably(c)
      PROVE  Flags'
  BY <1>5, RecordFlags, Zenon DEF FailsRetryably, Flags
<1>6. ASSUME NEW c \in Caller, GivesUp(c)
      PROVE  Flags'
  BY <1>6, Zenon DEF GivesUp, Flags
<1>7. CASE UNCHANGED vars
  BY <1>7, Zenon DEF vars, Flags
<1> QED
  BY <1>1, <1>2, <1>3, <1>4, <1>5, <1>6, <1>7 DEF Next, Ends

\* Type correctness of the breaker and of the retry loops, for every instance.
THEOREM TypeCorrect == Spec => []TypeOK
<1>1. Init => Counters
  BY AttemptsAssumption DEF Init, Counters
<1>2. Init => Flags
  BY Zenon DEF Init, Flags
<1>3. Counters /\ [Next]_vars => Counters'
  BY CountersStep
<1>4. Flags /\ [Next]_vars => Flags'
  BY FlagsStep
<1>5. Counters /\ Flags => TypeOK
  BY DEF Counters, Flags, TypeOK
<1> QED
  BY <1>1, <1>2, <1>3, <1>4, <1>5, PTL DEF Spec

\* What an end of a call does to the breaker, whatever its outcome: the circuit is
\* left as it was, or half-open is cleared; flag and counter go together.
LEMMA EndsKeepCount ==
    ASSUME TypeOK, OpenIffTripped, halfOpen => open, NEW c \in Caller, Ends(c)
    PROVE  /\ OpenIffTripped'
           /\ ~halfOpen' \/ (UNCHANGED <<halfOpen, open>> /\ giveUps' > 0)
              \/ (UNCHANGED <<breaker, via, giveUps>>)
<1> USE ThresholdAssumption DEF TypeOK, OpenIffTripped
<1>1. CASE Succeeds(c)
  BY <1>1 DEF Succeeds, RecordSuccess, AfterSuccess
<1>2. CASE RecordFailure
  BY <1>2 DEF RecordFailure, Reopen, Trips
<1>3. CASE FailsForGood(c)
  BY <1>2, <1>3 DEF FailsForGood
<1>4. CASE FailsRetryably(c)
  BY <1>2, <1>4 DEF FailsRetryably
<1>5. CASE GivesUp(c)
  BY <1>5 DEF GivesUp
<1> QED
  BY <1>1, <1>3, <1>4, <1>5 DEF Ends

\* The two invariants are inductive together only: a failure while half-open re-opens the
\* circuit whatever the count, which is right since half-open means open.
LEMMA BreakerInvHolds == Spec => [](OpenIffTripped /\ HalfOpenHasProbe)
<1> DEFINE Inv == OpenIffTripped /\ HalfOpenHasProbe
<1>1. Init => Inv
  BY ThresholdAssumption DEF Init, OpenIffTripped, HalfOpenHasProbe
<1>2. TypeOK /\ Inv /\ [Next]_vars => Inv'
  <2> SUFFICES ASSUME TypeOK, Inv, [Next]_vars
               PROVE  Inv'
    OBVIOUS
  <2>1. CASE TimeoutElapses
    BY <2>1 DEF TimeoutElapses, OpenIffTripped, HalfOpenHasProbe, Probes
  <2>2. ASSUME NEW c \in Caller, Call(c)
        PROVE  Inv'
    BY <2>2 DEF Call, LetsProbe, OpenIffTripped, HalfOpenHasProbe, Probes, TypeOK
  <2>3. ASSUME NEW c \in Caller, Ends(c)
        PROVE  Inv'
    <3>1. OpenIffTripped'
      BY <2>3, EndsKeepCount DEF HalfOpenHasProbe
    <3>2. HalfOpenHasProbe'
      <4>1. CASE ~halfOpen'
        BY <4>1 DEF HalfOpenHasProbe
      <4>2. CASE UNCHANGED <<halfOpen, open>> /\ giveUps' > 0
        BY <4>2 DEF HalfOpenHasProbe
      <4>3. CASE UNCHANGED <<breaker, via, giveUps>>
        BY <4>3 DEF HalfOpenHasProbe, Probes
      <4> QED
        BY <2>3, <4>1, <4>2, <4>3, EndsKeepCount DEF HalfOpenHasProbe
    <3> QED
      BY <3>1, <3>2
  <2>4. CASE UNCHANGED vars
    BY <2>4 DEF vars, OpenIffTripped, HalfOpenHasProbe, Probes
  <2> QED
    BY <2>1, <2>2, <2>3, <2>4 DEF Next
<1> QED
  BY <1>1, <1>2, TypeCorrect, PTL DEF Spec

\* The circuit is open exactly while the failure count is at the threshold, however many
\* callers fail, succeed and probe at once.
THEOREM BreakerCorrect == Spec => []OpenIffTripped
BY BreakerInvHolds, PTL

\* A half-open circuit waits for a caller that is still there to end its probe, unless
\* one gave up: it is not half-open for nothing, whoever else opened it again meanwhile.
THEOREM HalfOpenIsProbed == Spec => []HalfOpenHasProbe
BY BreakerInvHolds, PTL
===============================================================================
