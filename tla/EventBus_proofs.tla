---------------------------- MODULE EventBus_proofs ----------------------------
(***************************************************************************)
(* The event bus for any number of messages, any capacity and any number   *)
(* of restarts: handle sees an event at most once, in order, and no life   *)
(* of the process loses more than its channel and its reader hold.         *)
(***************************************************************************)
EXTENDS EventBus, SequenceTheorems, FiniteSetTheorems, TLAPS

\* What was given to handle and what is still in the channel, in order.
Flow == delivered \o chan

\* f may come after e.
Follows(e, f) == IF kafka THEN e < f ELSE e # f /\ f \notin accepted[e]

\* e is committed, and older than a message the reader is about to send; or answered 202.
Sent(e) ==
    IF kafka THEN e <= committed /\ (reader = "send" => e < read)
             ELSE e \in Posted /\ post[e] = "accepted"

FlowInv ==
    /\ \A i, j \in 1..Len(Flow) : i < j => Follows(Flow[i], Flow[j])
    /\ \A i \in 1..Len(Flow) : Sent(Flow[i])

\* Who was answered before an event was posted was answered.
AcceptedInv ==
    \A e \in Posted : \A f \in accepted[e] : post[f] = "accepted"

BusInv == TypeOK /\ AcceptedInv /\ FlowInv

-------------------------------------------------------------------------------
(* Sequences.                                                              *)

LEMMA ConcatTyped ==
    ASSUME NEW S, NEW d \in Seq(S), NEW c \in Seq(S)
    PROVE  /\ d \o c \in Seq(S) /\ Len(d \o c) \in Nat
           /\ \A i \in 1..Len(d \o c) : (d \o c)[i] \in S
           /\ Len(d) \in Nat /\ Len(d) <= Len(d \o c)
           /\ \A i \in 1..Len(d) : (d \o c)[i] = d[i]
<1>1. Len(d) \in Nat /\ Len(c) \in Nat
  BY LenProperties
<1>2. /\ d \o c \in Seq(S) /\ Len(d \o c) = Len(d) + Len(c)
      /\ \A i \in 1..Len(d) + Len(c) : (d \o c)[i] = IF i <= Len(d) THEN d[i] ELSE c[i - Len(d)]
  BY ConcatProperties
<1>3. \A i \in 1..Len(d \o c) : (d \o c)[i] \in S
  BY <1>2, ElementOfSeq
<1> QED
  BY <1>1, <1>2, <1>3

\* The same of the flow, now and after a step.
LEMMA FlowTyped ==
    /\ TypeOK => Len(Flow) \in Nat /\ \A i \in 1..Len(Flow) : Flow[i] \in Event
    /\ TypeOK' => Len(Flow') \in Nat
<1>1. ASSUME TypeOK PROVE Len(Flow) \in Nat /\ \A i \in 1..Len(Flow) : Flow[i] \in Event
  BY <1>1, ConcatTyped DEF TypeOK, Flow
<1>2. ASSUME TypeOK' PROVE Len(Flow') \in Nat
  BY <1>2, ConcatTyped DEF TypeOK, Flow
<1> QED
  BY <1>1, <1>2

\* Giving the head of the channel to handle leaves the flow as it is.
LEMMA TakeKeepsFlow ==
    ASSUME NEW S, NEW d \in Seq(S), NEW c \in Seq(S), c # <<>>
    PROVE  /\ Append(d, Head(c)) \in Seq(S) /\ Tail(c) \in Seq(S)
           /\ Len(Tail(c)) < Len(c)
           /\ Append(d, Head(c)) \o Tail(c) = d \o c
<1>1. Len(d) \in Nat /\ Len(c) \in Nat \ {0}
  BY LenProperties, EmptySeq
<1>2. Head(c) \in S /\ Head(c) = c[1]
  BY HeadTailProperties
<1>3. /\ Tail(c) \in Seq(S) /\ Len(Tail(c)) = Len(c) - 1
      /\ \A i \in 1..Len(Tail(c)) : Tail(c)[i] = c[i + 1]
  BY HeadTailProperties
<1>4. /\ Append(d, Head(c)) \in Seq(S) /\ Len(Append(d, Head(c))) = Len(d) + 1
      /\ \A i \in 1..Len(d) + 1 : Append(d, Head(c))[i] = IF i <= Len(d) THEN d[i] ELSE c[1]
  BY <1>1, <1>2
<1> DEFINE a == Append(d, Head(c))
           t == Tail(c)
<1> HIDE DEF a, t
<1>5. /\ a \o t \in Seq(S) /\ Len(a \o t) = Len(a) + Len(t)
      /\ \A i \in 1..Len(a) + Len(t) : (a \o t)[i] = IF i <= Len(a) THEN a[i] ELSE t[i - Len(a)]
  BY <1>3, <1>4, ConcatProperties DEF a, t
<1>6. /\ d \o c \in Seq(S) /\ Len(d \o c) = Len(d) + Len(c)
      /\ \A i \in 1..Len(d) + Len(c) : (d \o c)[i] = IF i <= Len(d) THEN d[i] ELSE c[i - Len(d)]
  BY ConcatProperties
<1>7. ASSUME NEW i \in 1..Len(d) + Len(c)
      PROVE  (a \o t)[i] = (d \o c)[i]
  <2>0. /\ Len(a) = Len(d) + 1 /\ i \in 1..Len(a) + Len(t)
        /\ \A k \in 1..Len(d) + 1 : a[k] = IF k <= Len(d) THEN d[k] ELSE c[1]
    BY <1>1, <1>3, <1>4 DEF a, t
  <2>1. CASE i <= Len(d)
    <3>1. (a \o t)[i] = a[i]
      BY <2>0, <2>1, <1>1, <1>5
    <3>2. a[i] = d[i]
      BY <2>0, <2>1, <1>1
    <3>3. (d \o c)[i] = d[i]
      BY <2>1, <1>6
    <3> QED
      BY <3>1, <3>2, <3>3
  <2>2. CASE i = Len(d) + 1
    <3>1. (a \o t)[i] = a[i]
      BY <2>0, <2>2, <1>1, <1>5
    <3>2. a[i] = c[1]
      BY <2>0, <2>2, <1>1
    <3>3. (d \o c)[i] = c[1]
      BY <2>2, <1>1, <1>6
    <3> QED
      BY <3>1, <3>2, <3>3
  <2>3. CASE i > Len(d) + 1
    <3>1. i - Len(a) \in 1..Len(t) /\ Len(a) = Len(d) + 1 /\ i \in 1..Len(a) + Len(t)
      BY <2>3, <1>1, <1>3, <1>4 DEF a, t
    <3>2. (a \o t)[i] = t[i - Len(a)]
      BY <3>1, <1>5, <2>3, <1>1
    <3>3. t[i - Len(a)] = c[i - Len(a) + 1]
      BY <3>1, <1>3 DEF t
    <3>4. (d \o c)[i] = c[i - Len(d)]
      BY <2>3, <1>1, <1>6
    <3> QED
      BY <3>1, <3>2, <3>3, <3>4, <1>1
  <2>4. i <= Len(d) \/ i = Len(d) + 1 \/ i > Len(d) + 1
    BY <1>1
  <2> QED
    BY <2>1, <2>2, <2>3, <2>4
<1>8. a \o t = d \o c
  <2>1. Len(a \o t) = Len(d \o c) /\ Len(a \o t) = Len(d) + Len(c)
    BY <1>1, <1>3, <1>4, <1>5, <1>6 DEF a, t
  <2> QED
    BY <1>5, <1>6, <1>7, <2>1, SeqEqual
<1> QED
  BY <1>1, <1>3, <1>4, <1>8 DEF a, t

\* Sending on the channel appends to the flow.
LEMMA SendAppends ==
    ASSUME NEW S, NEW d \in Seq(S), NEW c \in Seq(S), NEW e \in S
    PROVE  /\ Append(c, e) \in Seq(S) /\ Len(Append(c, e)) = Len(c) + 1
           /\ Len(d \o Append(c, e)) = Len(d \o c) + 1
           /\ \A i \in 1..Len(d \o c) : (d \o Append(c, e))[i] = (d \o c)[i]
           /\ (d \o Append(c, e))[Len(d \o c) + 1] = e
<1>1. Len(d) \in Nat /\ Len(c) \in Nat
  BY LenProperties
<1>2. /\ Append(c, e) \in Seq(S) /\ Len(Append(c, e)) = Len(c) + 1
      /\ \A i \in 1..Len(c) + 1 : Append(c, e)[i] = IF i <= Len(c) THEN c[i] ELSE e
  BY <1>1
<1> DEFINE a == Append(c, e)
<1> HIDE DEF a
<1>3. /\ Len(d \o a) = Len(d) + Len(a)
      /\ \A i \in 1..Len(d) + Len(a) : (d \o a)[i] = IF i <= Len(d) THEN d[i] ELSE a[i - Len(d)]
  BY <1>2, ConcatProperties DEF a
<1>4. /\ Len(d \o c) = Len(d) + Len(c)
      /\ \A i \in 1..Len(d) + Len(c) : (d \o c)[i] = IF i <= Len(d) THEN d[i] ELSE c[i - Len(d)]
  BY ConcatProperties
<1>5. \A i \in 1..Len(d \o c) : (d \o a)[i] = (d \o c)[i]
  BY <1>1, <1>2, <1>3, <1>4 DEF a
<1>6. (d \o a)[Len(d \o c) + 1] = e
  BY <1>1, <1>2, <1>3, <1>4 DEF a
<1> QED
  BY <1>1, <1>2, <1>3, <1>4, <1>5, <1>6 DEF a

-------------------------------------------------------------------------------
(* What a step may do to the flow.                                         *)

\* Nothing that was sent is taken back, nor its order.
Keeps ==
    /\ kafka' = kafka
    /\ kafka => /\ committed <= committed'
                /\ reader' = "send" => \/ reader = "send" /\ read' = read
                                       \/ committed < read'
    /\ ~kafka => \A e \in Posted : post[e] = "accepted" =>
                    post'[e] = "accepted" /\ accepted'[e] = accepted[e]

\* The flow stays as it is, or (after a restart) some first part of it stays.
LEMMA PrefixKeeps ==
    ASSUME BusInv, TypeOK', Keeps,
           Len(Flow') <= Len(Flow), \A i \in 1..Len(Flow') : Flow'[i] = Flow[i]
    PROVE  FlowInv'
<1>1. /\ Len(Flow) \in Nat /\ Len(Flow') \in Nat
      /\ \A i \in 1..Len(Flow) : Flow[i] \in Event
  BY FlowTyped DEF BusInv
<1>2. \A i \in 1..Len(Flow') : i \in 1..Len(Flow) /\ Flow'[i] = Flow[i]
  BY <1>1
<1>3. ASSUME NEW e \in Event, Sent(e) PROVE Sent(e)'
  <2>1. committed \in Nat /\ committed' \in Nat /\ read \in Nat /\ read' \in Nat /\ e \in Nat
    BY LastAssumption DEF BusInv, TypeOK, Event
  <2> QED
    BY <1>3, <2>1 DEF Sent, Keeps
<1>4. ASSUME NEW e \in Event, NEW f, Sent(e), Follows(e, f) PROVE Follows(e, f)'
  BY <1>4 DEF Sent, Keeps, Follows
<1>5. \A i \in 1..Len(Flow) : Sent(Flow[i])
  BY DEF BusInv, FlowInv
<1>6. \A i, j \in 1..Len(Flow) : i < j => Follows(Flow[i], Flow[j])
  BY DEF BusInv, FlowInv
<1>7. ASSUME NEW i \in 1..Len(Flow') PROVE Sent(Flow[i])'
  <2>1. Flow[i] \in Event /\ Sent(Flow[i]) /\ Flow'[i] = Flow[i]
    BY <1>1, <1>2, <1>5
  <2> QED
    BY <2>1, <1>3 DEF Sent
<1>8. ASSUME NEW i \in 1..Len(Flow'), NEW j \in 1..Len(Flow'), i < j
      PROVE  Follows(Flow[i], Flow[j])'
  <2>1. /\ Flow[i] \in Event /\ Sent(Flow[i]) /\ Flow'[i] = Flow[i] /\ Flow'[j] = Flow[j]
    BY <1>1, <1>2, <1>5
  <2>2. Follows(Flow[i], Flow[j])
    BY <1>2, <1>6, <1>8
  <2> QED
    BY <2>1, <2>2, <1>4 DEF Follows
<1> QED
  BY <1>7, <1>8 DEF FlowInv

\* The flow gets longer by an event that may follow everything in it.
LEMMA AppendKeeps ==
    ASSUME BusInv, TypeOK', Keeps, NEW e \in Event,
           chan' = Append(chan, e), delivered' = delivered,
           Sent(e)', \A f \in Event : Sent(f) => Sent(f)' /\ Follows(f, e)'
    PROVE  FlowInv'
<1>1. /\ Len(Flow) \in Nat
      /\ \A i \in 1..Len(Flow) : Flow[i] \in Event
  BY FlowTyped DEF BusInv
<1>2. /\ Len(Flow') = Len(Flow) + 1 /\ Flow'[Len(Flow) + 1] = e
      /\ \A i \in 1..Len(Flow) : Flow'[i] = Flow[i]
  BY SendAppends DEF BusInv, TypeOK, Flow
<1>3. \A i \in 1..Len(Flow') : i \in 1..Len(Flow) \/ i = Len(Flow) + 1
  BY <1>1, <1>2
<1>4. /\ \A i \in 1..Len(Flow) : Sent(Flow[i])
      /\ \A i, j \in 1..Len(Flow) : i < j => Follows(Flow[i], Flow[j])
  BY DEF BusInv, FlowInv
<1>5. ASSUME NEW i \in 1..Len(Flow') PROVE Sent(Flow[i])'
  <2>1. CASE i \in 1..Len(Flow)
    <3>1. Flow[i] \in Event /\ Sent(Flow[i]) /\ Flow'[i] = Flow[i]
      BY <1>1, <1>2, <1>4, <2>1
    <3> QED
      BY <3>1 DEF Sent
  <2>2. CASE i = Len(Flow) + 1
    BY <1>2, <2>2 DEF Sent
  <2> QED
    BY <1>3, <2>1, <2>2
<1>6. ASSUME NEW i \in 1..Len(Flow'), NEW j \in 1..Len(Flow'), i < j
      PROVE  Follows(Flow[i], Flow[j])'
  <2>1. i \in 1..Len(Flow)
    BY <1>1, <1>2, <1>6
  <2>2. Flow[i] \in Event /\ Sent(Flow[i]) /\ Flow'[i] = Flow[i]
    BY <1>1, <1>2, <1>4, <2>1
  <2>3. CASE j \in 1..Len(Flow)
    <3>1. Follows(Flow[i], Flow[j]) /\ Flow'[j] = Flow[j]
      BY <1>2, <1>4, <1>6, <2>1, <2>3
    <3> QED
      BY <2>2, <3>1 DEF Follows, Sent, Keeps
  <2>4. CASE j = Len(Flow) + 1
    BY <1>2, <2>2, <2>4 DEF Follows
  <2> QED
    BY <1>3, <2>3, <2>4
<1> QED
  BY <1>5, <1>6 DEF FlowInv

-------------------------------------------------------------------------------
(* Type correctness of every step.                                         *)

LEMMA EventTyped ==
    /\ Event \subseteq Nat /\ Cap \in Nat /\ Cap # 0 /\ Posted \subseteq Event
    /\ \A m \in Nat, n \in Event : m <= n => m \in Event \cup {0}
BY LastAssumption, PostedAssumption, CapAssumption DEF Event

LEMMA ConsumeTyped == TypeOK /\ Consume => TypeOK'
<1> SUFFICES ASSUME TypeOK, Consume PROVE TypeOK'
  OBVIOUS
<1>1. CASE Subscribe
  BY <1>1, EventTyped DEF TypeOK, Subscribe, StartOffset, broker
<1>2. CASE Take
  <2>1. /\ Append(delivered, Head(chan)) \in Seq(Event) /\ Tail(chan) \in Seq(Event)
        /\ Len(Tail(chan)) < Len(chan) /\ Len(Tail(chan)) \in Nat /\ Len(chan) \in Nat
    BY <1>2, TakeKeepsFlow, LenProperties DEF TypeOK, Take
  <2>2. chan' \in Seq(Event) /\ delivered' \in Seq(Event) /\ Len(chan') <= Cap
    BY <1>2, <2>1, EventTyped DEF TypeOK, Take
  <2> QED
    BY <1>2, <2>2 DEF TypeOK, Take, broker
<1>3. CASE Finish
  BY <1>3 DEF TypeOK, Finish, broker
<1>4. CASE Return
  BY <1>4 DEF TypeOK, Return, broker
<1> QED
  BY <1>1, <1>2, <1>3, <1>4 DEF Consume

LEMMA ReaderTyped == TypeOK /\ Reader => TypeOK'
<1> SUFFICES ASSUME TypeOK, Reader PROVE TypeOK'
  OBVIOUS
<1> committed \in Nat /\ produced \in Nat /\ read \in Nat /\ Len(chan) \in Nat /\ Cap \in Nat
  BY EventTyped, LenProperties DEF TypeOK
<1>1. CASE Fetch
  <2>1. read + 1 \in Event
    BY <1>1, LastAssumption DEF TypeOK, Fetch, Event
  <2> QED
    BY <1>1, <2>1 DEF TypeOK, Fetch, broker
<1>2. CASE Commit
  BY <1>2 DEF TypeOK, Commit, OffsetOf
<1>3. CASE Forward
  <2>1. read \in Event
    BY <1>3 DEF TypeOK, Forward
  <2>2. chan' \in Seq(Event) /\ Len(chan') <= Cap
    BY <1>3, <2>1, SendAppends DEF TypeOK, Forward, SendOrWait, HasRoom
  <2> QED
    BY <1>3, <2>2 DEF TypeOK, Forward, broker
<1>4. CASE ReaderStops
  <2>1. UNCHANGED <<kafka, produced, read, chan, consumer, post, accepted, delivered, stopping,
                        lives, begun, faults>>
        /\ reader' = "ended" /\ sub' = "closed"
    BY <1>4 DEF ReaderStops, Ends
  <2>2. committed' \in 0..produced /\ begun' \in 0..committed'
    BY <1>4 DEF TypeOK, ReaderStops, OffsetOf
  <2>3. consumer # "start" /\ kafka
    BY <1>4 DEF TypeOK, ReaderStops
  <2> QED
    BY <2>1, <2>2, <2>3 DEF TypeOK
<1> QED
  BY <1>1, <1>2, <1>3, <1>4 DEF Reader

LEMMA OthersTyped == TypeOK /\ [Next]_vars /\ ~Consume /\ ~Reader => TypeOK'
<1> SUFFICES ASSUME TypeOK, [Next]_vars, ~Consume, ~Reader PROVE TypeOK'
  OBVIOUS
<1> /\ committed \in Nat /\ produced \in Nat /\ read \in Nat /\ Len(chan) \in Nat /\ Cap \in Nat
    /\ faults \in Nat
  BY EventTyped, LenProperties DEF TypeOK
<1>1. CASE CommitFails
  <2>1. committed' \in 0..produced /\ kafka /\ consumer # "start" /\ faults' \in Nat
    BY <1>1 DEF TypeOK, CommitFails, OffsetOf, Fault
  <2>2. begun' \in 0..committed'
    BY <1>1 DEF TypeOK, CommitFails, OffsetOf
  <2> QED
    BY <1>1, <2>1, <2>2 DEF TypeOK, CommitFails, AfterError, Ends
<1>2. CASE Produce
  BY <1>2 DEF TypeOK, Produce, process
<1>3. ASSUME NEW e \in Posted, Post(e) PROVE TypeOK'
  <2>1. post' \in [Posted -> {"none", "listed", "unlisted", "accepted", "aborted"}]
    BY <1>3 DEF TypeOK, Post
  <2>2. accepted' \in [Posted -> SUBSET Posted]
    BY <1>3, EventTyped DEF TypeOK, Post
  <2> QED
    BY <1>3, <2>1, <2>2 DEF TypeOK, Post, broker, process
<1>4. ASSUME NEW e \in Posted, Offer(e) PROVE TypeOK'
  <2>1. post' \in [Posted -> {"none", "listed", "unlisted", "accepted", "aborted"}] /\ ~kafka
    BY <1>4 DEF TypeOK, Offer
  <2>2. e \in Event
    BY EventTyped
  <2>3. chan' \in Seq(Event) /\ Len(chan') <= Cap
    <3>1. chan' = chan \/ (chan' = Append(chan, e) /\ HasRoom)
      BY <1>4 DEF Offer, SendOrDrop
    <3>2. CASE chan' = chan
      BY <3>2 DEF TypeOK
    <3>3. CASE chan' = Append(chan, e) /\ HasRoom
      <4>1. chan \in Seq(Event) /\ Len(chan) < Cap
        BY <3>3 DEF TypeOK, HasRoom
      <4>2. Append(chan, e) \in Seq(Event) /\ Len(Append(chan, e)) = Len(chan) + 1
        BY <2>2, <4>1, AppendProperties
      <4> QED
        BY <3>3, <4>1, <4>2
    <3> QED
      BY <3>1, <3>2, <3>3
  <2> QED
    BY <1>4, <2>1, <2>3 DEF TypeOK, Offer, broker
<1>5. CASE StopSubscription
  BY <1>5 DEF TypeOK, StopSubscription, broker
<1>6. CASE Shutdown
  BY <1>6 DEF TypeOK, Shutdown, Fault, broker
<1>7. CASE Restart
  <2>1. /\ post' \in [Posted -> {"none", "listed", "unlisted", "accepted", "aborted"}]
        /\ kafka => \A e \in Posted : post'[e] = "none"
    BY <1>7 DEF TypeOK, Restart
  <2>2. chan' \in Seq(Event) /\ Len(chan') <= Cap /\ lives' \in Nat \ {0} /\ faults' \in Nat
    BY <1>7, EmptySeq, EventTyped DEF TypeOK, Restart, Fault
  <2>3. /\ reader' = "off" /\ read' = 0 /\ sub' = "none" /\ consumer' = "start"
        /\ stopping' = FALSE
        /\ kafka' = kafka /\ produced' = produced /\ committed' = committed
        /\ accepted' = accepted /\ delivered' = delivered
    BY <1>7 DEF Restart, broker
  <2>4. produced' \in Event \cup {0} /\ committed' \in 0..produced' /\ read' \in 0..produced'
    BY <2>3 DEF TypeOK
  <2>7. begun' \in 0..committed'
    BY <1>7, <2>3 DEF TypeOK, Restart
  <2>5. /\ kafka' \in BOOLEAN /\ stopping' \in BOOLEAN
        /\ accepted' \in [Posted -> SUBSET Posted] /\ delivered' \in Seq(Event)
    BY <2>3, Zenon DEF TypeOK
  <2>6. IF kafka' THEN \A e \in Posted : post'[e] = "none" ELSE reader' = "off"
    BY <2>1, <2>3
  <2> QED
    BY <2>1, <2>2, <2>3, <2>4, <2>5, <2>6, <2>7 DEF TypeOK
<1>8. CASE UNCHANGED vars
  BY <1>8 DEF TypeOK, vars, broker, process
<1> QED
  BY <1>1, <1>2, <1>3, <1>4, <1>5, <1>6, <1>7, <1>8 DEF Next

LEMMA StepTyped == TypeOK /\ [Next]_vars => TypeOK'
BY ConsumeTyped, ReaderTyped, OthersTyped

-------------------------------------------------------------------------------
(* The flow under every step.                                              *)

LEMMA AcceptedStep == TypeOK /\ AcceptedInv /\ [Next]_vars => AcceptedInv'
<1> SUFFICES ASSUME TypeOK, AcceptedInv, [Next]_vars PROVE AcceptedInv'
  OBVIOUS
<1>1. ASSUME NEW e \in Posted, Post(e) PROVE AcceptedInv'
  BY <1>1 DEF TypeOK, AcceptedInv, Post
<1>2. ASSUME NEW e \in Posted, Offer(e) PROVE AcceptedInv'
  BY <1>2 DEF TypeOK, AcceptedInv, Offer
<1>3. CASE Restart
  BY <1>3 DEF TypeOK, AcceptedInv, Restart
<1>4. CASE UNCHANGED <<post, accepted>>
  BY <1>4 DEF AcceptedInv
<1>5. Consume \/ Reader \/ CommitFails \/ Produce \/ StopSubscription \/ Shutdown \/ UNCHANGED vars
      => UNCHANGED <<post, accepted>>
  BY DEF Consume, Subscribe, Take, Finish, Return, Reader, Fetch, Commit, Forward, ReaderStops,
     CommitFails, Produce, StopSubscription, Shutdown, vars
<1> QED
  BY <1>1, <1>2, <1>3, <1>4, <1>5 DEF Next

\* What was sent stays sent, in its order.
LEMMA StepKeeps == TypeOK /\ [Next]_vars => Keeps
<1> SUFFICES ASSUME TypeOK, [Next]_vars PROVE Keeps
  OBVIOUS
<1> committed \in Nat /\ read \in Nat
  BY EventTyped DEF TypeOK
<1>1. CASE Consume
  BY <1>1 DEF Keeps, Consume, Subscribe, Take, Finish, Return, broker
<1>2. CASE Fetch \/ Forward
  BY <1>2 DEF Keeps, Fetch, Forward, broker
<1>3. CASE Commit
  BY <1>3 DEF TypeOK, Keeps, Commit, OffsetOf
<1>4. CASE ReaderStops
  BY <1>4 DEF TypeOK, Keeps, ReaderStops, Ends, OffsetOf
<1>5. CASE CommitFails
  BY <1>5 DEF TypeOK, Keeps, CommitFails, AfterError, Ends, OffsetOf
<1>6. CASE Produce \/ StopSubscription \/ Shutdown \/ UNCHANGED vars
  BY <1>6 DEF Keeps, Produce, StopSubscription, Shutdown, vars, broker, process
<1>7. ASSUME NEW e \in Posted, Post(e) PROVE Keeps
  BY <1>7 DEF TypeOK, Keeps, Post, broker, process
<1>8. ASSUME NEW e \in Posted, Offer(e) PROVE Keeps
  BY <1>8 DEF TypeOK, Keeps, Offer, broker
<1>9. CASE Restart
  BY <1>9 DEF TypeOK, Keeps, Restart, broker
<1> QED
  BY <1>1, <1>2, <1>3, <1>4, <1>5, <1>6, <1>7, <1>8, <1>9 DEF Next, Reader

LEMMA FlowStep == BusInv /\ [Next]_vars => FlowInv'
<1> SUFFICES ASSUME BusInv, [Next]_vars PROVE FlowInv'
  OBVIOUS
<1> TypeOK' /\ Keeps /\ TypeOK
  BY StepTyped, StepKeeps DEF BusInv
<1> Len(Flow) \in Nat /\ delivered \in Seq(Event) /\ chan \in Seq(Event)
  BY FlowTyped DEF TypeOK
<1>1. CASE Flow' = Flow
  BY <1>1, PrefixKeeps
<1>2. CASE Take
  <2>1. Flow' = Flow
    BY <1>2, TakeKeepsFlow DEF Take, Flow
  <2> QED
    BY <1>1, <2>1
<1>3. CASE UNCHANGED <<delivered, chan>>
  BY <1>1, <1>3 DEF Flow
<1>4. CASE Forward
  <2>1. /\ kafka /\ reader = "send" /\ reader' = "read" /\ read' = read /\ committed' = committed
        /\ kafka' = kafka /\ chan' = Append(chan, read) /\ delivered' = delivered
        /\ read \in Event /\ read = committed
    BY <1>4 DEF TypeOK, Forward, SendOrWait, broker
  <2>2. Sent(read)'
    BY <2>1, EventTyped DEF Sent
  <2>3. ASSUME NEW f \in Event, Sent(f) PROVE Sent(f)' /\ Follows(f, read)'
    BY <2>1, <2>3 DEF Sent, Follows
  <2> QED
    BY <2>1, <2>2, <2>3, AppendKeeps
<1>5. ASSUME NEW e \in Posted, Offer(e) PROVE FlowInv'
  <2>1. CASE chan' = chan
    BY <1>3, <1>5, <2>1 DEF Offer, SendOrDrop
  <2>2. CASE chan' = Append(chan, e)
    <3>1. /\ ~kafka /\ ~kafka' /\ post[e] \in {"listed", "unlisted"} /\ delivered' = delivered
          /\ accepted' = accepted /\ e \in Event
      BY <1>5, EventTyped DEF TypeOK, Offer, broker
    <3>2. CASE post' = [post EXCEPT ![e] = "accepted"]
      <4>1. Sent(e)'
        BY <3>1, <3>2 DEF TypeOK, Sent
      <4>2. ASSUME NEW f \in Event, Sent(f) PROVE Sent(f)' /\ Follows(f, e)'
        BY <3>1, <3>2, <4>2 DEF TypeOK, Sent, Follows, BusInv, AcceptedInv
      <4> QED
        BY <2>2, <3>1, <4>1, <4>2, AppendKeeps
    <3>3. CASE UNCHANGED chan
      BY <1>3, <3>1, <3>3
    <3> QED
      BY <1>5, <3>2, <3>3 DEF Offer, SendOrDrop
  <2> QED
    BY <1>5, <2>1, <2>2 DEF Offer, SendOrDrop
<1>6. CASE Restart
  <2>1. Flow' = delivered
    BY <1>6, ConcatEmptySeq DEF Restart, Flow
  <2>2. /\ Len(delivered) <= Len(Flow)
        /\ \A i \in 1..Len(delivered) : Flow[i] = delivered[i]
    BY ConcatTyped DEF Flow
  <2> QED
    BY <2>1, <2>2, PrefixKeeps
<1>7. \/ Subscribe \/ Finish \/ Return \/ Fetch \/ Commit \/ ReaderStops \/ CommitFails \/ Produce
      \/ StopSubscription \/ Shutdown \/ UNCHANGED vars \/ (\E e \in Posted : Post(e))
      => UNCHANGED <<delivered, chan>>
  BY DEF Subscribe, Finish, Return, Fetch, Commit, ReaderStops, CommitFails, Produce,
     StopSubscription, Shutdown, Post, vars, process
<1> QED
  BY <1>2, <1>3, <1>4, <1>5, <1>6, <1>7 DEF Next, Consume, Reader

-------------------------------------------------------------------------------

LEMMA InitHolds == Init => BusInv
<1> SUFFICES ASSUME Init PROVE BusInv
  OBVIOUS
<1>1. TypeOK
  <2>1. chan \in Seq(Event) /\ Len(chan) <= Cap /\ delivered \in Seq(Event)
    BY EmptySeq, EventTyped DEF Init
  <2>2. produced \in Event \cup {0} /\ committed \in 0..produced /\ read \in 0..produced
    BY DEF Init
  <2>7. begun \in 0..committed
    BY DEF Init
  <2>3. /\ post \in [Posted -> {"none", "listed", "unlisted", "accepted", "aborted"}]
        /\ accepted \in [Posted -> SUBSET Posted]
        /\ IF kafka THEN \A e \in Posted : post[e] = "none" ELSE reader = "off"
    BY DEF Init
  <2>4. kafka \in BOOLEAN /\ stopping \in BOOLEAN
    BY Zenon DEF Init
  <2>5. lives \in Nat \ {0} /\ faults \in Nat
    BY DEF Init
  <2>6. reader = "off" /\ sub = "none" /\ consumer = "start"
    BY DEF Init
  <2> QED
    BY <2>1, <2>2, <2>3, <2>4, <2>5, <2>6, <2>7 DEF TypeOK
<1>2. AcceptedInv
  BY DEF Init, AcceptedInv
<1>3. Len(Flow) = 0
  BY EmptySeq, ConcatEmptySeq DEF Init, Flow
<1> QED
  BY <1>1, <1>2, <1>3 DEF BusInv, FlowInv

LEMMA BusInvHolds == Spec => []BusInv
<1>1. BusInv /\ [Next]_vars => BusInv'
  BY StepTyped, AcceptedStep, FlowStep DEF BusInv
<1> QED
  BY <1>1, InitHolds, PTL DEF Spec

\* Type correctness: the channel never holds more than its capacity, and the reader is
\* at most the message it has not committed ahead of the group's offset.
THEOREM TypeCorrect == Spec => []TypeOK
<1>1. BusInv => TypeOK
  BY DEF BusInv
<1> QED
  BY <1>1, BusInvHolds, PTL

\* handle sees an event at most once and in the order of its source, however often the
\* process dies, a commit fails or requests overlap.
THEOREM InOrder == Spec => []DeliveredInOrder
<1>1. BusInv => DeliveredInOrder
  <2> SUFFICES ASSUME BusInv, NEW i \in DOMAIN delivered, NEW j \in DOMAIN delivered, i < j
               PROVE  delivered[i] # delivered[j] /\ ~Before(delivered[j], delivered[i])
    BY DEF DeliveredInOrder
  <2>1. delivered \in Seq(Event) /\ chan \in Seq(Event) /\ DOMAIN delivered = 1..Len(delivered)
    BY LenProperties DEF BusInv, TypeOK
  <2>2. /\ Len(Flow) \in Nat /\ Len(delivered) \in Nat /\ Len(delivered) <= Len(Flow)
        /\ \A k \in 1..Len(delivered) : Flow[k] = delivered[k] /\ Flow[k] \in Event
    BY <2>1, ConcatTyped DEF Flow
  <2>3. Follows(delivered[i], delivered[j])
    BY <2>1, <2>2 DEF BusInv, FlowInv
  <2>4. delivered[i] \in Nat /\ delivered[j] \in Nat
    BY <2>1, <2>2, EventTyped
  <2> QED
    BY <2>3, <2>4 DEF Follows, Before
<1> QED
  BY <1>1, BusInvHolds, PTL

-------------------------------------------------------------------------------
(* What is lost.                                                           *)

\* Committed events that nobody holds any more, and the one a reader that ended had.
Sending == {e \in {read} : reader = "send"}
Held == Range(chan) \cup Sending
Missing == Undelivered \ Held
Dropped == IF reader = "ended" THEN 1 ELSE 0

\* Each process that ended took at most what the channel and the reader held.
LossInv == kafka => Cardinality(Missing) <= (lives - 1) * (Cap + 1) + Dropped

LEMMA MissingFinite ==
    ASSUME NEW S \in SUBSET Event
    PROVE  IsFiniteSet(S) /\ Cardinality(S) \in Nat
<1>1. IsFiniteSet(1..Last)
  BY LastAssumption, FS_Interval
<1>2. S \in SUBSET (1..Last)
  BY DEF Event
<1>3. IsFiniteSet(S)
  BY <1>1, <1>2, FS_Subset
<1> QED
  BY <1>3, FS_CardinalityType

\* The reader holds one message, or has ended with it.
LEMMA SendingBound ==
    /\ IsFiniteSet(Sending) /\ Cardinality(Sending) \in Nat
    /\ Cardinality(Sending) + Dropped <= 1
<1>1. CASE reader = "send"
  <2>1. Sending = {read} /\ Dropped = 0
    BY <1>1 DEF Sending, Dropped
  <2>2. IsFiniteSet({read}) /\ Cardinality({read}) = 1
    BY FS_Singleton
  <2>3. IsFiniteSet(Sending) /\ Cardinality(Sending) = 1
    BY <2>1, <2>2, Zenon
  <2> QED
    BY <2>1, <2>3
<1>2. CASE reader # "send"
  <2>1. Sending = {} /\ Dropped \in {0, 1}
    BY <1>2 DEF Sending, Dropped
  <2>2. IsFiniteSet({}) /\ Cardinality({}) = 0
    BY FS_EmptySet
  <2>3. IsFiniteSet(Sending) /\ Cardinality(Sending) = 0
    BY <2>1, <2>2, Zenon
  <2> QED
    BY <2>1, <2>3
<1> QED
  BY <1>1, <1>2

LEMMA UnionBound ==
    ASSUME NEW A, NEW B, IsFiniteSet(A), IsFiniteSet(B)
    PROVE  /\ IsFiniteSet(A \cup B)
           /\ Cardinality(A \cup B) <= Cardinality(A) + Cardinality(B)
<1>1. /\ IsFiniteSet(A \cup B) /\ IsFiniteSet(A \cap B)
      /\ Cardinality(A \cup B) = Cardinality(A) + Cardinality(B) - Cardinality(A \cap B)
  BY FS_Union, FS_Intersection
<1>2. /\ Cardinality(A \cap B) \in Nat /\ Cardinality(A) \in Nat /\ Cardinality(B) \in Nat
      /\ Cardinality(A \cup B) \in Nat
  BY <1>1, FS_CardinalityType
<1> QED
  BY <1>1, <1>2

\* A channel holds as many events as it is long, at most.
LEMMA RangeBound ==
    ASSUME NEW c \in Seq(Event)
    PROVE  /\ Range(c) \in SUBSET Event
           /\ Cardinality(Range(c)) <= Len(c)
<1>1. Len(c) \in Nat /\ DOMAIN c = 1..Len(c) /\ \A i \in 1..Len(c) : c[i] \in Event
  BY LenProperties, ElementOfSeq
<1>2. IsFiniteSet(1..Len(c)) /\ Cardinality(1..Len(c)) = Len(c)
  <2>1. 1 \in Int /\ Len(c) \in Int
    BY <1>1
  <2>2. /\ IsFiniteSet(1..Len(c))
        /\ Cardinality(1..Len(c)) = IF 1 > Len(c) THEN 0 ELSE Len(c) - 1 + 1
    BY <2>1, FS_Interval
  <2> QED
    BY <1>1, <2>2
<1>3. Range(c) = {c[i] : i \in 1..Len(c)}
  BY <1>1 DEF Range
<1>4. c \in Surjection(1..Len(c), Range(c))
  <2>1. c \in [1..Len(c) -> Range(c)]
    BY <1>1 DEF Range
  <2> QED
    BY <1>3, <2>1 DEF Surjection
<1>5. Cardinality(Range(c)) <= Cardinality(1..Len(c))
  BY <1>2, <1>4, FS_Surjection
<1> QED
  BY <1>1, <1>2, <1>3, <1>5

LEMMA RangeAppend ==
    ASSUME NEW c \in Seq(Event), NEW e \in Event
    PROVE  Range(Append(c, e)) = Range(c) \cup {e}
<1>1. Len(c) \in Nat /\ DOMAIN c = 1..Len(c)
  BY LenProperties
<1>2. /\ Append(c, e) \in Seq(Event) /\ Len(Append(c, e)) = Len(c) + 1
      /\ \A i \in 1..Len(c) + 1 : Append(c, e)[i] = IF i <= Len(c) THEN c[i] ELSE e
  BY <1>1
<1>3. DOMAIN Append(c, e) = 1..Len(c) + 1
  BY <1>2, LenProperties
<1>4. Range(c) = {c[i] : i \in 1..Len(c)}
  BY <1>1 DEF Range
<1>5. Range(Append(c, e)) = {Append(c, e)[i] : i \in 1..Len(c) + 1}
  BY <1>3 DEF Range
<1>6. \A i \in 1..Len(c) : Append(c, e)[i] = c[i]
  BY <1>1, <1>2
<1>7. Append(c, e)[Len(c) + 1] = e
  BY <1>1, <1>2
<1>8. 1..Len(c) + 1 = 1..Len(c) \cup {Len(c) + 1}
  BY <1>1
<1> QED
  BY <1>4, <1>5, <1>6, <1>7, <1>8

LEMMA RangeTail ==
    ASSUME NEW c \in Seq(Event), c # <<>>
    PROVE  Head(c) \in Event /\ Range(c) \subseteq Range(Tail(c)) \cup {Head(c)}
<1>1. Len(c) \in Nat \ {0} /\ DOMAIN c = 1..Len(c)
  BY LenProperties, EmptySeq
<1>2. Head(c) \in Event /\ Head(c) = c[1]
  BY HeadTailProperties
<1>3. /\ Tail(c) \in Seq(Event) /\ Len(Tail(c)) = Len(c) - 1
      /\ \A i \in 1..Len(Tail(c)) : Tail(c)[i] = c[i + 1]
  BY HeadTailProperties
<1>4. DOMAIN Tail(c) = 1..(Len(c) - 1)
  BY <1>3, LenProperties
<1>5. ASSUME NEW i \in 1..Len(c) PROVE c[i] \in Range(Tail(c)) \cup {Head(c)}
  <2>1. CASE i = 1
    BY <1>2, <2>1
  <2>2. CASE i # 1
    <3>1. i - 1 \in 1..(Len(c) - 1) /\ (i - 1) + 1 = i
      BY <1>1, <2>2
    <3>2. Tail(c)[i - 1] = c[i]
      BY <1>3, <3>1
    <3> QED
      BY <1>4, <3>1, <3>2 DEF Range
  <2> QED
    BY <2>1, <2>2
<1> QED
  BY <1>1, <1>2, <1>5 DEF Range

\* What a step may do to what is missing: nothing, one event with the end of a reader,
\* or all that was held with the end of a process.
Loses ==
    /\ lives' = lives /\ Missing' \subseteq Missing /\ (reader = "ended" => reader' = "ended")
    \/ /\ lives' = lives /\ reader # "ended" /\ reader' = "ended"
       /\ Missing' \subseteq Missing \cup {read}
    \/ /\ lives' = lives + 1 /\ reader' = "off"
       /\ Missing' \subseteq Missing \cup Held

LEMMA StepLoses ==
    ASSUME TypeOK, [Next]_vars, kafka
    PROVE  Loses
<1> /\ committed \in Nat /\ read \in Nat /\ Event \subseteq Nat
    /\ chan \in Seq(Event) /\ delivered \in Seq(Event)
  BY EventTyped DEF TypeOK
<1>1. CASE UNCHANGED <<committed, delivered, chan, lives, reader, read>>
  BY <1>1 DEF Loses, Missing, Undelivered, Held, Sending
<1>2. CASE Subscribe
  BY <1>2 DEF TypeOK, Subscribe, Loses, Missing, Undelivered, Held, Sending, broker
<1>3. CASE Take
  <2>1. /\ Range(chan) \subseteq Range(chan') \cup {Head(chan)}
        /\ Range(delivered') = Range(delivered) \cup {Head(chan)}
    BY <1>3, RangeTail, RangeAppend DEF Take
  <2> QED
    BY <1>3, <2>1 DEF Take, Loses, Missing, Undelivered, Held, Sending, broker
<1>4. CASE Fetch
  BY <1>4 DEF Fetch, Loses, Missing, Undelivered, Held, Sending, broker
<1>5. CASE Commit
  <2>1. read = committed + 1 /\ committed' = read
    BY <1>5 DEF TypeOK, Commit, OffsetOf
  <2>2. Undelivered' \subseteq Undelivered \cup {read}
    <3>1. \A e \in Event : e <= committed' => e <= committed \/ e = read
      BY <2>1
    <3> QED
      BY <1>5, <3>1 DEF Commit, Undelivered
  <2>3. read \in Poison => read \notin Undelivered'
    BY <1>5 DEF Undelivered
  <2> QED
    BY <1>5, <2>2, <2>3 DEF Commit, Loses, Missing, Held, Sending
<1>6. CASE Forward
  <2>1. read \in Event
    BY <1>6 DEF TypeOK, Forward
  <2>2. Range(chan') = Range(chan) \cup {read}
    BY <1>6, <2>1, RangeAppend DEF Forward, SendOrWait
  <2> QED
    BY <1>6, <2>2 DEF Forward, SendOrWait, Loses, Missing, Undelivered, Held, Sending, broker
<1>7. CASE CommitFails \/ ReaderStops
  <2>1. /\ lives' = lives /\ reader # "ended" /\ reader' = "ended"
        /\ chan' = chan /\ delivered' = delivered /\ read' = read
    BY <1>7 DEF CommitFails, ReaderStops, AfterError, Ends
  <2>2. committed' = committed \/ (committed' = read /\ read = committed + 1)
    BY <1>7 DEF TypeOK, CommitFails, ReaderStops, OffsetOf
  <2>3. Undelivered' \subseteq Undelivered \cup {read}
    <3>1. \A e \in Event : e <= committed' => e <= committed \/ e = read
      BY <2>2
    <3> QED
      BY <2>1, <3>1 DEF Undelivered
  <2> QED
    BY <2>1, <2>3 DEF Loses, Missing, Held, Sending
<1>8. CASE Restart
  <2>1. chan' = <<>> /\ committed' = committed /\ delivered' = delivered
    BY <1>8 DEF Restart, broker
  <2>2. Undelivered' = Undelivered
    BY <2>1 DEF Undelivered
  <2> QED
    BY <1>8, <2>2 DEF Restart, Loses, Missing
<1>9. ASSUME NEW e \in Posted PROVE ~Post(e) /\ ~Offer(e)
  BY DEF TypeOK, Post, Offer
<1>10. Finish \/ Return \/ Produce \/ StopSubscription \/ Shutdown \/ UNCHANGED vars
       => UNCHANGED <<committed, delivered, chan, lives, reader, read>>
  BY DEF Finish, Return, Produce, StopSubscription, Shutdown, vars, broker, process
<1> QED
  BY <1>1, <1>2, <1>3, <1>4, <1>5, <1>6, <1>7, <1>8, <1>9, <1>10 DEF Next, Consume, Reader

LEMMA LossStep ==
    ASSUME TypeOK, LossInv, [Next]_vars
    PROVE  LossInv'
<1> SUFFICES ASSUME kafka
             PROVE  Cardinality(Missing') <= (lives' - 1) * (Cap + 1) + Dropped'
  <2>1. kafka' = kafka
    BY StepKeeps DEF Keeps
  <2> QED
    BY <2>1 DEF LossInv
<1>1. /\ Missing \in SUBSET Event /\ Missing' \in SUBSET Event
      /\ IsFiniteSet(Missing) /\ IsFiniteSet(Missing')
      /\ Cardinality(Missing) \in Nat /\ Cardinality(Missing') \in Nat
  <2>1. Missing \in SUBSET Event /\ Missing' \in SUBSET Event
    BY DEF Missing, Undelivered
  <2> QED
    BY <2>1, MissingFinite
<1>2. /\ lives \in Nat \ {0} /\ Cap \in Nat /\ Dropped \in {0, 1} /\ Dropped' \in {0, 1}
      /\ (lives - 1) * (Cap + 1) \in Nat
  BY EventTyped DEF TypeOK, Dropped
<1>3. Cardinality(Missing) <= (lives - 1) * (Cap + 1) + Dropped
  BY DEF LossInv
<1>4. CASE /\ lives' = lives /\ Missing' \subseteq Missing
           /\ (reader = "ended" => reader' = "ended")
  <2>1. Cardinality(Missing') <= Cardinality(Missing) /\ Dropped <= Dropped'
    BY <1>1, <1>4, FS_Subset DEF Dropped
  <2> QED
    BY <1>1, <1>2, <1>3, <1>4, <2>1
<1>5. CASE /\ lives' = lives /\ reader # "ended" /\ reader' = "ended"
           /\ Missing' \subseteq Missing \cup {read}
  <2>1. /\ IsFiniteSet(Missing \cup {read})
        /\ Cardinality(Missing \cup {read}) <= Cardinality(Missing) + 1
    BY <1>1, FS_AddElement
  <2>2. /\ Cardinality(Missing') <= Cardinality(Missing \cup {read})
        /\ Cardinality(Missing \cup {read}) \in Nat
    BY <1>5, <2>1, FS_Subset, FS_CardinalityType
  <2>3. Dropped = 0 /\ Dropped' = 1
    BY <1>5 DEF Dropped
  <2> QED
    BY <1>1, <1>2, <1>3, <1>5, <2>1, <2>2, <2>3
<1>6. CASE lives' = lives + 1 /\ reader' = "off" /\ Missing' \subseteq Missing \cup Held
  <2>1. /\ IsFiniteSet(Range(chan)) /\ Cardinality(Range(chan)) \in Nat
        /\ Cardinality(Range(chan)) <= Cap
    <3>1. chan \in Seq(Event) /\ Len(chan) <= Cap /\ Len(chan) \in Nat
      BY LenProperties DEF TypeOK
    <3>2. Range(chan) \in SUBSET Event /\ Cardinality(Range(chan)) <= Len(chan)
      BY <3>1, RangeBound
    <3> QED
      BY <1>2, <3>1, <3>2, MissingFinite
  <2>2. IsFiniteSet(Sending) /\ Cardinality(Sending) \in Nat /\ Cardinality(Sending) + Dropped <= 1
    BY SendingBound
  <2>3. Missing \cup Held = (Missing \cup Range(chan)) \cup Sending
    BY DEF Held, Sending
  <2>4. /\ IsFiniteSet(Missing \cup Range(chan))
        /\ Cardinality(Missing \cup Range(chan)) <= Cardinality(Missing) + Cardinality(Range(chan))
    BY <1>1, <2>1, UnionBound
  <2>5. /\ IsFiniteSet(Missing \cup Held)
        /\ Cardinality(Missing \cup Held) <= Cardinality(Missing \cup Range(chan)) + Cardinality(Sending)
    BY <2>2, <2>3, <2>4, UnionBound
  <2>6. /\ Cardinality(Missing') <= Cardinality(Missing \cup Held)
        /\ Cardinality(Missing \cup Held) \in Nat /\ Cardinality(Missing \cup Range(chan)) \in Nat
    BY <1>6, <2>4, <2>5, FS_Subset, FS_CardinalityType
  <2>7. Cardinality(Missing') <= (lives - 1) * (Cap + 1) + Cap + 1
    BY <1>1, <1>2, <1>3, <2>1, <2>2, <2>4, <2>5, <2>6
  <2>8. (lives' - 1) * (Cap + 1) = (lives - 1) * (Cap + 1) + Cap + 1
    BY <1>2, <1>6
  <2> QED
    BY <1>1, <1>2, <2>7, <2>8
<1> QED
  BY <1>4, <1>5, <1>6, StepLoses DEF Loses

\* However often the process dies, is stopped or loses its reader, it loses with each
\* life at most what a channel and a reader hold.
THEOREM LossIsBounded == Spec => []LossBounded
<1>1. Init => LossInv
  <2> SUFFICES ASSUME Init PROVE Cardinality(Missing) <= (lives - 1) * (Cap + 1) + Dropped
    BY DEF LossInv
  <2>1. committed = 0 /\ lives = 1 /\ Dropped = 0
    BY DEF Init, Dropped
  <2>2. Missing = {}
    BY <2>1, LastAssumption DEF Missing, Undelivered, Event
  <2>3. (lives - 1) * (Cap + 1) = 0
    BY <2>1, CapAssumption
  <2> QED
    BY <2>1, <2>2, <2>3, FS_EmptySet
<1>2. TypeOK /\ LossInv /\ [Next]_vars => LossInv'
  BY LossStep
<1>3. TypeOK /\ LossInv => LossBounded
  <2> SUFFICES ASSUME TypeOK, LossInv, kafka
               PROVE  Cardinality(Undelivered) <= lives * (Cap + 1)
    BY DEF LossBounded
  <2>1. Undelivered \subseteq (Missing \cup Range(chan)) \cup Sending
    BY DEF Missing, Held, Sending
  <2>2. /\ lives \in Nat \ {0} /\ Cap \in Nat /\ Dropped \in {0, 1}
        /\ chan \in Seq(Event) /\ Len(chan) <= Cap /\ Len(chan) \in Nat
    BY EventTyped, LenProperties DEF TypeOK, Dropped
  <2>3. /\ IsFiniteSet(Missing) /\ Cardinality(Missing) \in Nat
        /\ IsFiniteSet(Range(chan)) /\ Cardinality(Range(chan)) \in Nat
        /\ Cardinality(Range(chan)) <= Cap
    <3>1. Missing \in SUBSET Event
      BY DEF Missing, Undelivered
    <3>2. Range(chan) \in SUBSET Event /\ Cardinality(Range(chan)) <= Len(chan)
      BY <2>2, RangeBound
    <3> QED
      BY <2>2, <3>1, <3>2, MissingFinite
  <2>4. IsFiniteSet(Sending) /\ Cardinality(Sending) \in Nat /\ Cardinality(Sending) + Dropped <= 1
    BY SendingBound
  <2>5. /\ IsFiniteSet((Missing \cup Range(chan)) \cup Sending)
        /\ Cardinality((Missing \cup Range(chan)) \cup Sending)
             <= Cardinality(Missing) + Cardinality(Range(chan)) + Cardinality(Sending)
    <3>1. /\ IsFiniteSet(Missing \cup Range(chan))
          /\ Cardinality(Missing \cup Range(chan)) <= Cardinality(Missing) + Cardinality(Range(chan))
          /\ Cardinality(Missing \cup Range(chan)) \in Nat
      BY <2>3, UnionBound, FS_CardinalityType
    <3>2. /\ IsFiniteSet((Missing \cup Range(chan)) \cup Sending)
          /\ Cardinality((Missing \cup Range(chan)) \cup Sending)
               <= Cardinality(Missing \cup Range(chan)) + Cardinality(Sending)
          /\ Cardinality((Missing \cup Range(chan)) \cup Sending) \in Nat
      BY <2>4, <3>1, UnionBound, FS_CardinalityType
    <3> QED
      BY <2>3, <2>4, <3>1, <3>2
  <2>6. /\ Cardinality(Undelivered) <= Cardinality((Missing \cup Range(chan)) \cup Sending)
        /\ Cardinality(Undelivered) \in Nat
    BY <2>1, <2>5, FS_Subset, FS_CardinalityType
  <2>7. Cardinality(Missing) <= (lives - 1) * (Cap + 1) + Dropped
    BY DEF LossInv
  <2>8. lives * (Cap + 1) = (lives - 1) * (Cap + 1) + Cap + 1 /\ (lives - 1) * (Cap + 1) \in Nat
    BY <2>2
  <2>9. Cardinality((Missing \cup Range(chan)) \cup Sending) \in Nat
    BY <2>5, FS_CardinalityType
  <2> QED
    BY <2>2, <2>3, <2>4, <2>5, <2>6, <2>7, <2>8, <2>9
<1> QED
  BY <1>1, <1>2, <1>3, TypeCorrect, PTL DEF Spec
===============================================================================
