------------------------------- MODULE EventBus --------------------------------
(***************************************************************************)
(* How completion events reach Consumer.handle (internal/eventbus and      *)
(* Consumer.Run): a bounded channel, fed either by POSTs to the HTTP-push  *)
(* endpoint or by the reader goroutine of the Kafka subscriber; a process  *)
(* that is shut down or dies and starts again.                             *)
(*                                                                         *)
(* An event is a number; from Kafka, its offset.  Kafka's client is        *)
(* modelled by what the code uses of it: ReadMessage fetches the message   *)
(* after the last one read, commits its offset and only then returns it.   *)
(***************************************************************************)
EXTENDS Naturals, Sequences, FiniteSets, Functions

CONSTANTS
    Last,        \* bound: messages in the topic
    Posted,      \* the events that clients post, if there is no topic
    Poison,      \* messages that do not decode
    Cap,         \* the channel's capacity (1024 in the code)
    MaxFaults    \* bound: restarts, shutdowns and failed commits

Event == 1..Last

ASSUME LastAssumption == Last \in Nat
ASSUME PostedAssumption == Posted \subseteq Event
ASSUME PoisonAssumption == Poison \subseteq Event
ASSUME CapAssumption == Cap \in Nat \ {0}
ASSUME FaultsAssumption == MaxFaults \in Nat

VARIABLES
    kafka,       \* EVENT_BUS_URL is set: the consumer reads from Kafka
    produced,    \* messages in the topic
    committed,   \* the consumer group's offset
    reader,      \* the Kafka reader goroutine: what it does next
    read,        \* the message it fetched last
    sub,         \* the subscription's channel: not there yet, open, closed
    chan,        \* what is in it
    consumer,    \* Consumer.Run: what it does next
    post,        \* per event posted: how far its request is
    accepted,    \* per event posted: those answered 202 before it was posted
    delivered,   \* the events given to handle, in this order
    stopping,    \* the process' context is canceled
    lives,       \* processes started so far
    begun,       \* the group's offset when this one began
    faults       \* used-up bound

broker == <<produced, committed>>
process == <<reader, read, sub, chan, consumer, stopping>>
vars == <<kafka, broker, process, post, accepted, delivered, lives, begun, faults>>

Init ==
    /\ kafka \in BOOLEAN
    /\ produced = 0 /\ committed = 0
    /\ reader = "off" /\ read = 0
    /\ sub = "none" /\ chan = <<>>
    /\ consumer = "start"
    /\ post = [e \in Posted |-> "none"]
    /\ accepted = [e \in Posted |-> {}]
    /\ delivered = <<>>
    /\ stopping = FALSE
    /\ lives = 1 /\ begun = 0
    /\ faults = 0

HasRoom == Len(chan) < Cap

\* The two ways of sending on the channel: the select of HTTPPushSubscriber's Push has a
\* default, that of the Kafka reader blocks while the channel is full.
SendOrDrop(e) == chan' = IF HasRoom THEN Append(chan, e) ELSE chan
SendOrWait(e) == HasRoom /\ chan' = Append(chan, e)

Fault == faults < MaxFaults /\ faults' = faults + 1

-------------------------------------------------------------------------------
(* Consumer.Run.                                                           *)

\* Where a Kafka reader begins: it is configured with the consumer group's id.
FromTheStart == 0
StartOffset == committed

\* Subscribe makes the channel; Kafka's starts the reader.
Subscribe ==
    /\ consumer = "start" /\ consumer' = "wait"
    /\ sub' = "open"
    /\ reader' = IF kafka THEN "read" ELSE "off"
    /\ read' = StartOffset
    /\ UNCHANGED <<kafka, broker, chan, post, accepted, delivered, stopping, lives, begun,
                   faults>>

Take ==
    /\ consumer = "wait" /\ chan # <<>>
    /\ consumer' = "busy"
    /\ delivered' = Append(delivered, Head(chan))
    /\ chan' = Tail(chan)
    /\ UNCHANGED <<kafka, broker, reader, read, sub, post, accepted, stopping, lives, begun,
                   faults>>

\* handle returns.
Finish ==
    /\ consumer = "busy" /\ consumer' = "wait"
    /\ UNCHANGED <<kafka, broker, reader, read, sub, chan, post, accepted, delivered, stopping,
                   lives, begun, faults>>

\* The context is canceled, or the channel closed and drained; Run's defer closes it too.
Return ==
    /\ consumer = "wait" /\ consumer' = "done"
    /\ stopping \/ (sub = "closed" /\ chan = <<>>)
    /\ sub' = "closed"
    /\ UNCHANGED <<kafka, broker, reader, read, chan, post, accepted, delivered, stopping,
                   lives, begun, faults>>

-------------------------------------------------------------------------------
(* KafkaSubscriber: the reader goroutine.                                  *)

Produce ==
    /\ kafka /\ produced + 1 \in Event
    /\ produced' = produced + 1
    /\ UNCHANGED <<kafka, committed, process, post, accepted, delivered, lives, begun, faults>>

\* The first half of ReadMessage.
Fetch ==
    /\ reader = "read" /\ reader' = "commit"
    /\ sub = "open" /\ read < produced
    /\ read' = read + 1
    /\ UNCHANGED <<kafka, broker, sub, chan, consumer, post, accepted, delivered, stopping,
                   lives, begun, faults>>

\* The offset that is committed for a message.
OffsetOf(m) == m

\* The second; a message that does not decode is skipped.
Commit ==
    /\ reader = "commit"
    /\ reader' = IF read \in Poison THEN "read" ELSE "send"
    /\ committed' = OffsetOf(read)
    /\ UNCHANGED <<kafka, produced, read, sub, chan, consumer, post, accepted, delivered,
                   stopping, lives, begun, faults>>

\* Any error of ReadMessage ends the goroutine, whose defer closes the channel.
Ends == reader' = "ended" /\ sub' = "closed"

\* What ReadMessage does about an offset when it returns an error.
Restores == reader' = "read" /\ UNCHANGED sub
AfterError == Ends

CommitFails ==
    /\ reader = "commit" /\ Fault
    /\ committed' \in {committed, OffsetOf(read)}
    /\ AfterError
    /\ UNCHANGED <<kafka, produced, read, chan, consumer, post, accepted, delivered, stopping,
                   lives, begun>>

\* On a channel that Run's defer has closed the send may panic, which is a Restart.
Forward ==
    /\ reader = "send" /\ reader' = "read"
    /\ sub = "open" /\ SendOrWait(read)
    /\ UNCHANGED <<kafka, broker, read, sub, consumer, post, accepted, delivered, stopping,
                   lives, begun, faults>>

\* The context is canceled; a commit in progress may have taken effect.
ReaderStops ==
    /\ stopping /\ reader \in {"read", "commit", "send"}
    /\ Ends
    /\ \/ UNCHANGED committed
       \/ reader = "commit" /\ committed' = OffsetOf(read)
    /\ UNCHANGED <<kafka, produced, read, chan, consumer, post, accepted, delivered, stopping,
                   lives, begun, faults>>

-------------------------------------------------------------------------------
(* HTTPPushSubscriber: any number of requests at once.                     *)

\* Push copies the list of channels under its mutex, and sends after that.
Post(e) ==
    /\ ~kafka /\ post[e] = "none"
    /\ post' = [post EXCEPT ![e] = IF sub = "open" THEN "listed" ELSE "unlisted"]
    /\ accepted' = [accepted EXCEPT ![e] = {f \in Posted : post[f] = "accepted"}]
    /\ UNCHANGED <<kafka, broker, process, delivered, lives, begun, faults>>

\* The send does not block: an event is dropped when the channel is full.  With no
\* channel there is nothing to send on; a closed one makes the request panic.
Offer(e) ==
    /\ \/ /\ post[e] = "listed" /\ sub # "closed"
          /\ post' = [post EXCEPT ![e] = "accepted"]
          /\ SendOrDrop(e)
       \/ /\ post[e] = "unlisted"
          /\ post' = [post EXCEPT ![e] = "accepted"]
          /\ UNCHANGED chan
       \/ /\ post[e] = "listed" /\ sub = "closed"
          /\ post' = [post EXCEPT ![e] = "aborted"]
          /\ UNCHANGED chan
    /\ UNCHANGED <<kafka, broker, reader, read, sub, consumer, accepted, delivered, stopping,
                   lives, begun, faults>>

\* The goroutine that waits for the context stops the subscription.
StopSubscription ==
    /\ ~kafka /\ stopping /\ sub = "open"
    /\ sub' = "closed"
    /\ UNCHANGED <<kafka, broker, reader, read, chan, consumer, post, accepted, delivered,
                   stopping, lives, begun, faults>>

-------------------------------------------------------------------------------
(* The process.                                                            *)

\* Shutdown cancels the context first; the HTTP server still serves requests then.
Shutdown ==
    /\ ~stopping /\ stopping' = TRUE
    /\ Fault
    /\ UNCHANGED <<kafka, broker, reader, read, sub, chan, consumer, post, accepted, delivered,
                   lives, begun>>

\* It dies, or exits after a shutdown, and is started again.
Restart ==
    /\ Fault
    /\ lives' = lives + 1 /\ begun' = committed
    /\ reader' = "off" /\ read' = 0
    /\ sub' = "none" /\ chan' = <<>>
    /\ consumer' = "start" /\ stopping' = FALSE
    /\ post' = [e \in Posted |-> IF post[e] \in {"listed", "unlisted"} THEN "aborted" ELSE post[e]]
    /\ UNCHANGED <<kafka, broker, accepted, delivered>>

Consume == Subscribe \/ Take \/ Finish \/ Return
Reader == Fetch \/ Commit \/ Forward \/ ReaderStops

Next ==
    \/ Consume \/ Reader \/ CommitFails \/ Produce
    \/ \E e \in Posted : Post(e) \/ Offer(e)
    \/ StopSubscription \/ Shutdown \/ Restart

Spec == Init /\ [][Next]_vars

\* The goroutines run and Kafka answers; no event, request or restart has to come.
FairSpec == Spec /\ WF_vars(Consume) /\ WF_vars(Reader)

-------------------------------------------------------------------------------
(* Correctness.                                                            *)

\* Committed messages that decode and were not given to handle: in transit, or lost.
Undelivered == {e \in Event : e <= committed} \ (Poison \cup Range(delivered))

\* Type correctness; the reader is one message ahead of the offset while it commits.
TypeOK ==
    /\ kafka \in BOOLEAN
    /\ IF kafka THEN \A e \in Posted : post[e] = "none" ELSE reader = "off"
    /\ produced \in Event \cup {0} /\ committed \in 0..produced /\ read \in 0..produced
    /\ begun \in 0..committed
    /\ reader \in {"off", "read", "commit", "send", "ended"}
    /\ reader \in {"read", "send"} => read = committed
    /\ reader = "commit" => read = committed + 1
    /\ reader \in {"commit", "send"} => read \in Event
    /\ sub \in {"none", "open", "closed"}
    /\ consumer \in {"start", "wait", "busy", "done"}
    /\ consumer = "start" <=> sub = "none"
    /\ sub = "none" => reader = "off"
    /\ consumer = "done" => sub = "closed"
    /\ chan \in Seq(Event) /\ Len(chan) <= Cap
    /\ post \in [Posted -> {"none", "listed", "unlisted", "accepted", "aborted"}]
    /\ accepted \in [Posted -> SUBSET Posted]
    /\ delivered \in Seq(Event)
    /\ stopping \in BOOLEAN /\ lives \in Nat \ {0} /\ faults \in Nat

\* e must reach handle before f: by its offset, or because it had been answered 202
\* before f was posted.
Before(e, f) == IF kafka THEN e < f ELSE e \in accepted[f]

\* handle sees an event at most once and in the order of the source, through restarts,
\* failed commits and concurrent requests.
DeliveredInOrder ==
    \A i, j \in DOMAIN delivered :
        i < j => delivered[i] # delivered[j] /\ ~Before(delivered[j], delivered[i])

\* An offset is committed before its event is handled, so a process that ends loses
\* events: at most what the channel and the reader hold.
LossBounded == kafka => Cardinality(Undelivered) <= lives * (Cap + 1)

\* An event of the topic that decodes is delivered, or an earlier process committed it and
\* took it along when it ended.  The live process, unless it is being stopped, leaves none
\* behind that it fetched or is still to fetch, but by the end of its reader.
Consumed ==
    \A e \in Event \ Poison :
        (kafka /\ e <= produced) ~>
            (e \in Range(delivered) \/ e <= begun \/ reader = "ended" \/ stopping)

\* "Consumer survives a broker restart and resumes without loss": unless the process is
\* stopped or restarted, a message that decodes is delivered although a commit fails.
SurvivesBroker ==
    \A e \in Event \ Poison :
        (kafka /\ e <= produced) ~> (e \in Range(delivered) \/ stopping \/ lives > 1)
===============================================================================
