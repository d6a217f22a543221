------------------------------ MODULE EventPublisher ------------------------------
(***************************************************************************)
(* Publishing events to RabbitMQ (mestory_core/events/publisher.py):       *)
(* RabbitEventPublisher over a pool of channels, alone or inside           *)
(* EchoingEventPublisher, between an outbox worker that retries and a      *)
(* broker that may restart.                                                *)
(*                                                                         *)
(* publish suspends three times: for a channel, for declare_exchange and   *)
(* for exchange.publish, which returns when the broker has confirmed the   *)
(* message.  It can fail or be cancelled at each.  The worker, the pool,   *)
(* the broker and the consumer are not this repository's code; they do     *)
(* what the publisher and its docstrings rely on, and no more.             *)
(***************************************************************************)

CONSTANTS
    Event,      \* the rows of the outbox; one carries its event_id in every try
    Channel,    \* the channels of the pool
    NoChannel,  \* no channel is held
    Echoing     \* the publisher is wrapped in EchoingEventPublisher

ASSUME PublisherAssumption ==
    /\ NoChannel \notin Channel
    /\ Echoing \in BOOLEAN

VARIABLES
    pc,        \* where publish is suspended, for each event
    channel,   \* the channel it holds
    free,      \* the channels in the pool
    echoed,    \* the events the log calls delivered
    sent,      \* the rows the worker has marked as sent
    inMemory,  \* messages the broker holds in memory only
    onDisk,    \* messages the broker has written to disk
    handled    \* events the consumer has handled and acknowledged

brokerVars == <<inMemory, onDisk, handled>>
vars == <<pc, channel, free, echoed, sent, inMemory, onDisk, handled>>

Init ==
    /\ pc = [e \in Event |-> "idle"]
    /\ channel = [e \in Event |-> NoChannel]
    /\ free = Channel
    /\ echoed = {} /\ sent = {}
    /\ inMemory = {} /\ onDisk = {} /\ handled = {}

\* publish is between the acquisition and the return of its channel.
Holding == {"declaring", "publishing", "confirming"}

InPublish == {"acquiring"} \cup Holding

At(e, where) == pc' = [pc EXCEPT ![e] = where]

-----------------------------------------------------------------------------
(* The publisher *)

\* Mutant of delivery_mode: the argument is left out, and aio_pika's default
\* is a message the broker keeps in memory.
delivery_mode_default == "transient"

delivery_mode == "persistent"

\* Mutant of Release: what was held is put back although nothing was.
ReleaseUnchecked(e) ==
    /\ free' = free \cup {channel[e]}
    /\ channel' = [channel EXCEPT ![e] = NoChannel]

\* The end of `async with`: a held channel goes back to the pool.
Release(e) ==
    /\ free' = free \cup ({channel[e]} \ {NoChannel})
    /\ channel' = [channel EXCEPT ![e] = NoChannel]

\* Mutant of Acquire: the event is echoed before it is delivered.
AcquireEchoing(e, h) ==
    /\ pc[e] = "acquiring"
    /\ h \in free
    /\ free' = free \ {h}
    /\ channel' = [channel EXCEPT ![e] = h]
    /\ At(e, "declaring")
    /\ echoed' = IF Echoing THEN echoed \cup {e} ELSE echoed
    /\ UNCHANGED <<sent, brokerVars>>

Acquire(e, h) ==
    /\ pc[e] = "acquiring"
    /\ h \in free
    /\ free' = free \ {h}
    /\ channel' = [channel EXCEPT ![e] = h]
    /\ At(e, "declaring")
    /\ UNCHANGED <<echoed, sent, brokerVars>>

\* The exchange is durable and declared by every publish; declaring it again
\* changes nothing, and the consumer's queue is bound to it.
Declare(e) ==
    /\ pc[e] = "declaring"
    /\ At(e, "publishing")
    /\ UNCHANGED <<channel, free, echoed, sent, brokerVars>>

\* The broker confirms a message when it is as safe as it asks to be, or
\* when the consumer has it.
Confirmed(e) == e \in handled \cup onDisk
                          \cup (IF delivery_mode = "persistent" THEN {} ELSE inMemory)

\* publish returns; the echo, if any, is written in the same segment.
Return(e) ==
    /\ pc[e] = "confirming"
    /\ Confirmed(e)
    /\ Release(e)
    /\ At(e, "returned")
    /\ echoed' = IF Echoing THEN echoed \cup {e} ELSE echoed
    /\ UNCHANGED <<sent, brokerVars>>

\* Mutant of Raise: the channel is acquired without `async with`.
RaiseLeaking(e) ==
    /\ pc[e] \in InPublish
    /\ channel' = [channel EXCEPT ![e] = NoChannel]
    /\ At(e, "raised")
    /\ UNCHANGED <<free, echoed, sent, brokerVars>>

\* Mutant of Raise: the wrapper logs the failure and returns.
RaiseSwallowed(e) ==
    /\ pc[e] \in InPublish
    /\ Release(e)
    /\ At(e, "returned")
    /\ UNCHANGED <<echoed, sent, brokerVars>>

\* An exception or a cancellation at a suspension point goes through; whether
\* the broker has the message is not known.
Raise(e) ==
    /\ pc[e] \in InPublish
    /\ Release(e)
    /\ At(e, "raised")
    /\ UNCHANGED <<echoed, sent, brokerVars>>

-----------------------------------------------------------------------------
(* The outbox worker: publish that returns is a delivery *)

Submit(e) ==
    /\ pc[e] = "idle"
    /\ e \notin sent
    /\ At(e, "acquiring")
    /\ UNCHANGED <<channel, free, echoed, sent, brokerVars>>

MarkSent(e) ==
    /\ pc[e] = "returned"
    /\ sent' = sent \cup {e}
    /\ At(e, "idle")
    /\ UNCHANGED <<channel, free, echoed, brokerVars>>

\* The row stays as it was and will be taken again.
Retry(e) ==
    /\ pc[e] = "raised"
    /\ At(e, "idle")
    /\ UNCHANGED <<channel, free, echoed, sent, brokerVars>>

\* The process of the publisher dies; the outbox and the log remain.
WorkerCrash ==
    /\ \E e \in Event : pc[e] # "idle"
    /\ pc' = [e \in Event |-> "idle"]
    /\ channel' = [e \in Event |-> NoChannel]
    /\ free' = Channel
    /\ UNCHANGED <<echoed, sent, brokerVars>>

-----------------------------------------------------------------------------
(* The broker and the consumer *)

TakeMessage(e) ==
    /\ pc[e] = "publishing"
    /\ inMemory' = inMemory \cup {e}
    /\ At(e, "confirming")
    /\ UNCHANGED <<channel, free, echoed, sent, onDisk, handled>>

WriteToDisk(e) ==
    /\ delivery_mode = "persistent"
    /\ e \in inMemory
    /\ inMemory' = inMemory \ {e}
    /\ onDisk' = onDisk \cup {e}
    /\ UNCHANGED <<pc, channel, free, echoed, sent, handled>>

\* Messages that are not on disk are lost, and every publish that holds a
\* channel fails.
BrokerRestart ==
    /\ inMemory # {} \/ \E e \in Event : pc[e] \in Holding
    /\ inMemory' = {}
    /\ pc' = [e \in Event |-> IF pc[e] \in Holding THEN "raised" ELSE pc[e]]
    /\ channel' = [e \in Event |-> NoChannel]
    /\ free' = Channel
    /\ UNCHANGED <<echoed, sent, onDisk, handled>>

\* The consumer handles the event and acknowledges every copy; a copy that
\* arrives later it recognises by event_id.
Handle(e) ==
    /\ e \in inMemory \cup onDisk
    /\ inMemory' = inMemory \ {e}
    /\ onDisk' = onDisk \ {e}
    /\ handled' = handled \cup {e}
    /\ UNCHANGED <<pc, channel, free, echoed, sent>>

-----------------------------------------------------------------------------
(* The specification *)

Publish(e) ==
    \/ \E h \in Channel : Acquire(e, h)
    \/ Declare(e)
    \/ Return(e)
    \/ Raise(e)

Work(e) == Submit(e) \/ MarkSent(e) \/ Retry(e)

Broker(e) == TakeMessage(e) \/ WriteToDisk(e) \/ Handle(e)

Next == \/ \E e \in Event : Publish(e) \/ Work(e) \/ Broker(e)
        \/ WorkerCrash
        \/ BrokerRestart

Spec == Init /\ [][Next]_vars

\* The worker takes every row that is not sent; a publish that waits is
\* served in turn by the pool; and failures do not for ever strike the same
\* step: a step that is possible again and again succeeds in the end.
FairSpec ==
    /\ Spec
    /\ \A e \in Event :
           /\ WF_vars(Submit(e)) /\ WF_vars(Retry(e)) /\ SF_vars(MarkSent(e))
           /\ SF_vars(\E h \in Channel : Acquire(e, h))
           /\ SF_vars(Declare(e)) /\ SF_vars(TakeMessage(e)) /\ SF_vars(Return(e))
           /\ SF_vars(WriteToDisk(e)) /\ WF_vars(Handle(e))

-----------------------------------------------------------------------------
(* Properties *)

PublisherTypeOK ==
    /\ pc \in [Event -> InPublish \cup {"idle", "returned", "raised"}]
    /\ channel \in [Event -> Channel \cup {NoChannel}]
    /\ free \subseteq Channel
    /\ echoed \subseteq Event /\ sent \subseteq Event
    /\ inMemory \subseteq Event /\ onDisk \subseteq Event /\ handled \subseteq Event

\* Every channel is in the pool or held by exactly one running publish: no
\* failure, cancellation or restart leaks a channel or hands it out twice.
PoolIsAccounted ==
    /\ \A e \in Event : channel[e] # NoChannel <=> pc[e] \in Holding
    /\ \A h \in Channel : h \in free <=> \A e \in Event : channel[e] # h
    /\ \A d, e \in Event : channel[d] = channel[e] /\ channel[d] # NoChannel => d = e

\* What no restart of the broker can take away.
Delivered == onDisk \cup handled

\* A line in the log and a row marked as sent mean that the event is
\* delivered, whatever failed before or restarts after (docstring of
\* EchoingEventPublisher.publish; PERSISTENT in RabbitEventPublisher).
SentMeansDelivered == echoed \cup sent \subseteq Delivered

Delivery == INSTANCE EventDelivery WITH
                delivered <- Delivered,
                announced <- echoed,
                recorded <- sent

\* The publisher keeps the promise of publish(): an event is delivered first
\* and then announced and recorded, and nothing undoes a delivery.
ProvidesDelivery == Delivery!Spec

\* A row of the outbox reaches the consumer and is marked as sent, if
\* failures do not go on for ever: a raised publish is tried again, and no
\* failure takes away what the next try needs.
EveryEventArrives == \A e \in Event : <>(e \in sent /\ e \in handled)

=============================================================================
