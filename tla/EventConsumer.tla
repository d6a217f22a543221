------------------------------ MODULE EventConsumer ------------------------------
(***************************************************************************)
(* A service that consumes events the way src/README.md shows              *)
(* (on_message): several workers take messages from one queue, find the    *)
(* class in EVENTS_BY_ROUTING_KEY, validate the body as that class and     *)
(* drop what they have seen before by its event_id.                        *)
(*                                                                         *)
(* Delivery is at least once and in any order: the publisher may send an   *)
(* event again, long after the first copy, and what a worker has taken and *)
(* not acknowledged when it dies comes back.  Messages of releases that    *)
(* know other events or fewer fields arrive among the rest.                *)
(***************************************************************************)
EXTENDS EventContract

CONSTANTS
    OwnEvent,   \* the events published by services of this release
    Foreign,    \* messages of other releases that no class fits
    Worker,     \* the replicas of the service
    NoMessage,  \* a worker has no message
    MaxCopies   \* bound: how often an event is sent; a foreign message is sent once

Message == {MessageOf(e) : e \in OwnEvent} \cup Foreign

\* Every event has an id of its own (uuid4).  A foreign message has a key
\* without a class, or lacks a field the class of its key requires.
ASSUME ConsumerAssumption ==
    /\ OwnEvent \subseteq Event
    /\ \A e \in OwnEvent : e.event_id \notin FreshId
    /\ \A d, e \in OwnEvent : d.event_id = e.event_id => d = e
    /\ \A m \in Foreign, type \in DOMAIN Schema :
           RoutingKey[routing_key(type)] = m.routing_key => ~(required(type) \subseteq m.body.fields)
    /\ NoMessage \notin Message
    /\ MaxCopies \in Nat \ {0}

VARIABLES
    sent,     \* how many copies of each message have reached the queue
    queue,    \* how many of them wait there
    hand,     \* the message each worker holds
    done,     \* the workers that have handled theirs and not acknowledged it
    applied,  \* the events that took effect, with their ids: one transaction
    failed    \* history: the messages whose handling raised

vars == <<sent, queue, hand, done, applied, failed>>

Init ==
    /\ sent = [m \in Message |-> 0]
    /\ queue = [m \in Message |-> 0]
    /\ hand = [w \in Worker |-> NoMessage]
    /\ done = {} /\ applied = {} /\ failed = {}

Arrive(m) ==
    /\ sent[m] < (IF m \in Foreign THEN 1 ELSE MaxCopies)
    /\ sent' = [sent EXCEPT ![m] = @ + 1]
    /\ queue' = [queue EXCEPT ![m] = @ + 1]
    /\ UNCHANGED <<hand, done, applied, failed>>

Take(w, m) ==
    /\ hand[w] = NoMessage
    /\ queue[m] > 0
    /\ queue' = [queue EXCEPT ![m] = @ - 1]
    /\ hand' = [hand EXCEPT ![w] = m]
    /\ UNCHANGED <<sent, done, applied, failed>>

-----------------------------------------------------------------------------
(* on_message *)

Holds(w) == hand[w] # NoMessage /\ w \notin done

Seen(event_id) == \E e \in applied : e.event_id = event_id

Apply(w) ==
    /\ Holds(w)
    /\ \E e \in Readings(hand[w]) : ~Seen(e.event_id) /\ applied' = applied \cup {e}
    /\ done' = done \cup {w}
    /\ UNCHANGED <<sent, queue, hand, failed>>

Skip(w) ==
    /\ Holds(w)
    /\ \E e \in Readings(hand[w]) : Seen(e.event_id)
    /\ done' = done \cup {w}
    /\ UNCHANGED <<sent, queue, hand, applied, failed>>

\* process() acknowledges what was handled ...
Ack(w) ==
    /\ w \in done
    /\ done' = done \ {w}
    /\ hand' = [hand EXCEPT ![w] = NoMessage]
    /\ UNCHANGED <<sent, queue, applied, failed>>

\* ... and rejects, without putting it back, what raised: because no class
\* fits the message ...
Reject(w) ==
    /\ Holds(w)
    /\ Readings(hand[w]) = {}
    /\ hand' = [hand EXCEPT ![w] = NoMessage]
    /\ UNCHANGED <<sent, queue, done, applied, failed>>

\* ... or because its handling failed.
Fail(w) ==
    /\ Holds(w)
    /\ Readings(hand[w]) # {}
    /\ failed' = failed \cup {hand[w]}
    /\ hand' = [hand EXCEPT ![w] = NoMessage]
    /\ UNCHANGED <<sent, queue, done, applied>>

\* Mutant of Crash: messages are acknowledged on delivery.
CrashAutoAck(w) ==
    /\ hand[w] # NoMessage
    /\ hand' = [hand EXCEPT ![w] = NoMessage]
    /\ done' = done \ {w}
    /\ UNCHANGED <<sent, queue, applied, failed>>

\* The worker dies, and the broker puts back what it has not acknowledged.
Crash(w) ==
    /\ hand[w] # NoMessage
    /\ queue' = [queue EXCEPT ![hand[w]] = @ + 1]
    /\ hand' = [hand EXCEPT ![w] = NoMessage]
    /\ done' = done \ {w}
    /\ UNCHANGED <<sent, applied, failed>>

-----------------------------------------------------------------------------
(* The specification *)

Next ==
    \/ \E m \in Message : Arrive(m)
    \/ \E w \in Worker :
           \/ \E m \in Message : Take(w, m)
           \/ Apply(w) \/ Skip(w) \/ Ack(w) \/ Reject(w) \/ Fail(w) \/ Crash(w)

Spec == Init /\ [][Next]_vars

\* Workers go on with what they hold, the broker passes no message over for
\* ever, and crashes do not for ever strike the worker that holds it.
FairSpec ==
    /\ Spec
    /\ \A w \in Worker : WF_vars(Ack(w)) /\ WF_vars(Reject(w))
    /\ \A m \in Message :
           /\ SF_vars(\E w \in Worker : Take(w, m))
           /\ SF_vars(\E w \in Worker : hand[w] = m /\ (Apply(w) \/ Skip(w)))

-----------------------------------------------------------------------------
(* Properties *)

ConsumerTypeOK ==
    /\ sent \in [Message -> 0 .. MaxCopies]
    /\ queue \in [Message -> Nat]
    /\ hand \in [Worker -> Message \cup {NoMessage}]
    /\ done \subseteq {w \in Worker : hand[w] # NoMessage}
    /\ applied \subseteq Event
    /\ failed \subseteq Message

\* No event gets lost on its way: one that has arrived waits in the queue, is
\* held by a worker, has taken effect or has failed there, whoever died in
\* between (process() of on_message acknowledges after the effect, and rejects
\* only what raised).
NoEventIsLost ==
    \A e \in OwnEvent :
        sent[MessageOf(e)] > 0 =>
            \/ queue[MessageOf(e)] > 0
            \/ \E w \in Worker : hand[w] = MessageOf(e)
            \/ e \in applied
            \/ MessageOf(e) \in failed

Effects == INSTANCE EventEffects WITH
               Event <- OwnEvent,
               published <- {e \in OwnEvent : sent[MessageOf(e)] > 0},
               effects <- applied

\* An event takes effect as what it was published as and once, however many
\* copies arrive, whenever they do, and whether a worker dies before or after
\* the effect (Event.event_id; EVENTS_BY_ROUTING_KEY).
ProvidesEffects == Effects!Spec

\* An event that has arrived takes effect, unless its own handling raises:
\* neither the messages no class fits nor the death of a worker that holds it
\* is in its way (EVENTS_BY_ROUTING_KEY has the class of every event).
EveryEventTakesEffect ==
    \A e \in OwnEvent :
        sent[MessageOf(e)] > 0 ~> e \in applied \/ MessageOf(e) \in failed

=============================================================================
