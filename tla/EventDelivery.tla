------------------------------ MODULE EventDelivery ------------------------------
(***************************************************************************)
(* What a successful publish() promises, without channels, brokers and     *)
(* retries (mestory_core/events/publisher.py, EchoingEventPublisher and    *)
(* RabbitEventPublisher): once an event is announced in the log or         *)
(* recorded as sent, it has been delivered, and what is delivered stays    *)
(* delivered, through restarts of the broker and of the publisher.         *)
(***************************************************************************)
CONSTANT Event

VARIABLES
    delivered,  \* survives a restart of the broker, or has reached the consumer
    announced,  \* "delivered", says the log
    recorded    \* the outbox will not send it again

vars == <<delivered, announced, recorded>>

Init == delivered = {} /\ announced = {} /\ recorded = {}

Deliver(e) == /\ delivered' = delivered \cup {e}
              /\ UNCHANGED <<announced, recorded>>

Announce(e) == /\ e \in delivered
               /\ announced' = announced \cup {e}
               /\ UNCHANGED <<delivered, recorded>>

Record(e) == /\ e \in delivered
             /\ recorded' = recorded \cup {e}
             /\ UNCHANGED <<delivered, announced>>

Next == \E e \in Event : Deliver(e) \/ Announce(e) \/ Record(e)

Spec == Init /\ [][Next]_vars

=============================================================================
