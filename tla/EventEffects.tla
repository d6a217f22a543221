------------------------------- MODULE EventEffects -------------------------------
(***************************************************************************)
(* What the services are promised of events, without messages, copies and  *)
(* crashes (mestory_core/events/schemas.py: Event, EVENTS_BY_ROUTING_KEY): *)
(* an event takes effect at a consumer as what it was published as, at     *)
(* most once, and nothing takes effect that was not published.             *)
(***************************************************************************)
CONSTANT Event

VARIABLES
    published,  \* the events that were sent, whole
    effects     \* the events that have taken effect

vars == <<published, effects>>

Init == published = {} /\ effects = {}

Publish(e) == /\ published' = published \cup {e}
              /\ UNCHANGED effects

TakeEffect(e) == /\ e \in published \ effects
                 /\ effects' = effects \cup {e}
                 /\ UNCHANGED published

Next == \E e \in Event : Publish(e) \/ TakeEffect(e)

Spec == Init /\ [][Next]_vars

=============================================================================
