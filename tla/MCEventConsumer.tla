----------------------------- MODULE MCEventConsumer -----------------------------
(***************************************************************************)
(* An instance of EventConsumer for TLC: two events of one shape that mean *)
(* the opposite, a key of a later release, and a ProfileUpdated of a       *)
(* release that did not have account_type yet.                             *)
(***************************************************************************)
EXTENDS EventConsumer

CONSTANTS i1, i2, card, oldCard

TwoEvents == {[type |-> "ProfileFollowed",   event_id |-> i1, data |-> card],
              [type |-> "ProfileUnfollowed", event_id |-> i2, data |-> card]}

OldFields == required("ProfileUpdated") \ {"account_type"}

OtherReleases == {
    [routing_key |-> "profile.muted",
     body |-> [fields |-> base_fields, event_id |-> i1, data |-> card]],
    [routing_key |-> "profile.updated",
     body |-> [fields |-> base_fields \cup OldFields, event_id |-> i1, data |-> oldCard]]}

=============================================================================
