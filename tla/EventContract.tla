------------------------------ MODULE EventContract ------------------------------
(***************************************************************************)
(* What a publisher and a consumer of events agree on                      *)
(* (mestory_core/events/keys.py, mestory_core/events/schemas.py): the      *)
(* routing keys, the classes of events with their fields, the map from     *)
(* keys to classes, and what model_dump_json and model_validate_json do to *)
(* an event on its way.                                                    *)
(*                                                                         *)
(* An event is its class, its event_id and its data, which stand for the   *)
(* values of all other fields.  Fields of one name have one type in every  *)
(* class, so a body fits a class if it has the fields the class requires.  *)
(***************************************************************************)
EXTENDS Naturals, Sequences

CONSTANTS
    Id,         \* event ids; uuid4 yields one that no event has had before
    FreshId,    \* the ids default_factory may yield when a body is read
    Data        \* the values of the fields of an event

ASSUME ContractAssumption == FreshId \subseteq Id

\* The members of RoutingKey and their values.
RoutingKey ==
    [USER_REGISTERED               |-> "auth.user.registered",
     USER_VERIFICATION_REQUESTED   |-> "auth.user.verification_requested",
     USER_PASSWORD_RESET_REQUESTED |-> "auth.user.password_reset_requested",
     USER_VERIFIED                 |-> "auth.user.verified",
     USER_PASSWORD_RESET           |-> "auth.user.password_reset",
     USER_DELETED                  |-> "auth.user.deleted",
     PROFILE_CREATED               |-> "profile.created",
     PROFILE_UPDATED               |-> "profile.updated",
     PROFILE_BUSINESS_VERIFIED     |-> "profile.business.verified",
     PROFILE_FOLLOWED              |-> "profile.followed",
     PROFILE_UNFOLLOWED            |-> "profile.unfollowed",
     PROFILE_BLOCKED               |-> "profile.blocked",
     PROFILE_UNBLOCKED             |-> "profile.unblocked",
     PROFILE_DELETED               |-> "profile.deleted"]

\* What every class inherits from Event; both have a default_factory.
base_fields == {"event_id", "occurred_at"}

\* The routing_key and the fields each class declares.
Class(key, fields) == [routing_key |-> key, fields |-> fields \cup base_fields]

Schema ==
    [UserRegistered         |-> Class("USER_REGISTERED", {"user_id", "email"}),
     VerificationRequested  |-> Class("USER_VERIFICATION_REQUESTED", {"user_id", "email", "token"}),
     UserVerified           |-> Class("USER_VERIFIED", {"user_id", "email"}),
     PasswordResetRequested |-> Class("USER_PASSWORD_RESET_REQUESTED", {"user_id", "email", "token"}),
     PasswordReset          |-> Class("USER_PASSWORD_RESET", {"user_id", "email"}),
     UserDeleted            |-> Class("USER_DELETED", {"user_id"}),
     ProfileCreated         |-> Class("PROFILE_CREATED", {"profile_id", "user_id", "handle", "account_type"}),
     ProfileUpdated         |-> Class("PROFILE_UPDATED", {"profile_id", "user_id", "display_name",
                                                          "account_type", "avatar_media_id"}),
     ProfileBusinessVerified |-> Class("PROFILE_BUSINESS_VERIFIED", {"profile_id", "user_id"}),
     ProfileFollowed        |-> Class("PROFILE_FOLLOWED", {"follower_id", "followee_id"}),
     ProfileUnfollowed      |-> Class("PROFILE_UNFOLLOWED", {"follower_id", "followee_id"}),
     ProfileBlocked         |-> Class("PROFILE_BLOCKED", {"blocker_id", "blocked_id"}),
     ProfileUnblocked       |-> Class("PROFILE_UNBLOCKED", {"blocker_id", "blocked_id"}),
     ProfileDeleted         |-> Class("PROFILE_DELETED", {"profile_id", "user_id"})]

\* Mutant of routing_key: the key of ProfileFollowed is copied to its opposite.
routing_key_copied(type) ==
    Schema[IF type = "ProfileUnfollowed" THEN "ProfileFollowed" ELSE type].routing_key

routing_key(type) == Schema[type].routing_key

\* A field may be absent from a body if its class gives it a default.
required(type) == Schema[type].fields \ (base_fields \cup {"avatar_media_id"})

-----------------------------------------------------------------------------
(* The map of the consumer *)

\* Mutant of all_event_types: the map is built above the last classes of the
\* module, which __subclasses__() does not see yet.
all_event_types_early ==
    <<"UserRegistered", "VerificationRequested", "UserVerified", "PasswordResetRequested",
      "PasswordReset", "UserDeleted", "ProfileCreated", "ProfileUpdated",
      "ProfileBusinessVerified", "ProfileFollowed">>

\* _all_event_types(Event): the walk over __subclasses__(), which have no
\* subclasses of their own, yields them in the order of their definitions.
all_event_types ==
    <<"UserRegistered", "VerificationRequested", "UserVerified", "PasswordResetRequested",
      "PasswordReset", "UserDeleted", "ProfileCreated", "ProfileUpdated",
      "ProfileBusinessVerified", "ProfileFollowed", "ProfileUnfollowed", "ProfileBlocked",
      "ProfileUnblocked", "ProfileDeleted">>

\* The comprehension keeps the last class of a key.
LastWith(key) == CHOOSE i \in DOMAIN all_event_types :
                    /\ routing_key(all_event_types[i]) = key
                    /\ \A j \in DOMAIN all_event_types :
                           routing_key(all_event_types[j]) = key => j <= i

EVENTS_BY_ROUTING_KEY ==
    [key \in {routing_key(all_event_types[i]) : i \in DOMAIN all_event_types} |->
        all_event_types[LastWith(key)]]

-----------------------------------------------------------------------------
(* Writing and reading *)

Event == [type : DOMAIN Schema, event_id : Id, data : Data]

\* Mutant of Dump: exclude_unset leaves out what a default_factory has set.
DumpUnset(e) == [fields |-> required(e.type), event_id |-> e.event_id, data |-> e.data]

\* model_dump_json: the fields of the class; routing_key is a ClassVar.
Dump(e) == [fields |-> Schema[e.type].fields, event_id |-> e.event_id, data |-> e.data]

\* What RabbitEventPublisher sends for an event.
MessageOf(e) == [routing_key |-> RoutingKey[routing_key(e.type)], body |-> Dump(e)]

\* Mutant of Validate: model_construct, which checks nothing.
ValidateNothing(type, body) ==
    [type : {type},
     event_id : IF "event_id" \in body.fields THEN {body.event_id} ELSE FreshId,
     data : {body.data}]

\* model_validate_json: none if a required field is missing; fields the class
\* does not know are ignored; an absent event_id is drawn afresh.
Validate(type, body) ==
    [type : {t \in {type} : required(t) \subseteq body.fields},
     event_id : IF "event_id" \in body.fields THEN {body.event_id} ELSE FreshId,
     data : {body.data}]

\* What a consumer may make of a message: the member of RoutingKey with that
\* value, its class in the map, and the body read as that class.  Nothing
\* if any of the three steps raises.
Readings(m) ==
    UNION {Validate(EVENTS_BY_ROUTING_KEY[key], m.body) :
              key \in {k \in DOMAIN EVENTS_BY_ROUTING_KEY : RoutingKey[k] = m.routing_key}}

=============================================================================
