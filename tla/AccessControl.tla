------------------------------ MODULE AccessControl ------------------------------
(***************************************************************************)
(* Roles, permissions and the checks that guard an endpoint                *)
(* (mestory_core/permissions.py; _is_unrestricted, require_roles and       *)
(* require_permissions in mestory_core/auth/dependencies.py).              *)
(*                                                                         *)
(* Roles travel inside tokens, so a service may meet a role its table does *)
(* not know.  A list of roles counts only through its elements; claims     *)
(* hold the set.                                                           *)
(***************************************************************************)

CONSTANT ForeignRole     \* role names the table does not know

ROLE_USER      == "user"
ROLE_MODERATOR == "moderator"
ROLE_ADMIN     == "admin"

ALL_ROLES == {ROLE_USER, ROLE_MODERATOR, ROLE_ADMIN}

ASSUME AccessAssumption == ForeignRole \cap ALL_ROLES = {}

Role == ALL_ROLES \cup ForeignRole

Permission == {"user:read:self", "user:update:self", "user:read:any",
               "user:update:any", "user:delete:any", "role:assign",
               "profile:verify:business"}

ROLE_PERMISSIONS ==
    [role \in ALL_ROLES |->
        CASE role = ROLE_USER -> {"user:read:self", "user:update:self"}
          [] role = ROLE_MODERATOR -> {"user:read:self", "user:update:self",
                                       "user:read:any", "user:update:any",
                                       "profile:verify:business"}
          [] role = ROLE_ADMIN -> Permission]

Claims == [roles : SUBSET Role, is_superuser : BOOLEAN]

\* Mutant of permissions_for_roles: an unknown role falls back to the default one.
permissions_with_default(roles) ==
    UNION {ROLE_PERMISSIONS[IF role \in ALL_ROLES THEN role ELSE ROLE_USER] : role \in roles}

\* Mutant of permissions_for_roles: only what every role of the token grants.
permissions_of_all(roles) ==
    {p \in Permission : \A role \in roles \cap ALL_ROLES : p \in ROLE_PERMISSIONS[role]}

\* .get(role, frozenset()): a role outside the table contributes nothing.
permissions_for_roles(roles) ==
    UNION {ROLE_PERMISSIONS[role] : role \in roles \cap ALL_ROLES}

is_unrestricted(claims) == claims.is_superuser \/ ROLE_ADMIN \in claims.roles

-----------------------------------------------------------------------------
(* The guard of an endpoint *)

\* "claims" is an endpoint that depends on get_claims alone.  require_roles()
\* and require_permissions() refuse, with ValueError, to guard by nothing.
Endpoint == [guard : {"claims"}, required : {{}}]
                \cup [guard : {"roles"}, required : SUBSET Role \ {{}}]
                \cup [guard : {"permissions"}, required : SUBSET Permission \ {{}}]

\* The checker returns the claims; otherwise it answers 403.
Admits(endpoint, claims) ==
    \/ endpoint.guard = "claims"
    \/ is_unrestricted(claims)
    \/ endpoint.guard = "roles" /\ endpoint.required \cap claims.roles # {}
    \/ endpoint.guard = "permissions"
       /\ endpoint.required \subseteq permissions_for_roles(claims.roles)

=============================================================================
