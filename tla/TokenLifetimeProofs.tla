--------------------------- MODULE TokenLifetimeProofs ---------------------------
(***************************************************************************)
(* Theorems about AccessControl and TokenLifetime, for any endpoints,      *)
(* unknown roles, lifetime and precision of the clock.                     *)
(***************************************************************************)
EXTENDS TokenLifetime, TLAPS

-----------------------------------------------------------------------------
(* The checks of AccessControl, for every endpoint and every token *)

\* The permissions of a token grow with its roles.
LEMMA PermissionsAreMonotone ==
    ASSUME NEW more, NEW roles \in SUBSET more
    PROVE  permissions_for_roles(roles) \subseteq permissions_for_roles(more)
<1>1. roles \cap ALL_ROLES \subseteq more \cap ALL_ROLES
  OBVIOUS
<1> QED  BY <1>1 DEF permissions_for_roles

\* A role the table does not know adds no permission.
LEMMA ForeignRoleAddsNothing ==
    ASSUME NEW role \in ForeignRole, NEW roles
    PROVE  permissions_for_roles(roles \cup {role}) = permissions_for_roles(roles)
<1>1. (roles \cup {role}) \cap ALL_ROLES = roles \cap ALL_ROLES
  BY AccessAssumption
<1> QED  BY <1>1 DEF permissions_for_roles

\* A token with more roles is admitted wherever one with fewer is
\* (require_roles, require_permissions).
THEOREM AdmissionIsMonotone ==
    ASSUME NEW guarded \in Endpoint, NEW a \in Claims, NEW b \in Claims,
           a.roles \subseteq b.roles, a.is_superuser = b.is_superuser,
           Admits(guarded, a)
    PROVE  Admits(guarded, b)
<1>1. is_unrestricted(a) => is_unrestricted(b)
  BY DEF is_unrestricted
<1>2. permissions_for_roles(a.roles) \subseteq permissions_for_roles(b.roles)
  BY PermissionsAreMonotone
<1> QED  BY <1>1, <1>2 DEF Admits

\* A role name outside the table opens nothing but the endpoints that name it
\* (permissions_for_roles, _is_unrestricted).
THEOREM ForeignRoleOpensNothing ==
    ASSUME NEW guarded \in Endpoint, NEW a \in Claims, NEW b \in Claims,
           NEW role \in ForeignRole,
           b.roles = a.roles \cup {role}, a.is_superuser = b.is_superuser,
           ~(guarded.guard = "roles" /\ role \in guarded.required)
    PROVE  Admits(guarded, b) => Admits(guarded, a)
<1>1. is_unrestricted(b) => is_unrestricted(a)
  BY AccessAssumption DEF is_unrestricted, ALL_ROLES
<1>2. permissions_for_roles(b.roles) = permissions_for_roles(a.roles)
  BY ForeignRoleAddsNothing
<1>3. guarded.guard = "roles" /\ guarded.required \cap b.roles # {}
          => guarded.required \cap a.roles # {}
  OBVIOUS
<1> QED  BY <1>1, <1>2, <1>3 DEF Admits

\* The table is a hierarchy: a moderator is admitted wherever permissions are
\* needed and a user is admitted, and what the table gives to the administrator
\* alone needs an unrestricted account (ROLE_PERMISSIONS, require_permissions).
THEOREM TableIsHierarchy ==
    ASSUME NEW guarded \in Endpoint, guarded.guard = "permissions",
           NEW claims \in Claims
    PROVE  /\ Admits(guarded, [claims EXCEPT !.roles = {ROLE_USER}])
                  => Admits(guarded, [claims EXCEPT !.roles = {ROLE_MODERATOR}])
           /\ guarded.required \cap {"user:delete:any", "role:assign"} # {}
              /\ Admits(guarded, claims)
                  => is_unrestricted(claims)
<1> USE DEF ROLE_USER, ROLE_MODERATOR, ROLE_ADMIN, ALL_ROLES
<1>1. /\ permissions_for_roles({ROLE_USER}) = ROLE_PERMISSIONS[ROLE_USER]
      /\ permissions_for_roles({ROLE_MODERATOR}) = ROLE_PERMISSIONS[ROLE_MODERATOR]
  BY DEF permissions_for_roles
<1>2. ROLE_PERMISSIONS[ROLE_USER] \subseteq ROLE_PERMISSIONS[ROLE_MODERATOR]
  BY DEF ROLE_PERMISSIONS
<1>3. \A role \in ALL_ROLES \ {ROLE_ADMIN} :
          ROLE_PERMISSIONS[role] \cap {"user:delete:any", "role:assign"} = {}
  BY DEF ROLE_PERMISSIONS
<1>4. ROLE_ADMIN \notin claims.roles
          => permissions_for_roles(claims.roles) \cap {"user:delete:any", "role:assign"} = {}
  BY <1>3 DEF permissions_for_roles
<1>5. Admits(guarded, [claims EXCEPT !.roles = {ROLE_USER}])
          => Admits(guarded, [claims EXCEPT !.roles = {ROLE_MODERATOR}])
  BY <1>1, <1>2 DEF Admits, is_unrestricted, Claims
<1>6. ASSUME guarded.required \cap {"user:delete:any", "role:assign"} # {},
             Admits(guarded, claims)
      PROVE  is_unrestricted(claims)
  BY <1>4, <1>6 DEF Admits, is_unrestricted
<1> QED  BY <1>5, <1>6

-----------------------------------------------------------------------------
(* The steps *)

\* Time does not go back, and a tick skips no second.
LEMMA NextInstantType ==
    ASSUME clock \in Instant
    PROVE  /\ NextInstant \in Instant
           /\ NextInstant.sec \in {clock.sec, clock.sec + 1}
BY LifetimeAssumption DEF Instant, NextInstant

\* The steps of the specification, action by action.
LEMMA LifeSteps ==
    ASSUME Next
    PROVE  \/ Issue
           \/ \E rights : Change(rights) /\ (account \in Claims => rights \in Claims)
           \/ Logout \/ Measure \/ Deny \/ Tick
<1>1. ASSUME NEW role \in Role, account \in Claims
      PROVE  /\ [account EXCEPT !.roles = @ \cup {role}] \in Claims
             /\ [account EXCEPT !.roles = @ \ {role}] \in Claims
  BY <1>1 DEF Claims
<1>2. account \in Claims => [account EXCEPT !.is_superuser = ~@] \in Claims
  BY DEF Claims
<1>3. CASE Grant
  BY <1>1, <1>3 DEF Grant
<1>4. CASE Revoke
  <2>1. PICK role \in account.roles : Change([account EXCEPT !.roles = @ \ {role}])
    BY <1>4 DEF Revoke
  <2>2. account \in Claims => role \in Role
    BY DEF Claims
  <2> QED  BY <1>1, <2>1, <2>2
<1>5. CASE ToggleSuperuser
  BY <1>2, <1>5 DEF ToggleSuperuser
<1> QED  BY <1>3, <1>4, <1>5 DEF Next

-----------------------------------------------------------------------------
(* The inductive invariant *)

\* What was issued was issued by now, for Lifetime seconds.
IssuedBefore ==
    token # NoToken => token.exp = token.iat + Lifetime /\ token.iat <= clock.sec

\* The account was entitled when, or after, the token got its rights; and as
\* long as it is, the history says so.
EntitledSince ==
    /\ token # NoToken /\ Admits(endpoint, token.claims) => token.iat <= admittedAt.sec
    /\ Admits(endpoint, account) => admittedAt = clock

\* From remaining_seconds on, what the logout holds reaches beyond exp.
LogoutCoversToken ==
    /\ logout # "open" => token # NoToken
    /\ logout = "measured" => token.exp <= clock.sec + ttl
    /\ logout = "denied" => token.exp <= denied.sec

LifeInv == LifeTypeOK /\ IssuedBefore /\ EntitledSince /\ LogoutCoversToken

LEMMA LifeInit == Init => LifeInv
<1> SUFFICES ASSUME Init PROVE LifeInv
  OBVIOUS
<1> USE LifetimeAssumption
<1>1. LongAgo \in Instant /\ clock \in Instant
  BY DEF Init, LongAgo, Instant
<1>2. account \in Claims
  BY DEF Init, Claims, Role, ALL_ROLES
<1>3. LifeTypeOK
  BY <1>1, <1>2 DEF Init, LifeTypeOK
<1> QED  BY <1>3 DEF Init, LifeInv, IssuedBefore, EntitledSince, LogoutCoversToken

\* A token is issued with the rights of the account at that moment.
LEMMA IssueKeeps == LifeInv /\ Issue => LifeInv'
<1> SUFFICES ASSUME LifeInv, Issue PROVE LifeInv'
  OBVIOUS
<1> USE LifetimeAssumption DEF LifeInv, LifeTypeOK, Issue, logoutVars
<1>1. clock.sec \in Int /\ clock.sec + Lifetime \in Int
  BY DEF Instant
<1>2. /\ token' \in Token
      /\ token'.claims = account /\ token'.iat = clock.sec
      /\ token'.exp = clock.sec + Lifetime
  BY <1>1 DEF Token
<1>3. LifeTypeOK'
  BY <1>2
<1>4. IssuedBefore'
  BY <1>1, <1>2 DEF IssuedBefore
<1>5. EntitledSince'
  <2>1. Admits(endpoint, account) => admittedAt.sec = clock.sec
    BY DEF EntitledSince
  <2>2. endpoint' = endpoint /\ account' = account /\ admittedAt' = admittedAt /\ clock' = clock
    OBVIOUS
  <2>3. Admits(endpoint, account)' <=> Admits(endpoint, account)
    BY <2>2 DEF Admits
  <2>4. Admits(endpoint, token.claims)' <=> Admits(endpoint, account)
    BY <1>2, <2>2 DEF Admits
  <2> QED  BY <1>1, <1>2, <2>1, <2>2, <2>3, <2>4 DEF EntitledSince
<1>6. LogoutCoversToken'
  BY DEF LogoutCoversToken
<1> QED  BY <1>3, <1>4, <1>5, <1>6

\* A change of rights is written into the history.
LEMMA ChangeKeeps ==
    ASSUME LifeInv, NEW rights \in Claims, Change(rights)
    PROVE  LifeInv'
<1> USE DEF LifeInv, LifeTypeOK, Change, logoutVars
<1>1. admittedAt' \in Instant
  BY DEF Entitled
<1>2. LifeTypeOK'
  BY <1>1
<1>3. IssuedBefore' /\ LogoutCoversToken'
  BY DEF IssuedBefore, LogoutCoversToken
<1>4. EntitledSince'
  <2>1. /\ Admits(endpoint, account)' <=> Admits(endpoint, rights)
        /\ Admits(endpoint, token.claims)' <=> Admits(endpoint, token.claims)
    BY DEF Admits
  <2>2. admittedAt' = IF Admits(endpoint, rights) THEN clock ELSE admittedAt
    BY DEF Entitled
  <2>3. token # NoToken => token.iat <= clock.sec
    BY DEF IssuedBefore
  <2> QED  BY <2>1, <2>2, <2>3 DEF EntitledSince
<1> QED  BY <1>2, <1>3, <1>4

\* The logout measures no less than what is left of the token.
LEMMA LogoutKeeps == LifeInv /\ (Logout \/ Measure \/ Deny) => LifeInv'
<1> SUFFICES ASSUME LifeInv, Logout \/ Measure \/ Deny PROVE LifeInv'
  OBVIOUS
<1> USE LifetimeAssumption DEF LifeInv, LifeTypeOK
<1>1. UNCHANGED <<clock, endpoint, account, admittedAt, token>>
  BY DEF Logout, Measure, Deny
<1>2. IssuedBefore'
  BY <1>1 DEF IssuedBefore
<1>3. EntitledSince'
  BY <1>1 DEF EntitledSince, Admits
<1>4. CASE Logout
  <2>1. LogoutCoversToken'
    BY <1>4 DEF Logout, Accepts, LogoutCoversToken
  <2> QED  BY <1>2, <1>3, <1>4, <2>1 DEF Logout
<1>5. CASE Measure
  <2>1. token \in Token
    BY <1>5 DEF Measure, LogoutCoversToken
  <2>2. token.exp \in Int /\ clock.sec \in Int
    BY <2>1 DEF Token, Instant
  <2>3. remaining_seconds \in Nat /\ token.exp <= clock.sec + remaining_seconds
    BY <2>2 DEF remaining_seconds
  <2>4. LogoutCoversToken'
    BY <1>1, <1>5, <2>3 DEF Measure, LogoutCoversToken
  <2> QED  BY <1>1, <1>2, <1>3, <1>5, <2>3, <2>4 DEF Measure
<1>6. CASE Deny
  <2>1. Later(clock, ttl) \in Instant /\ Later(clock, ttl).sec = clock.sec + ttl
    BY DEF Later, Instant
  <2>2. LogoutCoversToken'
    BY <1>1, <1>6, <2>1 DEF Deny, LogoutCoversToken
  <2> QED  BY <1>1, <1>2, <1>3, <1>6, <2>1, <2>2 DEF Deny
<1> QED  BY <1>4, <1>5, <1>6

\* Time passes for all of them.
LEMMA TickKeeps == LifeInv /\ Tick => LifeInv'
<1> SUFFICES ASSUME LifeInv, Tick PROVE LifeInv'
  OBVIOUS
<1> USE DEF LifeInv, LifeTypeOK, Tick, logoutVars
<1>1. /\ clock' = NextInstant /\ clock' \in Instant
      /\ clock.sec \in Int /\ clock'.sec \in Int /\ clock.sec <= clock'.sec
  BY NextInstantType DEF Instant
<1>2. admittedAt' = IF Admits(endpoint, account) THEN clock' ELSE admittedAt
  BY <1>1 DEF Entitled
<1>3. LifeTypeOK'
  BY <1>1, <1>2
<1>4. token # NoToken => token.exp \in Int /\ token.iat \in Int
  BY DEF Token
<1>5. IssuedBefore'
  BY <1>1, <1>4 DEF IssuedBefore
<1>6. LogoutCoversToken'
  <2>1. ttl \in Int
    OBVIOUS
  <2> QED  BY <1>1, <1>4, <2>1 DEF LogoutCoversToken
<1>7. EntitledSince'
  <2>1. /\ Admits(endpoint, account)' <=> Admits(endpoint, account)
        /\ Admits(endpoint, token.claims)' <=> Admits(endpoint, token.claims)
    BY DEF Admits
  <2>2. token # NoToken => token.iat <= clock'.sec
    BY <1>1, <1>4 DEF IssuedBefore
  <2> QED  BY <1>2, <2>1, <2>2 DEF EntitledSince
<1> QED  BY <1>3, <1>5, <1>6, <1>7

\* The inductive invariant holds in every reachable state.
THEOREM LifeInductive == Spec => []LifeInv
<1>1. LifeInv /\ [Next]_vars => LifeInv'
  <2> SUFFICES ASSUME LifeInv, [Next]_vars PROVE LifeInv'
    OBVIOUS
  <2>1. CASE Next
    <3>1. account \in Claims
      BY DEF LifeInv, LifeTypeOK
    <3> QED  BY <2>1, <3>1, LifeSteps, IssueKeeps, ChangeKeeps, LogoutKeeps, TickKeeps
  <2>2. CASE UNCHANGED vars
    BY <2>2 DEF vars, logoutVars, LifeInv, LifeTypeOK, IssuedBefore, EntitledSince,
                LogoutCoversToken, Admits
  <2> QED  BY <2>1, <2>2
<1> QED  BY <1>1, LifeInit, PTL DEF Spec

-----------------------------------------------------------------------------
(* The properties *)

\* The variables keep their types; in particular no TTL is negative
\* (remaining_seconds).
THEOREM LifeTyping == Spec => []LifeTypeOK
BY LifeInductive, PTL DEF LifeInv

\* A token that was logged out is denied until it expires, however long
\* remaining_seconds and the write were delayed.
THEOREM RevokedTokenIsDenied == Spec => []NoRevokedTokenPasses
<1>1. LifeInv => NoRevokedTokenPasses
  <2> SUFFICES ASSUME LifeInv, logout = "denied", Accepts PROVE Earlier(clock, denied)
    BY DEF NoRevokedTokenPasses
  <2>1. token.exp <= denied.sec /\ clock.sec < token.exp
    BY DEF LifeInv, LogoutCoversToken, Accepts
  <2>2. clock.sec \in Int /\ denied.sec \in Int /\ token.exp \in Int
    BY DEF LifeInv, LifeTypeOK, Instant, Token, Accepts
  <2> QED  BY <2>1, <2>2 DEF Earlier
<1> QED  BY <1>1, LifeInductive, PTL

\* A right that was taken away passes for less than the lifetime of a token.
THEOREM RightsAreRecent == Spec => []StaleRightsExpire
<1>1. LifeInv => StaleRightsExpire
  <2> SUFFICES ASSUME LifeInv, Accepts, Admits(endpoint, token.claims)
               PROVE  Earlier(clock, Later(admittedAt, Lifetime))
    BY DEF StaleRightsExpire
  <2>1. /\ clock.sec < token.exp /\ token.exp = token.iat + Lifetime
        /\ token.iat <= admittedAt.sec
    BY DEF LifeInv, IssuedBefore, EntitledSince, Accepts
  <2>2. /\ clock.sec \in Int /\ admittedAt.sec \in Int /\ token.iat \in Int
        /\ Later(admittedAt, Lifetime).sec = admittedAt.sec + Lifetime
    BY DEF LifeInv, LifeTypeOK, Instant, Token, Accepts, Later
  <2> QED  BY <2>1, <2>2, LifetimeAssumption DEF Earlier
<1> QED  BY <1>1, LifeInductive, PTL

\* A step leaves the endpoint alone and the account an account.
LEMMA AccountStep ==
    ASSUME LifeTypeOK, Next
    PROVE  endpoint' = endpoint /\ endpoint \in Endpoint /\ account \in Claims
           /\ account' \in Claims
BY LifeSteps DEF LifeTypeOK, Issue, Change, Logout, Measure, Deny, Tick

\* More rights never close an endpoint to an account.
THEOREM GrantsAddUp == Spec => GrantNeverNarrows
<1> DEFINE Keeps == account.roles \subseteq account'.roles
                    /\ (account.is_superuser => account'.is_superuser)
                    /\ Admits(endpoint, account) => Admits(endpoint, account')
<1>1. LifeTypeOK /\ [Next]_vars => [Keeps]_vars
  <2> SUFFICES ASSUME LifeTypeOK, Next, account.roles \subseteq account'.roles,
                      account.is_superuser => account'.is_superuser,
                      Admits(endpoint, account)
               PROVE  Admits(endpoint, account')
    OBVIOUS
  <2>1. permissions_for_roles(account.roles) \subseteq permissions_for_roles(account'.roles)
    BY PermissionsAreMonotone
  <2>2. is_unrestricted(account) => is_unrestricted(account')
    BY DEF is_unrestricted
  <2> QED  BY <2>1, <2>2 DEF Admits
<1> QED  BY <1>1, LifeTyping, PTL DEF Spec, GrantNeverNarrows

\* An unknown role opens nothing but what names it.
THEOREM ForeignRoleNarrow == Spec => ForeignRoleNeverWidens
<1> DEFINE Keeps == \A role \in ForeignRole :
                        account' = [account EXCEPT !.roles = @ \cup {role}]
                        /\ ~Admits(endpoint, account) /\ Admits(endpoint, account')
                            => endpoint.guard = "roles" /\ role \in endpoint.required
<1>1. LifeTypeOK /\ [Next]_vars => [Keeps]_vars
  <2> SUFFICES ASSUME LifeTypeOK, Next, NEW role \in ForeignRole,
                      account' = [account EXCEPT !.roles = @ \cup {role}],
                      ~Admits(endpoint, account), Admits(endpoint, account')
               PROVE  endpoint.guard = "roles" /\ role \in endpoint.required
    OBVIOUS
  <2>1. endpoint \in Endpoint /\ account \in Claims /\ account' \in Claims
    BY AccountStep
  <2>2. account'.roles = account.roles \cup {role}
        /\ account'.is_superuser = account.is_superuser
    BY <2>1 DEF Claims
  <2> QED  BY <2>1, <2>2, ForeignRoleOpensNothing
<1> QED  BY <1>1, LifeTyping, PTL DEF Spec, ForeignRoleNeverWidens

=============================================================================
