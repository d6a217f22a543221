------------------------------ MODULE TokenLifetime ------------------------------
(***************************************************************************)
(* The life of one access token (mestory_core/auth/claims.py:              *)
(* verify_access_token, AccessTokenClaims.remaining_seconds).  A token     *)
(* carries the rights its account had when it was issued and is accepted,  *)
(* by every service alone, until it expires; auth_service, which issues    *)
(* it, also keeps a denylist of tokens that were logged out.               *)
(*                                                                         *)
(* iat, exp and TTLs are whole seconds and the clock is not: an instant is *)
(* a second and a fraction of it.  auth_service is not this repository's   *)
(* code; all services read one clock.                                      *)
(***************************************************************************)
EXTENDS AccessControl, Integers

CONSTANTS
    Guards,     \* the endpoints looked at
    Lifetime,   \* of an access token, in seconds
    Fraction,   \* how many instants of a second are told apart
    Horizon,    \* bound: the second at which the clock stops
    NoToken     \* no token has been issued yet

Instant == [sec : Int, sub : 0 .. Fraction - 1]

Token == [claims : Claims, iat : Int, exp : Int]

ASSUME LifetimeAssumption ==
    /\ Guards \subseteq Endpoint
    /\ Lifetime \in Nat \ {0} /\ Fraction \in Nat \ {0} /\ Horizon \in Nat
    /\ NoToken \notin Token

VARIABLES
    clock,      \* the time, on every host
    endpoint,   \* the endpoint the token is shown to
    account,    \* the rights of the account, as auth_service knows them
    admittedAt, \* history: when the account last was entitled to the endpoint
    token,      \* the token
    logout,     \* how far the logout has come
    ttl,        \* what remaining_seconds returned to it
    denied      \* when the entry of the token leaves the denylist

logoutVars == <<logout, ttl, denied>>
vars == <<clock, endpoint, account, admittedAt, token, logoutVars>>

Earlier(a, b) == a.sec < b.sec \/ (a.sec = b.sec /\ a.sub < b.sub)

Later(a, seconds) == [a EXCEPT !.sec = @ + seconds]

LongAgo == [sec |-> -Lifetime, sub |-> 0]

\* The account was entitled up to now, unless it had lost its right before.
Entitled(rights, instant) ==
    IF Admits(endpoint, rights) THEN instant ELSE admittedAt

Init ==
    /\ clock = [sec |-> 0, sub |-> 0]
    /\ endpoint \in Guards
    /\ account = [roles |-> {ROLE_USER}, is_superuser |-> FALSE]
    /\ admittedAt = IF Admits(endpoint, account) THEN clock ELSE LongAgo
    /\ token = NoToken
    /\ logout = "open" /\ ttl = 0 /\ denied = LongAgo

-----------------------------------------------------------------------------
(* The token *)

\* Mutant of Accepts: the check of exp is switched off by an option.
AcceptsExpired == token # NoToken /\ token.iat <= clock.sec

\* jwt.decode: `iat` not in the future, `exp` not reached.  Both are whole
\* seconds, so the fraction of the clock does not count.
Accepts == token # NoToken /\ token.iat <= clock.sec /\ clock.sec < token.exp

\* Mutant of remaining_seconds: the difference is rounded, not the clock.
remaining_rounded ==
    LET now == clock.sec + (IF clock.sub > 0 THEN 1 ELSE 0)
    IN  IF now < token.exp THEN token.exp - now ELSE 0

\* Mutant of remaining_seconds: no lower bound.
remaining_signed == token.exp - clock.sec

\* max(exp - int(now), 0)
remaining_seconds == IF clock.sec < token.exp THEN token.exp - clock.sec ELSE 0

-----------------------------------------------------------------------------
(* auth_service *)

\* build_access_token: iat is the current second.
Issue ==
    /\ token = NoToken
    /\ token' = [claims |-> account, iat |-> clock.sec, exp |-> clock.sec + Lifetime]
    /\ UNCHANGED <<clock, endpoint, account, admittedAt, logoutVars>>

Change(rights) ==
    /\ account' = rights
    /\ admittedAt' = Entitled(rights, clock)
    /\ UNCHANGED <<clock, endpoint, token, logoutVars>>

Grant == \E role \in Role \ account.roles : Change([account EXCEPT !.roles = @ \cup {role}])

Revoke == \E role \in account.roles : Change([account EXCEPT !.roles = @ \ {role}])

ToggleSuperuser == Change([account EXCEPT !.is_superuser = ~@])

\* The logout request is made with a token that is still good ...
Logout ==
    /\ logout = "open"
    /\ Accepts
    /\ logout' = "requested"
    /\ UNCHANGED <<clock, endpoint, account, admittedAt, token, ttl, denied>>

\* ... its remaining life is asked for, maybe after it has expired ...
Measure ==
    /\ logout = "requested"
    /\ logout' = "measured"
    /\ ttl' = remaining_seconds
    /\ UNCHANGED <<clock, endpoint, account, admittedAt, token, denied>>

\* ... and the entry is written, later still, and leaves the list by itself.
Deny ==
    /\ logout = "measured"
    /\ logout' = "denied"
    /\ denied' = Later(clock, ttl)
    /\ UNCHANGED <<clock, endpoint, account, admittedAt, token, ttl>>

NextInstant == IF clock.sub + 1 < Fraction
               THEN [clock EXCEPT !.sub = @ + 1]
               ELSE [sec |-> clock.sec + 1, sub |-> 0]

Tick ==
    /\ clock.sec < Horizon
    /\ clock' = NextInstant
    /\ admittedAt' = Entitled(account, NextInstant)
    /\ UNCHANGED <<endpoint, account, token, logoutVars>>

Next == Issue \/ Grant \/ Revoke \/ ToggleSuperuser \/ Logout \/ Measure \/ Deny \/ Tick

Spec == Init /\ [][Next]_vars

-----------------------------------------------------------------------------
(* Properties *)

LifeTypeOK ==
    /\ clock \in Instant /\ admittedAt \in Instant /\ denied \in Instant
    /\ endpoint \in Endpoint
    /\ account \in Claims
    /\ token \in Token \cup {NoToken}
    /\ logout \in {"open", "requested", "measured", "denied"}
    /\ ttl \in Nat

\* A token that was logged out is on the denylist for as long as it would be
\* accepted, though both times are rounded and time passes between the logout,
\* remaining_seconds and the write (remaining_seconds).
NoRevokedTokenPasses == logout = "denied" /\ Accepts => Earlier(clock, denied)

\* A right taken from an account outlives that by less than the lifetime of a
\* token, although no service asks auth_service ("не более 15 минут", docstring
\* of AccessTokenVerifier): whoever passes was entitled to it that recently.
StaleRightsExpire ==
    Accepts /\ Admits(endpoint, token.claims)
        => Earlier(clock, Later(admittedAt, Lifetime))

\* No grant closes a door: the roles of an account add up, whatever the guard
\* (require_roles, require_permissions).
GrantNeverNarrows ==
    [][account.roles \subseteq account'.roles
       /\ (account.is_superuser => account'.is_superuser)
       /\ Admits(endpoint, account) => Admits(endpoint, account')]_vars

\* A role the table does not know (renamed, or of another service) never
\* widens access to an endpoint guarded by permissions, nor to one whose
\* guard does not name it (permissions_for_roles).
ForeignRoleNeverWidens ==
    [][\A role \in ForeignRole :
           account' = [account EXCEPT !.roles = @ \cup {role}]
           /\ ~Admits(endpoint, account) /\ Admits(endpoint, account')
               => endpoint.guard = "roles" /\ role \in endpoint.required]_vars

=============================================================================
