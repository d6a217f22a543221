----------------------------- MODULE MCAuthPipeline -----------------------------
(***************************************************************************)
(* An instance of AuthPipeline for TLC: requests that differ in what the   *)
(* handler tells apart, and replies of every fate.                         *)
(***************************************************************************)
EXTENDS AuthPipeline, TLC

CONSTANTS k1, k2, p1, p2

Failed(kind) == [kind |-> kind, entries |-> <<>>]
Listing(s) == [kind |-> "keys", entries |-> s]
Jwk(k, key) == [kid |-> k, key |-> key]

Replies == {
    Failed("transport_error"),
    Failed("keys_not_list"),
    Listing(<<Jwk(ListKid, p1)>>),
    Listing(<<Jwk(k1, p1)>>),
    Listing(<<Jwk(k1, p2), Jwk(k2, p2)>>)}

moderator == [roles |-> {ROLE_MODERATOR, "curator"}, is_superuser |-> FALSE]
superuser == [roles |-> {}, is_superuser |-> TRUE]

Signed(k, key, payload) == [header |-> "kid", kid |-> k, signer |-> key, payload |-> payload]

readAny   == [guard |-> "permissions", required |-> {"user:read:any"}]
adminOnly == [guard |-> "roles", required |-> {ROLE_ADMIN}]

To(endpoint, token) == [endpoint |-> endpoint, credentials |-> TRUE, token |-> token]

\* A token of either key of k1 and one of k2, accepted and refused by their
\* endpoints; a token with a payload that is refused; no kid; no credentials.
Requests == {
    To(readAny, Signed(k1, p1, moderator)),
    To(adminOnly, Signed(k1, p2, moderator)),
    To(adminOnly, Signed(k2, p2, superuser)),
    To(readAny, Signed(k1, p1, Rejected)),
    To(readAny, [Signed(k1, p1, moderator) EXCEPT !.header = "no_kid"]),
    [To(readAny, Signed(k1, p1, moderator)) EXCEPT !.credentials = FALSE]}

CallSymmetry == Permutations(Call)

=============================================================================
