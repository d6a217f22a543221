------------------------------ MODULE MCJwksClient ------------------------------
(***************************************************************************)
(* Instances of JwksClient for TLC.  A reply is represented by one         *)
(* example of each fate a caller can tell apart, and by documents that     *)
(* differ in the kids they hold and in the key they give to a kid.         *)
(***************************************************************************)
EXTENDS JwksClient, TLC

CONSTANTS k1, k2, p1, p2

Failed(kind) == [kind |-> kind, entries |-> <<>>]
Listing(s) == [kind |-> "keys", entries |-> s]
Jwk(k, key) == [kid |-> k, key |-> key]

\* Every fate: an outage, a document of another shape, a bug, a document
\* of one kid, one that adds a kid and renews the key of the first, and one
\* whose only kid no token can carry.
AllReplies == {
    Failed("transport_error"),
    Failed("not_json"),
    Listing(<<Jwk(ListKid, p1)>>),
    Listing(<<Jwk(k1, p1), Jwk(NoKid, BadKey)>>),
    Listing(<<Jwk(k1, p1), Jwk(k2, p2), Jwk(k1, p2)>>),
    Listing(<<Jwk(AlienKid, p1)>>)}

\* An outage, and documents of one kid or both: enough for the protocol.
FewReplies == {
    Failed("status_error"),
    Listing(<<Jwk(k1, p1)>>),
    Listing(<<Jwk(k1, p1), Jwk(k2, p2)>>)}

CallSymmetry == Permutations(Call)

=============================================================================
