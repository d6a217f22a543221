------------------------------ MODULE MCKeyRotation ------------------------------
(***************************************************************************)
(* An instance of KeyRotation for TLC: a source that replaces its key by   *)
(* another one, so that each document refuses what the other one vouches   *)
(* for, and two ways for a GET to fail.                                    *)
(***************************************************************************)
EXTENDS KeyRotation

CONSTANTS k1, k2, p1, p2

Listing(s) == [kind |-> "keys", entries |-> s]
Jwk(k, key) == [kid |-> k, key |-> key]

Documents == <<Listing(<<Jwk(k1, p1)>>), Listing(<<Jwk(k2, p2)>>)>>

Replies == {Documents[v] : v \in DOMAIN Documents}
               \cup {[kind |-> "transport_error", entries |-> <<>>],
                     [kind |-> "not_json", entries |-> <<>>]}

=============================================================================
