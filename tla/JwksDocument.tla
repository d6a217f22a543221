------------------------------ MODULE JwksDocument ------------------------------
(***************************************************************************)
(* What JwksClient._fetch makes of one answer of the key source            *)
(* (mestory_core/auth/jwks.py, _fetch and _to_pem).                        *)
(*                                                                         *)
(* The source is not trusted: the reply may be no reply at all, a page     *)
(* that is not JSON, JSON of the wrong shape, or a document whose entries  *)
(* are partly unusable.  This module decides which of four fates a reply   *)
(* meets and, for the good one, which kid -> PEM dictionary replaces the   *)
(* cache.  It has no state: JwksClient applies it to the reply of a GET.   *)
(***************************************************************************)
EXTENDS Naturals, Sequences

CONSTANTS
    Kid,        \* key identifiers a token header can carry: nonempty strings
    Pem,        \* PEM texts _to_pem can produce
    NoKid,      \* an entry without the field 'kid'
    AlienKid,   \* a 'kid' that is hashable but no string: a number, null
    ListKid,    \* a 'kid' that is not hashable: a list, an object
    BadKey,     \* key material _to_pem rejects: not RSA, or cannot be parsed
    Scalar      \* an entry of 'keys' that is not a JSON object

ASSUME DocumentAssumption ==
    /\ {NoKid, AlienKid, ListKid} \cap Kid = {}
    /\ NoKid # AlienKid /\ NoKid # ListKid /\ AlienKid # ListKid
    /\ BadKey \notin Pem

-----------------------------------------------------------------------------
(* Replies *)

JwkObject == [kid : Kid \cup {NoKid, AlienKid, ListKid}, key : Pem \cup {BadKey}]

Entry == JwkObject \cup {Scalar}

\* get() or raise_for_status() raises httpx.HTTPError; the body is not JSON;
\* the JSON is no object; 'keys' is no list; 'keys' is a list (an absent
\* field counts as the empty one).
ReplyKind == {"transport_error", "status_error", "not_json", "not_object",
              "keys_not_list", "keys"}

ReplyType == [kind : ReplyKind, entries : Seq(Entry)]

\* The dictionaries the comprehension of _fetch can build.
Document == UNION {[D -> Pem] : D \in SUBSET (Kid \cup {AlienKid})}

NoDocument == [k \in {} |-> BadKey]

-----------------------------------------------------------------------------
(* The dictionary comprehension, read left to right *)

\* The entries `if "kid" in jwk` lets through; the others are never parsed.
Carriers(s) == {i \in DOMAIN s : s[i].kid # NoKid}

\* The entry stops the comprehension: the value _to_pem(jwk) is computed
\* first and raises, or the kid cannot be a dictionary key.
Breaks(e) == e.key = BadKey \/ e.kid = ListKid

FirstBreak(s) == CHOOSE i \in Carriers(s) :
                    /\ Breaks(s[i])
                    /\ \A j \in Carriers(s) : Breaks(s[j]) => i <= j

\* A kid that occurs twice keeps the key of its last entry.
LastOf(s, k) == CHOOSE i \in Carriers(s) :
                   /\ s[i].kid = k
                   /\ \A j \in Carriers(s) : s[j].kid = k => j <= i

ParsedKeys(s) == [k \in {s[i].kid : i \in Carriers(s)} |-> s[LastOf(s, k)].key]

-----------------------------------------------------------------------------
(* The fate of a reply *)

ParseOutcome(s) ==
    IF \E i \in DOMAIN s : s[i] = Scalar
    THEN "malformed"
    ELSE IF \E i \in Carriers(s) : Breaks(s[i])
         THEN IF s[FirstBreak(s)].key = BadKey THEN "malformed" ELSE "bug"
         ELSE IF Carriers(s) = {} THEN "malformed" ELSE "ok"

\* "http" is httpx.HTTPError, "malformed" MalformedJwksDocumentError and "bug"
\* any other exception (here the TypeError of an unhashable kid).
Outcome(r) ==
    IF r.kind \in {"transport_error", "status_error"} THEN "http"
    ELSE IF r.kind \in {"not_json", "not_object", "keys_not_list"} THEN "malformed"
    ELSE ParseOutcome(r.entries)

=============================================================================
