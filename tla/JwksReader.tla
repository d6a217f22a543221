------------------------------- MODULE JwksReader -------------------------------
(***************************************************************************)
(* JwksClient._fetch step by step (mestory_core/auth/jwks.py): from the    *)
(* reply of the source, through the checks of its shape and the loop over  *)
(* its entries, to the dictionary that becomes the cache or the exception  *)
(* that leaves the cache as it was.  JwksDocument says at one stroke what  *)
(* a reply amounts to; here is the code that has to find it out.           *)
(*                                                                         *)
(* Nothing suspends _fetch once it has the reply, so no other task sees    *)
(* the states in between.                                                  *)
(***************************************************************************)
EXTENDS JwksDocument

CONSTANT Replies    \* the replies looked at

ASSUME ReaderAssumption == Replies \subseteq ReplyType

VARIABLES
    reply,          \* what the source sent
    pc,             \* "received", "checking", "reading", or how _fetch ended
    next,           \* the entry a loop looks at
    parsed_keys     \* the dictionary under construction

vars == <<reply, pc, next, parsed_keys>>

raw_keys == reply.entries

Fate == {"ok", "http", "malformed", "bug"}

Init ==
    /\ reply \in Replies
    /\ pc = "received"
    /\ next = 1
    /\ parsed_keys = NoDocument

End(fate) == pc' = fate /\ UNCHANGED <<reply, next, parsed_keys>>

GoOn == next' = next + 1 /\ UNCHANGED <<reply, pc>>

-----------------------------------------------------------------------------
(* The reply as a whole *)

\* get() and raise_for_status().
RaiseHttp ==
    /\ pc = "received"
    /\ reply.kind \in {"transport_error", "status_error"}
    /\ End("http")

\* The body is no JSON, the JSON no object, or 'keys' no list.
RefuseBody ==
    /\ pc = "received"
    /\ reply.kind \in {"not_json", "not_object", "keys_not_list"}
    /\ End("malformed")

AcceptBody ==
    /\ pc = "received"
    /\ reply.kind = "keys"
    /\ pc' = "checking"
    /\ UNCHANGED <<reply, next, parsed_keys>>

-----------------------------------------------------------------------------
(* The loop over the entries that checks their shape *)

InLoop(loop) == pc = loop /\ next \in DOMAIN raw_keys

AcceptEntry ==
    /\ InLoop("checking")
    /\ raw_keys[next] # Scalar
    /\ GoOn
    /\ UNCHANGED parsed_keys

RefuseEntry ==
    /\ InLoop("checking")
    /\ raw_keys[next] = Scalar
    /\ End("malformed")

BeginReading ==
    /\ pc = "checking"
    /\ next \notin DOMAIN raw_keys
    /\ pc' = "reading"
    /\ next' = 1
    /\ UNCHANGED <<reply, parsed_keys>>

-----------------------------------------------------------------------------
(* The dictionary comprehension *)

\* `if "kid" in jwk`
SkipEntry ==
    /\ InLoop("reading")
    /\ raw_keys[next].kid = NoKid
    /\ GoOn
    /\ UNCHANGED parsed_keys

\* _to_pem(jwk) raises.
RefuseKey ==
    /\ InLoop("reading")
    /\ raw_keys[next].kid # NoKid
    /\ raw_keys[next].key = BadKey
    /\ End("malformed")

\* The key is good, but its kid cannot be hashed: a TypeError.
RaiseUnhashable ==
    /\ InLoop("reading")
    /\ raw_keys[next].kid = ListKid
    /\ raw_keys[next].key # BadKey
    /\ End("bug")

\* Mutant of InsertKey: setdefault in place of the assignment.
InsertKeyOnce ==
    /\ InLoop("reading")
    /\ raw_keys[next].kid \notin {NoKid, ListKid}
    /\ raw_keys[next].key # BadKey
    /\ parsed_keys' = [k \in DOMAIN parsed_keys \cup {raw_keys[next].kid} |->
                          IF k \in DOMAIN parsed_keys THEN parsed_keys[k] ELSE raw_keys[next].key]
    /\ GoOn

InsertKey ==
    /\ InLoop("reading")
    /\ raw_keys[next].kid \notin {NoKid, ListKid}
    /\ raw_keys[next].key # BadKey
    /\ parsed_keys' = [k \in DOMAIN parsed_keys \cup {raw_keys[next].kid} |->
                          IF k = raw_keys[next].kid THEN raw_keys[next].key ELSE parsed_keys[k]]
    /\ GoOn

\* Mutant of Conclude: without `if not parsed_keys`.
ConcludeUnchecked ==
    /\ pc = "reading"
    /\ next \notin DOMAIN raw_keys
    /\ End("ok")

\* `if not parsed_keys` raises; otherwise the dictionary becomes the cache.
Conclude ==
    /\ pc = "reading"
    /\ next \notin DOMAIN raw_keys
    /\ End(IF DOMAIN parsed_keys = {} THEN "malformed" ELSE "ok")

-----------------------------------------------------------------------------
(* The specification *)

Next ==
    \/ RaiseHttp \/ RefuseBody \/ AcceptBody
    \/ AcceptEntry \/ RefuseEntry \/ BeginReading
    \/ SkipEntry \/ RefuseKey \/ RaiseUnhashable \/ InsertKey \/ Conclude

Spec == Init /\ [][Next]_vars

-----------------------------------------------------------------------------
(* Properties *)

\* Whatever _fetch ends with is what JwksDocument says of the reply: a scalar
\* anywhere is found before any key is read, then the first unusable entry
\* decides the error, entries without kid are not parsed, and of a repeated
\* kid the last entry wins.
ParseIsComprehension ==
    /\ pc \in Fate => pc = Outcome(reply)
    /\ pc = "ok" => parsed_keys = ParsedKeys(raw_keys)

\* What _fetch puts into the cache is a nonempty dictionary of PEM texts under
\* kids of the document (the check that closes _fetch).
ParsedDocumentIsUsable ==
    pc = "ok" => parsed_keys \in Document \ {NoDocument}

-----------------------------------------------------------------------------
(* What the docstrings promise and the code does not keep *)

\* get_key and _fetch promise httpx.HTTPError or MalformedJwksDocumentError
\* for every reply that cannot be used, and nothing else.
BadShapeIsMalformed == pc # "bug"

=============================================================================
