------------------------------ MODULE AuthPipeline ------------------------------
(***************************************************************************)
(* A protected endpoint from the Authorization header to the answer:       *)
(* get_claims and require_roles / require_permissions                      *)
(* (mestory_core/auth/dependencies.py), AccessTokenVerifier.verify         *)
(* (auth/verifier.py) and verify_access_token (auth/claims.py) around the  *)
(* shared JwksClient.                                                      *)
(*                                                                         *)
(* Each request is one caller of get_key.  Nothing in this code suspends a *)
(* request except get_key, so the checks before it belong to the segment   *)
(* in which get_key starts, and the verification of the token and the      *)
(* check of the endpoint to the segment in which get_key answers: a step   *)
(* of a request is a step of JwksClient with the rest of the handler.      *)
(***************************************************************************)
EXTENDS JwksClient, AccessControl

CONSTANTS
    Request,    \* what clients may send
    NoRequest,  \* no request is being handled
    Rejected    \* a payload jwt.decode, the type check or the model refuses

(* A request names the endpoint it is sent to, whether it has Bearer        *)
(* credentials, and the token: what its header is, the kid in it, the key   *)
(* that signed it and the payload.                                          *)
Header == {"undecodable", "no_kid", "kid"}

Token == [header : Header, kid : Kid, signer : Pem, payload : Claims \cup {Rejected}]

RequestType == [endpoint : Endpoint, credentials : BOOLEAN, token : Token]

ASSUME PipelineAssumption ==
    /\ Request \subseteq RequestType
    /\ NoRequest \notin Request
    /\ Rejected \notin Claims

VARIABLES
    configured,     \* the lifespan has set app.state.access_token_verifier
    request,        \* the request each task handles
    response        \* the `code` of its answer; "ok" reaches the endpoint

pipeVars == <<vars, configured, request, response>>

\* 401, 401, 403, 503 and an unhandled exception, which is a 500.
Code == {"ok", "not_authenticated", "invalid_token", "forbidden",
         "auth_unavailable", "internal_error", "aborted"}

PipeInit ==
    /\ Init
    /\ configured = FALSE
    /\ request = [c \in Call |-> NoRequest]
    /\ response = [c \in Call |-> "none"]

-----------------------------------------------------------------------------
(* The decisions of a handler *)

\* Mutant of EarlyCode: a code of its own, which no client knows, for a token
\* without kid.
EarlyCodeUnlisted(q) ==
    IF ~q.credentials THEN "not_authenticated"
    ELSE IF ~configured THEN "internal_error"
    ELSE IF q.token.header # "kid" THEN q.token.header
    ELSE "none"

\* get_claims and verify answer before get_key is called.
EarlyCode(q) ==
    IF ~q.credentials THEN "not_authenticated"
    ELSE IF ~configured THEN "internal_error"
    ELSE IF q.token.header # "kid" THEN "invalid_token"
    ELSE "none"

\* Mutant of verify_access_token: decoded without the signature.
verify_unsigned(token, public_key) == token.payload

\* jwt.decode, the type check and model_validate: all refuse with
\* InvalidTokenError.
verify_access_token(token, public_key) ==
    IF token.signer = public_key THEN token.payload ELSE Rejected

\* Mutant of CodeOf: verify wraps every error of the key source as it wraps
\* the unknown kid.
CodeOfWrapped(q, verdict) ==
    CASE verdict \in Pem ->
            LET claims == verify_access_token(q.token, verdict)
            IN  IF claims = Rejected THEN "invalid_token"
                ELSE IF Admits(q.endpoint, claims) THEN "ok" ELSE "forbidden"
      [] verdict \in {"unknown", "http", "malformed"} -> "invalid_token"
      [] verdict = "bug" -> "internal_error"
      [] verdict = "cancelled" -> "aborted"

\* Mutant of CodeOf: get_claims catches every exception as an outage.
CodeOfCatchAll(q, verdict) ==
    CASE verdict \in Pem ->
            LET claims == verify_access_token(q.token, verdict)
            IN  IF claims = Rejected THEN "invalid_token"
                ELSE IF Admits(q.endpoint, claims) THEN "ok" ELSE "forbidden"
      [] verdict \in {"http", "malformed", "bug", "unknown"} -> "auth_unavailable"
      [] verdict = "cancelled" -> "aborted"

\* What becomes of the request once get_key has answered: verify turns an
\* unknown kid into InvalidTokenError and lets the other errors through,
\* get_claims maps the exceptions, the checker of the endpoint comes last.
CodeOf(q, verdict) ==
    CASE verdict \in Pem ->
            LET claims == verify_access_token(q.token, verdict)
            IN  IF claims = Rejected THEN "invalid_token"
                ELSE IF Admits(q.endpoint, claims) THEN "ok" ELSE "forbidden"
      [] verdict = "unknown" -> "invalid_token"
      [] verdict \in {"http", "malformed"} -> "auth_unavailable"
      [] verdict = "bug" -> "internal_error"
      [] verdict = "cancelled" -> "aborted"

\* Mutant of Responds: the token is verified with the key the cache held
\* when the request last ran.
RespondsStale(c, q) ==
    response' = [response EXCEPT ![c] =
                    IF pc'[c] # "returned" THEN "none"
                    ELSE IF result'[c] \in Pem /\ q.token.kid \in DOMAIN keys
                         THEN CodeOf(q, keys[q.token.kid])
                         ELSE CodeOf(q, result'[c])]

\* The response of a request whose get_key answers in this very step.
Responds(c, q) ==
    response' = [response EXCEPT ![c] =
                    IF pc'[c] = "returned" THEN CodeOf(q, result'[c]) ELSE "none"]

-----------------------------------------------------------------------------
(* The steps of a request *)

Idle(c) == request[c] = NoRequest

Configure == /\ ~configured
             /\ configured' = TRUE
             /\ UNCHANGED <<vars, request, response>>

\* The answer does not depend on the key source, which is left alone.
AnswerEarly(c, q) ==
    /\ Idle(c)
    /\ EarlyCode(q) # "none"
    /\ request' = [request EXCEPT ![c] = q]
    /\ response' = [response EXCEPT ![c] = EarlyCode(q)]
    /\ UNCHANGED <<vars, configured>>

AskForKey(c, q) ==
    /\ Idle(c)
    /\ EarlyCode(q) = "none"
    /\ \/ ServeFresh(c, q.token.kid)
       \/ AnswerThrottled(c, q.token.kid)
       \/ JoinQueue(c, q.token.kid)
       \/ StartFetch(c, q.token.kid)
    /\ request' = [request EXCEPT ![c] = q]
    /\ Responds(c, q)
    /\ UNCHANGED configured

GetKeyRuns(c) ==
    /\ Resume(c) \/ Complete(c) \/ Cancel(c)
    /\ Responds(c, request[c])
    /\ UNCHANGED <<configured, request>>

\* The response is sent; the task is free for another request.
Close(c) ==
    /\ response[c] # "none"
    /\ IF pc[c] = "returned" THEN Finish(c) ELSE UNCHANGED vars
    /\ request' = [request EXCEPT ![c] = NoRequest]
    /\ response' = [response EXCEPT ![c] = "none"]
    /\ UNCHANGED configured

PipeTick == Tick /\ UNCHANGED <<configured, request, response>>

PipeNext ==
    \/ Configure
    \/ \E c \in Call, q \in Request : AnswerEarly(c, q) \/ AskForKey(c, q)
    \/ \E c \in Call : GetKeyRuns(c) \/ Close(c)
    \/ PipeTick

PipeSpec == PipeInit /\ [][PipeNext]_pipeVars

-----------------------------------------------------------------------------
(* Properties *)

PipeTypeOK ==
    /\ TypeOK
    /\ configured \in BOOLEAN
    /\ request \in [Call -> Request \cup {NoRequest}]
    /\ response \in [Call -> Code \cup {"none"}]

\* In this step the request of c is answered with one of the codes.
AnsweredWith(c, codes) == response[c] = "none" /\ response'[c] \in codes

\* The directory of the moment vouches for the token of q.
Vouches(ks, q) ==
    /\ q.credentials /\ q.token.header = "kid"
    /\ q.token.kid \in DOMAIN ks
    /\ q.token.signer = ks[q.token.kid]
    /\ q.token.payload # Rejected

\* A request reaches its endpoint, or learns that it lacks a right, only if
\* at that moment the directory holds the key that signed its token: no
\* interleaving lets a token be judged by the key of another request or of
\* a directory that has been replaced.
OnlyVouchedRequestsPass ==
    [][\A c \in Call :
           AnsweredWith(c, {"ok", "forbidden"}) =>
               /\ Vouches(keys', request'[c])
               /\ response'[c] = "ok"
                      <=> Admits(request'[c].endpoint, request'[c].token.payload)]_pipeVars

\* A request with a token the directory vouches for is never told that its
\* token is bad, nor that the key source is down, however long the outage:
\* "401 during an outage would log every user out" (get_claims).
VouchedRequestIsNotTurnedAway ==
    [][\A c \in Call :
           AnsweredWith(c, {"invalid_token", "auth_unavailable"})
               => ~Vouches(keys', request'[c])]_pipeVars

\* 503 is said of the key source only when its last answer was unusable, and
\* only to a token whose kid is not in the directory; a source that has
\* recovered is not reported as down.
UnavailableMeansUnavailable ==
    [][\A c \in Call :
           AnsweredWith(c, {"auth_unavailable"}) =>
               /\ lastError' \in {"http", "malformed"}
               /\ request'[c].token.kid \notin DOMAIN keys']_pipeVars

\* A 500 is left for programming errors: an application that has configured
\* no verifier, and an exception in the parsing of the document, for as
\* long as that is the last error.  Without a verifier it is the only answer
\* to a token: none is taken for good or bad unread.
InternalErrorMeansBug ==
    [][\A c \in Call :
           AnsweredWith(c, Code) =>
               /\ response'[c] = "internal_error" => ~configured \/ lastError' = "bug"
               /\ ~configured /\ request'[c].credentials
                      => response'[c] = "internal_error"]_pipeVars

=============================================================================
