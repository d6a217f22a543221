--------------------------- MODULE AuthPipelineProofs ---------------------------
(***************************************************************************)
(* Theorems about AuthPipeline, for any number of tasks, any requests and  *)
(* endpoints, and any replies of the key source.                           *)
(***************************************************************************)
EXTENDS AuthPipeline, JwksClientProofs

\* What requests and codes are, for one task.
LEMMA RequestHas ==
    ASSUME NEW q \in Request
    PROVE  /\ q # NoRequest /\ q.token.kid \in Kid /\ q.token.signer \in Pem
           /\ q.credentials \in BOOLEAN
           /\ q.token.payload \in Claims \cup {Rejected} /\ q.token.header \in Header
BY PipelineAssumption DEF RequestType, Token

-----------------------------------------------------------------------------
(* The pipeline drives the client *)

\* A step of the handlers is a step of the client, or leaves it alone.
LEMMA StepOfClient ==
    ASSUME [PipeNext]_pipeVars
    PROVE  [Next]_vars
<1>1. CASE Configure
  BY <1>1 DEF Configure
<1>2. ASSUME NEW c \in Call, NEW q \in Request, AnswerEarly(c, q) PROVE [Next]_vars
  BY <1>2 DEF AnswerEarly
<1>3. ASSUME NEW c \in Call, NEW q \in Request, AskForKey(c, q) PROVE [Next]_vars
  <2>1. q.token.kid \in Kid
    BY RequestHas
  <2>2. Begin(c)
    BY <1>3, <2>1 DEF AskForKey, Begin
  <2> QED  BY <2>2 DEF Next
<1>4. ASSUME NEW c \in Call, GetKeyRuns(c) PROVE [Next]_vars
  BY <1>4 DEF GetKeyRuns, Next
<1>5. ASSUME NEW c \in Call, Close(c) PROVE [Next]_vars
  BY <1>5 DEF Close, Next
<1>6. CASE PipeTick
  BY <1>6 DEF PipeTick, Next
<1>7. CASE UNCHANGED pipeVars
  BY <1>7 DEF pipeVars
<1> QED  BY <1>1, <1>2, <1>3, <1>4, <1>5, <1>6, <1>7 DEF PipeNext

\* Behind the handlers the key source is used as JwksClient has it used, so
\* whatever is proved of JwksClient holds in the pipeline.
THEOREM PipelineRunsClient == PipeSpec => Spec
<1>1. PipeInit => Init
  BY DEF PipeInit
<1> QED  BY <1>1, StepOfClient, PTL DEF PipeSpec, Spec

\* So the handlers rely on the directory of keys that KeyDirectory describes ...
THEOREM PipelineProvidesDirectory == PipeSpec => ProvidesDirectory
BY PipelineRunsClient, ClientProvidesDirectory, PTL

\* ... and no number of requests makes them ask the source more than once in a
\* window.
THEOREM PipelineThrottlesSource == PipeSpec => ThrottledSource
BY PipelineRunsClient, SourceIsThrottled, PTL

-----------------------------------------------------------------------------
(* The invariant of the handlers *)

\* A task waits for a key only on behalf of a request that passed the checks
\* before get_key, for the kid of that request, and has not answered it yet.
WaitsForItsToken(c) ==
    /\ request[c] \in Request /\ EarlyCode(request[c]) = "none"
    /\ kid[c] = request[c].token.kid
    /\ response[c] = "none"

Matched(c) ==
    /\ request[c] = NoRequest => pc[c] = "idle" /\ response[c] = "none"
    /\ pc[c] \in {"queued", "fetching"} => WaitsForItsToken(c)
    /\ pc[c] = "returned" => response[c] # "none"

PipeInv == IInv /\ PipeTypeOK /\ \A c \in Call : Matched(c)

\* The handler's code for a verdict of get_key.
LEMMA CodeType ==
    ASSUME NEW q, NEW verdict \in Pem \cup Failure
    PROVE  /\ CodeOf(q, verdict) \in Code
           /\ verdict \in Pem =>
                  CodeOf(q, verdict) =
                      IF verify_access_token(q.token, verdict) = Rejected THEN "invalid_token"
                      ELSE IF Admits(q.endpoint, verify_access_token(q.token, verdict))
                           THEN "ok" ELSE "forbidden"
           /\ verdict = "unknown" => CodeOf(q, verdict) = "invalid_token"
           /\ verdict \in {"http", "malformed"} => CodeOf(q, verdict) = "auth_unavailable"
           /\ verdict = "bug" => CodeOf(q, verdict) = "internal_error"
           /\ verdict = "cancelled" => CodeOf(q, verdict) = "aborted"
<1>1. CASE verdict \in Pem
  <2>1. verdict \notin Failure
    BY <1>1, ResultAssumption
  <2> QED  BY <1>1, <2>1 DEF CodeOf, Code, Failure
<1>2. CASE verdict \in Failure
  <2>1. verdict \notin Pem
    BY <1>2, ResultAssumption
  <2> QED  BY <1>2, <2>1 DEF CodeOf, Code, Failure
<1> QED  BY <1>1, <1>2

\* Which step of a task moves a call of get_key, and how: the other calls are
\* left where they were.
LEMMA OwnCallOnly ==
    ASSUME TypeOK, NEW c \in Call, NEW d \in Call, d # c,
           \/ Resume(c) \/ Complete(c) \/ Cancel(c) \/ Finish(c)
           \/ \E k \in Kid : \/ ServeFresh(c, k) \/ AnswerThrottled(c, k)
                             \/ JoinQueue(c, k) \/ StartFetch(c, k)
    PROVE  pc'[d] = pc[d] /\ kid'[d] = kid[d]
<1> USE DEF TypeOK
<1>1. ASSUME NEW k \in Kid,
             \/ ServeFresh(c, k) \/ AnswerThrottled(c, k)
             \/ JoinQueue(c, k) \/ StartFetch(c, k)
      PROVE  pc'[d] = pc[d] /\ kid'[d] = kid[d]
  BY <1>1 DEF ServeFresh, AnswerThrottled, JoinQueue, StartFetch, Starts, Return, Suspend
<1>2. CASE Resume(c)
  BY <1>2 DEF Resume, ResumeFetch, ResumeSkip, Return, Suspend
<1>3. CASE Complete(c)
  BY <1>3 DEF Complete, FetchSucceeds, FetchFails, Return
<1>4. CASE Cancel(c)
  BY <1>4 DEF Cancel, CancelFetching, CancelQueued, Return
<1>5. CASE Finish(c)
  BY <1>5 DEF Finish
<1> QED  BY <1>1, <1>2, <1>3, <1>4, <1>5

\* Where a task is after a segment of get_key: it starts one when idle and
\* runs one when waiting, and afterwards it waits or has its answer.
LEMMA CallStarts ==
    ASSUME TypeOK, NEW c \in Call, NEW k \in Kid,
           \/ ServeFresh(c, k) \/ AnswerThrottled(c, k)
           \/ JoinQueue(c, k) \/ StartFetch(c, k)
    PROVE  /\ pc[c] = "idle" /\ kid'[c] = k
           /\ pc'[c] \in {"queued", "fetching", "returned"}
BY DEF TypeOK, ServeFresh, AnswerThrottled, JoinQueue, StartFetch, Starts, Return, Suspend

LEMMA CallRuns ==
    ASSUME TypeOK, NEW c \in Call, Resume(c) \/ Complete(c) \/ Cancel(c)
    PROVE  /\ pc[c] \in {"queued", "fetching"} /\ kid'[c] = kid[c]
           /\ pc'[c] \in {"fetching", "returned"}
<1> USE DEF TypeOK
<1>1. CASE Resume(c)
  BY <1>1 DEF Resume, ResumeFetch, ResumeSkip, Return, Suspend
<1>2. CASE Complete(c)
  BY <1>2 DEF Complete, FetchSucceeds, FetchFails, Return
<1>3. CASE Cancel(c)
  BY <1>3 DEF Cancel, CancelFetching, CancelQueued, Return
<1> QED  BY <1>1, <1>2, <1>3

\* The code a segment of get_key leaves in the response of its request.
LEMMA RespondsType ==
    ASSUME IInv, PipeTypeOK, [Next]_vars, NEW c \in Call, NEW q, Responds(c, q),
           pc[c] # "returned"
    PROVE  /\ response' \in [Call -> Code \cup {"none"}]
           /\ \A d \in Call : d # c => response'[d] = response[d]
           /\ pc'[c] # "returned" => response'[c] = "none"
           /\ pc'[c] = "returned" => /\ result'[c] \in Pem \cup Failure
                                     /\ response'[c] = CodeOf(q, result'[c])
                                     /\ response'[c] \in Code
<1> DEFINE code == IF pc'[c] = "returned" THEN CodeOf(q, result'[c]) ELSE "none"
<1>1. pc'[c] = "returned" => result'[c] \in Pem \cup Failure /\ CodeOf(q, result'[c]) \in Code
  BY VerdictType, CodeType DEF Answered
<1>2. response' = [response EXCEPT ![c] = code] /\ code \in Code \cup {"none"}
  BY <1>1 DEF Responds
<1>3. response \in [Call -> Code \cup {"none"}]
  BY DEF PipeTypeOK
<1> HIDE DEF code
<1>4. /\ response' \in [Call -> Code \cup {"none"}] /\ response'[c] = code
      /\ \A d \in Call : d # c => response'[d] = response[d]
  BY <1>2, <1>3
<1> QED  BY <1>1, <1>4 DEF code

\* A task whose request, response and call a step leaves alone stays matched:
\* the verifier, once configured, remains.
LEMMA UntouchedTask ==
    ASSUME PipeTypeOK, NEW c \in Call, Matched(c), configured => configured',
           request'[c] = request[c], response'[c] = response[c],
           pc'[c] = pc[c], kid'[c] = kid[c], configured' \in BOOLEAN
    PROVE  Matched(c)'
<1>1. ASSUME NEW q \in Request, EarlyCode(q) = "none" PROVE EarlyCode(q)' = "none"
  <2>1. q.credentials /\ configured /\ q.token.header = "kid"
    BY <1>1, RequestHas DEF EarlyCode, Header, PipeTypeOK
  <2> QED  BY <2>1 DEF EarlyCode
<1> QED  BY <1>1 DEF Matched, WaitsForItsToken

\* A request gets its task, its verdict and its answer one after the other.
LEMMA NextMatched ==
    ASSUME IInv, TypeOK', PipeTypeOK, \A c \in Call : Matched(c), [PipeNext]_pipeVars
    PROVE  PipeTypeOK' /\ (\A c \in Call : Matched(c))'
<1> DEFINE Goal == PipeTypeOK' /\ (\A c \in Call : Matched(c))'
<1>n. [Next]_vars
  BY StepOfClient
<1>1. CASE Configure
  <2>1. /\ configured' = TRUE /\ request' = request /\ response' = response
        /\ pc' = pc /\ kid' = kid
    BY <1>1 DEF Configure, vars, callVars
  <2>2. PipeTypeOK'
    BY <2>1 DEF PipeTypeOK
  <2> QED  BY <2>1, <2>2, UntouchedTask
<1>2. ASSUME NEW c \in Call, NEW q \in Request, AnswerEarly(c, q) PROVE Goal
  <2>1. /\ configured' = configured /\ pc' = pc /\ kid' = kid
        /\ request[c] = NoRequest /\ request' = [request EXCEPT ![c] = q]
        /\ EarlyCode(q) # "none" /\ response' = [response EXCEPT ![c] = EarlyCode(q)]
    BY <1>2 DEF AnswerEarly, Idle, vars, callVars
  <2>2. EarlyCode(q) \in Code \cup {"none"}
    BY DEF EarlyCode, Code
  <2>3. PipeTypeOK'
    BY <2>1, <2>2 DEF PipeTypeOK
  <2>4. pc[c] = "idle"
    BY <2>1 DEF Matched
  <2>5. Matched(c)'
    BY <2>1, <2>4, RequestHas DEF Matched, PipeTypeOK
  <2>6. ASSUME NEW d \in Call, d # c PROVE Matched(d)'
    BY <2>1, <2>3, <2>6, UntouchedTask DEF PipeTypeOK
  <2> QED  BY <2>3, <2>5, <2>6
<1>3. ASSUME NEW c \in Call, NEW q \in Request, AskForKey(c, q) PROVE Goal
  <2> DEFINE k == q.token.kid
  <2>1. k \in Kid /\ q # NoRequest
    BY RequestHas
  <2>2. \/ ServeFresh(c, k) \/ AnswerThrottled(c, k)
        \/ JoinQueue(c, k) \/ StartFetch(c, k)
    BY <1>3 DEF AskForKey
  <2>3. /\ configured' = configured /\ request' = [request EXCEPT ![c] = q]
        /\ EarlyCode(q) = "none" /\ Responds(c, q)
    BY <1>3 DEF AskForKey
  <2>4. pc[c] = "idle" /\ kid'[c] = k /\ pc'[c] \in {"queued", "fetching", "returned"}
    BY <2>1, <2>2, CallStarts DEF IInv
  <2>5. /\ response' \in [Call -> Code \cup {"none"}]
        /\ \A d \in Call : d # c => response'[d] = response[d]
        /\ pc'[c] # "returned" => response'[c] = "none"
        /\ pc'[c] = "returned" => response'[c] \in Code
    BY <1>n, <2>3, <2>4, RespondsType
  <2>6. PipeTypeOK'
    BY <2>3, <2>5 DEF PipeTypeOK
  <2>7. request'[c] = q /\ \A d \in Call : d # c => request'[d] = request[d]
    BY <2>3 DEF PipeTypeOK
  <2>8. EarlyCode(q)' = "none"
    BY <2>3 DEF EarlyCode
  <2>9. Matched(c)'
    BY <2>1, <2>4, <2>5, <2>7, <2>8 DEF Matched, WaitsForItsToken, Code
  <2>10. ASSUME NEW d \in Call, d # c PROVE Matched(d)'
    <3>1. pc'[d] = pc[d] /\ kid'[d] = kid[d]
      BY <2>1, <2>2, <2>10, OwnCallOnly DEF IInv
    <3> QED  BY <2>3, <2>5, <2>6, <2>7, <2>10, <3>1, UntouchedTask DEF PipeTypeOK
  <2> QED  BY <2>6, <2>9, <2>10
<1>4. ASSUME NEW c \in Call, GetKeyRuns(c) PROVE Goal
  <2>1. Resume(c) \/ Complete(c) \/ Cancel(c)
    BY <1>4 DEF GetKeyRuns
  <2>2. configured' = configured /\ request' = request /\ Responds(c, request[c])
    BY <1>4 DEF GetKeyRuns
  <2>3. /\ pc[c] \in {"queued", "fetching"} /\ kid'[c] = kid[c]
        /\ pc'[c] \in {"fetching", "returned"}
    BY <2>1, CallRuns DEF IInv
  <2>4. /\ response' \in [Call -> Code \cup {"none"}]
        /\ \A d \in Call : d # c => response'[d] = response[d]
        /\ pc'[c] # "returned" => response'[c] = "none"
        /\ pc'[c] = "returned" => response'[c] \in Code
    BY <1>n, <2>2, <2>3, RespondsType
  <2>5. PipeTypeOK'
    BY <2>2, <2>4 DEF PipeTypeOK
  <2>6. WaitsForItsToken(c) /\ request[c] # NoRequest
    BY <2>3, RequestHas DEF Matched, WaitsForItsToken
  <2>7. EarlyCode(request[c])' = "none"
    BY <2>2, <2>6 DEF EarlyCode, WaitsForItsToken
  <2>8. Matched(c)'
    BY <2>2, <2>3, <2>4, <2>6, <2>7 DEF Matched, WaitsForItsToken, Code
  <2>9. ASSUME NEW d \in Call, d # c PROVE Matched(d)'
    <3>1. pc'[d] = pc[d] /\ kid'[d] = kid[d]
      BY <2>1, <2>9, OwnCallOnly DEF IInv
    <3> QED  BY <2>2, <2>4, <2>5, <2>9, <3>1, UntouchedTask DEF PipeTypeOK
  <2> QED  BY <2>5, <2>8, <2>9
<1>5. ASSUME NEW c \in Call, Close(c) PROVE Goal
  <2>1. /\ configured' = configured /\ request' = [request EXCEPT ![c] = NoRequest]
        /\ response' = [response EXCEPT ![c] = "none"] /\ response[c] # "none"
        /\ IF pc[c] = "returned" THEN Finish(c) ELSE UNCHANGED vars
    BY <1>5 DEF Close
  <2>2. PipeTypeOK'
    BY <2>1 DEF PipeTypeOK
  <2>3. pc[c] \in {"idle", "returned"}
    BY <2>1 DEF Matched, WaitsForItsToken, IInv, TypeOK
  <2>4. pc'[c] = "idle" /\ \A d \in Call : d # c => pc'[d] = pc[d] /\ kid'[d] = kid[d]
    BY <2>1, <2>3 DEF Finish, IInv, TypeOK, vars, callVars
  <2>5. Matched(c)'
    BY <2>1, <2>4 DEF Matched, PipeTypeOK
  <2>6. ASSUME NEW d \in Call, d # c PROVE Matched(d)'
    BY <2>1, <2>2, <2>4, <2>6, UntouchedTask DEF PipeTypeOK
  <2> QED  BY <2>2, <2>5, <2>6
<1>6. CASE PipeTick \/ UNCHANGED pipeVars
  <2>1. /\ configured' = configured /\ request' = request /\ response' = response
        /\ pc' = pc /\ kid' = kid
    BY <1>6 DEF PipeTick, Tick, pipeVars, vars, callVars
  <2>2. PipeTypeOK'
    BY <2>1 DEF PipeTypeOK
  <2> QED  BY <2>1, <2>2, UntouchedTask DEF PipeTypeOK
<1> QED  BY <1>1, <1>2, <1>3, <1>4, <1>5, <1>6 DEF PipeNext

\* The inductive invariant of the pipeline.
THEOREM PipelineInductive == PipeSpec => []PipeInv
<1>1. PipeSpec => []IInv
  BY PipelineRunsClient, Inductive, PTL
<1>2. PipeInit /\ IInv => PipeTypeOK /\ \A c \in Call : Matched(c)
  BY DEF PipeInit, Init, IInv, PipeTypeOK, Matched
<1>3. IInv /\ IInv' /\ PipeTypeOK /\ (\A c \in Call : Matched(c)) /\ [PipeNext]_pipeVars
          => PipeTypeOK' /\ (\A c \in Call : Matched(c))'
  BY NextMatched DEF IInv
<1> QED  BY <1>1, <1>2, <1>3, PTL DEF PipeSpec, PipeInv

\* The variables of the handlers keep their types: every request is answered
\* with a code a client knows.
THEOREM PipeTyping == PipeSpec => []PipeTypeOK
BY PipelineInductive, PTL DEF PipeInv

-----------------------------------------------------------------------------
(* What an answer means *)

\* A request is answered before get_key, or by what get_key returned for the
\* kid of its own token, judged against the cache of that moment.
LEMMA AnsweredHow ==
    ASSUME PipeInv, [PipeNext]_pipeVars, NEW c \in Call, AnsweredWith(c, Code)
    PROVE  \/ /\ request'[c] \in Request
              /\ response'[c] = EarlyCode(request'[c])
              /\ response'[c] # "none"
           \/ /\ request'[c] \in Request /\ EarlyCode(request'[c]) = "none"
              /\ Answered(c)
              /\ kid'[c] = request'[c].token.kid
              /\ response'[c] = CodeOf(request'[c], result'[c])
<1> DEFINE Early == /\ request'[c] \in Request
                    /\ response'[c] = EarlyCode(request'[c])
                    /\ response'[c] # "none"
           Judged == /\ request'[c] \in Request /\ EarlyCode(request'[c]) = "none"
                     /\ Answered(c)
                     /\ kid'[c] = request'[c].token.kid
                     /\ response'[c] = CodeOf(request'[c], result'[c])
<1> USE DEF PipeInv, PipeTypeOK
<1>n. [Next]_vars
  BY StepOfClient
<1>a. response[c] = "none" /\ response'[c] # "none"
  BY DEF AnsweredWith, Code
<1>1. ~Configure /\ ~PipeTick /\ ~UNCHANGED pipeVars
  BY <1>a DEF Configure, PipeTick, pipeVars
<1>2. ASSUME NEW d \in Call, NEW q \in Request, AnswerEarly(d, q) PROVE Early
  <2>1. /\ request' = [request EXCEPT ![d] = q]
        /\ response' = [response EXCEPT ![d] = EarlyCode(q)]
    BY <1>2 DEF AnswerEarly
  <2>2. c = d
    BY <1>a, <2>1
  <2> QED  BY <1>a, <2>1, <2>2
<1>3. ASSUME NEW d \in Call, NEW q \in Request, AskForKey(d, q) PROVE Judged
  <2>1. /\ request' = [request EXCEPT ![d] = q] /\ EarlyCode(q) = "none"
        /\ Responds(d, q)
    BY <1>3 DEF AskForKey
  <2>2. q.token.kid \in Kid
    BY RequestHas
  <2>3. pc[d] = "idle" /\ kid'[d] = q.token.kid
    BY <1>3, <2>2, CallStarts DEF AskForKey, IInv
  <2>4. /\ \A e \in Call : e # d => response'[e] = response[e]
        /\ pc'[d] # "returned" => response'[d] = "none"
        /\ pc'[d] = "returned" => response'[d] = CodeOf(q, result'[d])
    BY <1>n, <2>1, <2>3, RespondsType
  <2>5. c = d /\ pc'[d] = "returned" /\ request'[d] = q
    BY <1>a, <2>1, <2>4
  <2> QED  BY <2>1, <2>3, <2>4, <2>5 DEF Answered
<1>4. ASSUME NEW d \in Call, GetKeyRuns(d) PROVE Judged
  <2>1. request' = request /\ Responds(d, request[d])
    BY <1>4 DEF GetKeyRuns
  <2>2. pc[d] \in {"queued", "fetching"} /\ kid'[d] = kid[d]
    BY <1>4, CallRuns DEF GetKeyRuns, IInv
  <2>3. WaitsForItsToken(d)
    BY <2>2 DEF Matched
  <2>4. /\ \A e \in Call : e # d => response'[e] = response[e]
        /\ pc'[d] # "returned" => response'[d] = "none"
        /\ pc'[d] = "returned" => response'[d] = CodeOf(request[d], result'[d])
    BY <1>n, <2>1, <2>2, RespondsType
  <2>5. c = d /\ pc'[d] = "returned"
    BY <1>a, <2>4
  <2> QED  BY <2>1, <2>2, <2>3, <2>4, <2>5 DEF WaitsForItsToken, Answered
<1>5. ASSUME NEW d \in Call, Close(d) PROVE FALSE
  BY <1>a, <1>5 DEF Close
<1> QED  BY <1>1, <1>2, <1>3, <1>4, <1>5 DEF PipeNext

\* What the codes say of a request that asked for a key.
LEMMA JudgedHow ==
    ASSUME PipeInv, [PipeNext]_pipeVars, NEW c \in Call, Answered(c),
           NEW q \in Request, EarlyCode(q) = "none", kid'[c] = q.token.kid,
           NEW code, code = CodeOf(q, result'[c])
    PROVE  /\ code \in {"ok", "forbidden"} =>
                  /\ Vouches(keys', q)
                  /\ code = "ok" <=> Admits(q.endpoint, q.token.payload)
           /\ code \in {"invalid_token", "auth_unavailable"} => ~Vouches(keys', q)
           /\ code = "auth_unavailable" =>
                  lastError' \in {"http", "malformed"} /\ q.token.kid \notin DOMAIN keys'
           /\ code = "internal_error" => lastError' = "bug"
           /\ code # "not_authenticated"
<1> DEFINE verdict == result'[c]
<1>1. /\ verdict \in Pem \cup Failure
      /\ verdict \in Pem => q.token.kid \in DOMAIN keys' /\ verdict = keys'[q.token.kid]
      /\ verdict \in {"unknown", "http", "malformed"} => q.token.kid \notin DOMAIN keys'
      /\ verdict \in {"http", "malformed", "bug"} => lastError' = verdict
  BY StepOfClient, VerdictType DEF PipeInv
<1>2. q.credentials /\ q.token.header = "kid"
  BY RequestHas DEF EarlyCode, Header
<1> HIDE DEF verdict
<1>3. CASE verdict \in Pem
  <2>1. code = IF verify_access_token(q.token, verdict) = Rejected THEN "invalid_token"
               ELSE IF Admits(q.endpoint, verify_access_token(q.token, verdict))
                    THEN "ok" ELSE "forbidden"
    BY <1>3, CodeType DEF verdict
  <2>2. CASE q.token.signer = verdict
    BY <1>1, <1>2, <1>3, <2>1, <2>2 DEF verify_access_token, Vouches
  <2>3. CASE q.token.signer # verdict
    BY <1>1, <1>3, <2>1, <2>3 DEF verify_access_token, Vouches
  <2> QED  BY <2>2, <2>3
<1>4. CASE verdict \in {"unknown", "http", "malformed"}
  BY <1>1, <1>4, CodeType DEF verdict, Vouches
<1>5. CASE verdict \in {"bug", "cancelled"}
  BY <1>1, <1>5, CodeType DEF verdict
<1> QED  BY <1>1, <1>3, <1>4, <1>5 DEF Failure

\* No interleaving of requests, refreshes and cancellations lets a token pass
\* that the directory of that moment does not vouch for, nor turns the
\* decision of the endpoint.
THEOREM TokensAreVouched == PipeSpec => OnlyVouchedRequestsPass
<1>1. ASSUME PipeInv, [PipeNext]_pipeVars, NEW c \in Call,
             AnsweredWith(c, {"ok", "forbidden"})
      PROVE  /\ Vouches(keys', request'[c])
             /\ response'[c] = "ok"
                    <=> Admits(request'[c].endpoint, request'[c].token.payload)
  <2>1. AnsweredWith(c, Code) /\ response'[c] \in {"ok", "forbidden"}
    BY <1>1 DEF AnsweredWith, Code
  <2>2. ~(response'[c] = EarlyCode(request'[c]))
    BY <2>1 DEF EarlyCode
  <2> QED  BY <1>1, <2>1, <2>2, AnsweredHow, JudgedHow
<1>2. PipeInv /\ [PipeNext]_pipeVars =>
          \A c \in Call :
              AnsweredWith(c, {"ok", "forbidden"}) =>
                  /\ Vouches(keys', request'[c])
                  /\ response'[c] = "ok"
                         <=> Admits(request'[c].endpoint, request'[c].token.payload)
  BY <1>1
<1> QED  BY <1>2, PipelineInductive, PTL DEF PipeSpec, OnlyVouchedRequestsPass

\* No outage, and no load that fails for another request, makes a token the
\* directory vouches for a bad one.
THEOREM VouchedIsServed == PipeSpec => VouchedRequestIsNotTurnedAway
<1>1. ASSUME PipeInv, [PipeNext]_pipeVars, NEW c \in Call,
             AnsweredWith(c, {"invalid_token", "auth_unavailable"})
      PROVE  ~Vouches(keys', request'[c])
  <2>1. AnsweredWith(c, Code) /\ response'[c] \in {"invalid_token", "auth_unavailable"}
    BY <1>1 DEF AnsweredWith, Code
  <2>2. CASE response'[c] = EarlyCode(request'[c])
    BY <2>1, <2>2 DEF EarlyCode, Vouches
  <2> QED  BY <1>1, <2>1, <2>2, AnsweredHow, JudgedHow
<1>2. PipeInv /\ [PipeNext]_pipeVars =>
          \A c \in Call :
              AnsweredWith(c, {"invalid_token", "auth_unavailable"})
                  => ~Vouches(keys', request'[c])
  BY <1>1
<1> QED  BY <1>2, PipelineInductive, PTL DEF PipeSpec, VouchedRequestIsNotTurnedAway

\* A 503 is backed by the last error of the key source, and by a cache that
\* lacks the kid.
THEOREM OutageIsReal == PipeSpec => UnavailableMeansUnavailable
<1>1. ASSUME PipeInv, [PipeNext]_pipeVars, NEW c \in Call,
             AnsweredWith(c, {"auth_unavailable"})
      PROVE  /\ lastError' \in {"http", "malformed"}
             /\ request'[c].token.kid \notin DOMAIN keys'
  <2>1. AnsweredWith(c, Code) /\ response'[c] = "auth_unavailable"
    BY <1>1 DEF AnsweredWith, Code
  <2>2. ~(response'[c] = EarlyCode(request'[c]))
    BY <2>1 DEF EarlyCode
  <2> QED  BY <1>1, <2>1, <2>2, AnsweredHow, JudgedHow
<1>2. PipeInv /\ [PipeNext]_pipeVars =>
          \A c \in Call :
              AnsweredWith(c, {"auth_unavailable"}) =>
                  /\ lastError' \in {"http", "malformed"}
                  /\ request'[c].token.kid \notin DOMAIN keys'
  BY <1>1
<1> QED  BY <1>2, PipelineInductive, PTL DEF PipeSpec, UnavailableMeansUnavailable

\* A 500 is left for an application without a verifier, which gives every
\* token that answer, and for an exception in the parsing of the document.
THEOREM InternalErrorIsBug == PipeSpec => InternalErrorMeansBug
<1> DEFINE Explained(c) ==
               /\ response'[c] = "internal_error" => ~configured \/ lastError' = "bug"
               /\ ~configured /\ request'[c].credentials => response'[c] = "internal_error"
<1>1. ASSUME PipeInv, [PipeNext]_pipeVars, NEW c \in Call, AnsweredWith(c, Code)
      PROVE  Explained(c)
  <2>1. CASE response'[c] = EarlyCode(request'[c])
    BY <2>1 DEF EarlyCode
  <2>2. ASSUME ~(response'[c] = EarlyCode(request'[c])) PROVE Explained(c)
    <3>1. EarlyCode(request'[c]) = "none"
      BY <1>1, <2>2, AnsweredHow
    <3>2. configured \/ ~request'[c].credentials
      BY <3>1 DEF EarlyCode
    <3>3. response'[c] = "internal_error" => lastError' = "bug"
      BY <1>1, <2>2, AnsweredHow, JudgedHow
    <3> QED  BY <3>2, <3>3
  <2> QED  BY <2>1, <2>2
<1>2. PipeInv /\ [PipeNext]_pipeVars =>
          \A c \in Call : AnsweredWith(c, Code) => Explained(c)
  BY <1>1
<1> QED  BY <1>2, PipelineInductive, PTL DEF PipeSpec, InternalErrorMeansBug

=============================================================================
