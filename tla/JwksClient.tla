------------------------------- MODULE JwksClient -------------------------------
(***************************************************************************)
(* The JWKS cache (mestory_core/auth/jwks.py, class JwksClient): concurrent *)
(* get_key calls over one shared dictionary kid -> PEM, refreshed over the *)
(* network under an asyncio.Lock, at most once per throttling window, with *)
(* a fallback to an expired cache when the refresh fails.                  *)
(*                                                                         *)
(* A call is a coroutine.  It runs without interruption between two awaits *)
(* that suspend it, and there are two: acquire() of the lock and the GET.  *)
(* Each action below is one such segment, from a suspension point to the   *)
(* next one or to the end of get_key.  At a suspension point the task can  *)
(* be cancelled (wait_for, a client that hangs up).                        *)
(*                                                                         *)
(* time.monotonic() is read only to measure how long ago the document was  *)
(* loaded and the last attempt began, and both ages are only compared with *)
(* a threshold; the state keeps the ages, counted by Tick and saturated at *)
(* the threshold.  "Never" is an age at its threshold, as None and -inf    *)
(* are in the code.                                                        *)
(***************************************************************************)
EXTENDS JwksDocument

CONSTANTS
    Call,                \* the concurrent get_key calls
    TTL,                 \* ttl, in ticks
    MinRefetchInterval,  \* min_refetch_interval, in ticks
    Reply                \* what the source may answer to a GET

\* __init__ raises ValueError for a ttl below the interval.
ASSUME ClientAssumption ==
    /\ TTL \in Nat
    /\ MinRefetchInterval \in Nat
    /\ TTL >= MinRefetchInterval
    /\ Reply \subseteq ReplyType

Failure == {"unknown", "http", "malformed", "bug", "cancelled"}

\* A PEM text is none of the other results of a call.
ASSUME ResultAssumption == Pem \cap (Failure \cup {"pending"}) = {}

VARIABLES
    keys,        \* _keys
    docAge,      \* time since _fetched_at, at most TTL
    attemptAge,  \* time since _last_attempt_at, at most MinRefetchInterval
    lastError,   \* _last_error: "none" or the kind of the exception
    locked,      \* _lock
    waiters,     \* _lock
    pc,          \* where each call is suspended
    kid,         \* the kid each call asks for
    result,      \* what get_key returned or raised
    quiet,       \* history: time since the source last received a GET
    refresh      \* history: how the last attempt ended

cacheVars == <<keys, docAge, lastError>>
lockVars  == <<locked, waiters>>
callVars  == <<pc, kid, result>>
sentVars  == <<attemptAge, quiet>>
vars == <<keys, docAge, attemptAge, lastError, locked, waiters, pc, kid,
          result, quiet, refresh>>

Lock == INSTANCE AsyncLock

Init ==
    /\ keys = NoDocument
    /\ docAge = TTL
    /\ attemptAge = MinRefetchInterval
    /\ lastError = "none"
    /\ Lock!Init
    /\ pc = [c \in Call |-> "idle"]
    /\ kid = [c \in Call |-> NoKid]
    /\ result = [c \in Call |-> "pending"]
    /\ quiet = MinRefetchInterval
    /\ refresh = "none"

-----------------------------------------------------------------------------
(* The decisions of get_key *)

IsStale == docAge >= TTL

MayRefetch == attemptAge >= MinRefetchInterval

\* Mutant of FreshHit: any cached key is a hit, however old.
AnyHit(k) == k \in DOMAIN keys

\* Step (1): the cache answers before the lock is even looked at.
FreshHit(k) == k \in DOMAIN keys /\ ~IsStale

\* Mutant of ShouldAttemptFetch: an unknown kid is no reason to refresh.
RefreshesOnExpiryOnly(k) == IsStale /\ MayRefetch

\* Mutant of ShouldAttemptFetch: an expired document is no reason to refresh.
RefreshesOnUnknownOnly(k) == k \notin DOMAIN keys /\ MayRefetch

ShouldAttemptFetch(k) == (IsStale \/ k \notin DOMAIN keys) /\ MayRefetch

\* Mutant of Classify: the last error is raised even if there is none.
ClassifyUnguarded(k, ks, err) ==
    IF k \in DOMAIN ks THEN ks[k] ELSE IF DOMAIN ks # {} THEN "unknown" ELSE err

\* Step (4), over the cache and the error the segment leaves behind.
Classify(k, ks, err) ==
    IF k \in DOMAIN ks THEN ks[k]
    ELSE IF DOMAIN ks # {} THEN "unknown"
    ELSE IF err # "none" THEN err
    ELSE "unknown"

\* Mutant of FallBack: an expired key is no answer.
FallBackNever(k, ks, err) == err

\* Step (3), then what is raised: only the two expected errors fall back to
\* the cache, however old; any other exception goes through.
FallBack(k, ks, err) ==
    IF err \in {"http", "malformed"} /\ k \in DOMAIN ks THEN ks[k] ELSE err

-----------------------------------------------------------------------------
(* Effects shared by several actions *)

Starts(c, k) == pc[c] = "idle" /\ kid' = [kid EXCEPT ![c] = k]

Suspend(c, where) == pc' = [pc EXCEPT ![c] = where] /\ UNCHANGED result

Return(c, verdict) == /\ pc' = [pc EXCEPT ![c] = "returned"]
                      /\ result' = [result EXCEPT ![c] = verdict]

\* Mutant of SendGet: the attempt leaves no mark.
SendGetUnmarked == /\ attemptAge' = attemptAge
                   /\ quiet' = 0
                   /\ refresh' = "running"

\* The attempt is recorded before its outcome is known, then the GET leaves.
SendGet == /\ attemptAge' = 0
           /\ quiet' = 0
           /\ refresh' = "running"

-----------------------------------------------------------------------------
(* The segments of get_key *)

ServeFresh(c, k) ==
    /\ Starts(c, k)
    /\ FreshHit(k)
    /\ Return(c, keys[k])
    /\ UNCHANGED <<cacheVars, lockVars, sentVars, refresh>>

\* Mutant of AnswerThrottled: `self._lock.locked() or` is dropped.
AnswerDuringLoad(c, k) ==
    /\ Starts(c, k)
    /\ ~FreshHit(k)
    /\ ~ShouldAttemptFetch(k)
    /\ Return(c, Classify(k, keys, lastError))
    /\ UNCHANGED <<cacheVars, lockVars, sentVars, refresh>>

\* No load is running and none may start: the cache and the last error
\* are all there is to answer with.
AnswerThrottled(c, k) ==
    /\ Starts(c, k)
    /\ ~FreshHit(k)
    /\ ~locked
    /\ ~ShouldAttemptFetch(k)
    /\ Return(c, Classify(k, keys, lastError))
    /\ UNCHANGED <<cacheVars, lockVars, sentVars, refresh>>

\* Joins a load that is running, or waits behind those who do.
JoinQueue(c, k) ==
    /\ Starts(c, k)
    /\ ~FreshHit(k)
    /\ locked \/ ShouldAttemptFetch(k)
    /\ Lock!Wait(c)
    /\ Suspend(c, "queued")
    /\ UNCHANGED <<cacheVars, sentVars, refresh>>

\* Mutant of StartFetch: the lock is one of the call, not of the client.
StartFetchOwnLock(c, k) ==
    /\ Starts(c, k)
    /\ ~FreshHit(k)
    /\ ShouldAttemptFetch(k)
    /\ locked' = TRUE
    /\ SendGet
    /\ Suspend(c, "fetching")
    /\ UNCHANGED <<cacheVars, waiters>>

StartFetch(c, k) ==
    /\ Starts(c, k)
    /\ ~FreshHit(k)
    /\ ShouldAttemptFetch(k)
    /\ Lock!AcquireNow
    /\ SendGet
    /\ Suspend(c, "fetching")
    /\ UNCHANGED cacheVars

\* Mutant of ResumeFetch: no second check under the lock.
ResumeFetchUnchecked(c) ==
    /\ pc[c] = "queued"
    /\ Lock!AcquireInTurn(c)
    /\ SendGet
    /\ Suspend(c, "fetching")
    /\ UNCHANGED <<cacheVars, kid>>

\* The condition is checked again under the lock and still holds.
ResumeFetch(c) ==
    /\ pc[c] = "queued"
    /\ ShouldAttemptFetch(kid[c])
    /\ Lock!AcquireInTurn(c)
    /\ SendGet
    /\ Suspend(c, "fetching")
    /\ UNCHANGED <<cacheVars, kid>>

\* ... and no longer holds: the load the call joined answers it.
ResumeSkip(c) ==
    /\ pc[c] = "queued"
    /\ ~ShouldAttemptFetch(kid[c])
    /\ Lock!PassTurn(c)
    /\ Return(c, Classify(kid[c], keys, lastError))
    /\ UNCHANGED <<cacheVars, kid, sentVars, refresh>>

FetchSucceeds(c, r) ==
    /\ pc[c] = "fetching"
    /\ Outcome(r) = "ok"
    /\ keys' = ParsedKeys(r.entries)
    /\ docAge' = 0
    /\ lastError' = "none"
    /\ Lock!Release
    /\ refresh' = "ok"
    /\ Return(c, Classify(kid[c], ParsedKeys(r.entries), "none"))
    /\ UNCHANGED <<kid, sentVars>>

\* Mutant of FetchFails: only a network error is remembered.
FetchFailsForgetful(c, r) ==
    /\ pc[c] = "fetching"
    /\ Outcome(r) # "ok"
    /\ lastError' = IF Outcome(r) = "http" THEN "http" ELSE lastError
    /\ Lock!Release
    /\ refresh' = "failed"
    /\ Return(c, FallBack(kid[c], keys, Outcome(r)))
    /\ UNCHANGED <<keys, docAge, kid, sentVars>>

\* Mutant of FetchFails: _keys is filled in place, before the checks.
FetchFailsDestructive(c, r) ==
    /\ pc[c] = "fetching"
    /\ Outcome(r) # "ok"
    /\ keys' = NoDocument
    /\ lastError' = Outcome(r)
    /\ Lock!Release
    /\ refresh' = "failed"
    /\ Return(c, FallBack(kid[c], keys, Outcome(r)))
    /\ UNCHANGED <<docAge, kid, sentVars>>

\* Mutant of FetchFails: _fetched_at is set before the reply is checked.
FetchFailsFresh(c, r) ==
    /\ pc[c] = "fetching"
    /\ Outcome(r) # "ok"
    /\ docAge' = 0
    /\ lastError' = Outcome(r)
    /\ Lock!Release
    /\ refresh' = "failed"
    /\ Return(c, FallBack(kid[c], keys, Outcome(r)))
    /\ UNCHANGED <<keys, kid, sentVars>>

FetchFails(c, r) ==
    /\ pc[c] = "fetching"
    /\ Outcome(r) # "ok"
    /\ lastError' = Outcome(r)
    /\ Lock!Release
    /\ refresh' = "failed"
    /\ Return(c, FallBack(kid[c], keys, Outcome(r)))
    /\ UNCHANGED <<keys, docAge, kid, sentVars>>

\* Mutant of CancelFetching: the lock is released by hand after the load.
CancelFetchingLocked(c) ==
    /\ pc[c] = "fetching"
    /\ refresh' = "cancelled"
    /\ Return(c, "cancelled")
    /\ UNCHANGED <<cacheVars, lockVars, kid, sentVars>>

\* CancelledError is no Exception: neither the error nor the cache changes.
CancelFetching(c) ==
    /\ pc[c] = "fetching"
    /\ Lock!Release
    /\ refresh' = "cancelled"
    /\ Return(c, "cancelled")
    /\ UNCHANGED <<cacheVars, kid, sentVars>>

\* Mutant of CancelQueued: the waiter is not taken off the queue.
CancelQueuedInPlace(c) ==
    /\ pc[c] = "queued"
    /\ Return(c, "cancelled")
    /\ UNCHANGED <<cacheVars, lockVars, kid, sentVars, refresh>>

CancelQueued(c) ==
    /\ pc[c] = "queued"
    /\ Lock!Leave(c)
    /\ Return(c, "cancelled")
    /\ UNCHANGED <<cacheVars, kid, sentVars, refresh>>

\* The caller has its verdict; the coroutine is gone and a new call may come.
Finish(c) ==
    /\ pc[c] = "returned"
    /\ pc' = [pc EXCEPT ![c] = "idle"]
    /\ kid' = [kid EXCEPT ![c] = NoKid]
    /\ result' = [result EXCEPT ![c] = "pending"]
    /\ UNCHANGED <<cacheVars, lockVars, sentVars, refresh>>

Older(age, limit) == IF age < limit THEN age + 1 ELSE age

Tick ==
    /\ docAge < TTL \/ attemptAge < MinRefetchInterval \/ quiet < MinRefetchInterval
    /\ docAge' = Older(docAge, TTL)
    /\ attemptAge' = Older(attemptAge, MinRefetchInterval)
    /\ quiet' = Older(quiet, MinRefetchInterval)
    /\ UNCHANGED <<keys, lastError, lockVars, callVars, refresh>>

-----------------------------------------------------------------------------
(* The specification *)

Begin(c) == \E k \in Kid :
                \/ ServeFresh(c, k)
                \/ AnswerThrottled(c, k)
                \/ JoinQueue(c, k)
                \/ StartFetch(c, k)

Resume(c) == ResumeFetch(c) \/ ResumeSkip(c)

Complete(c) == \E r \in Reply : FetchSucceeds(c, r) \/ FetchFails(c, r)

Cancel(c) == CancelFetching(c) \/ CancelQueued(c)

Next == \/ \E c \in Call : Begin(c) \/ Resume(c) \/ Complete(c) \/ Cancel(c) \/ Finish(c)
        \/ Tick

Spec == Init /\ [][Next]_vars

\* The event loop runs every task that can run, and a GET ends: httpx gives
\* every request a timeout.  Nobody has to call get_key or cancel it.
Fairness == \A c \in Call : WF_vars(Resume(c)) /\ WF_vars(Complete(c))

FairSpec == Spec /\ Fairness

\* In addition time passes, there are always new calls, and cancellation
\* does not for ever strike every waiter the lock has just woken.
Traffic ==
    /\ WF_vars(Tick)
    /\ WF_vars(\E c \in Call : Resume(c))
    /\ \A c \in Call : WF_vars(Begin(c)) /\ WF_vars(Finish(c))

-----------------------------------------------------------------------------
(* Invariants *)

TypeOK ==
    /\ keys \in Document
    /\ docAge \in 0 .. TTL
    /\ attemptAge \in 0 .. MinRefetchInterval
    /\ lastError \in {"none", "http", "malformed", "bug"}
    /\ locked \in BOOLEAN
    /\ waiters \in Seq(Call)
    /\ pc \in [Call -> {"idle", "queued", "fetching", "returned"}]
    /\ kid \in [Call -> Kid \cup {NoKid}]
    /\ result \in [Call -> Pem \cup Failure \cup {"pending"}]
    /\ quiet \in 0 .. MinRefetchInterval
    /\ refresh \in {"none", "running", "ok", "failed", "cancelled"}

\* The lock is held exactly while one GET is in flight, and never two are:
\* every way out of a load, failure and cancellation included, gives the
\* lock back, and no call reaches the network without it.
SingleFlight ==
    /\ locked <=> \E c \in Call : pc[c] = "fetching"
    /\ \A c, d \in Call : pc[c] = "fetching" /\ pc[d] = "fetching" => c = d

\* The calls suspended in acquire() are those the lock will wake, each once:
\* no call sleeps on a lock that has forgotten it.
NoForgottenWaiter ==
    /\ \A c \in Call : pc[c] = "queued" <=> \E i \in DOMAIN waiters : waiters[i] = c
    /\ \A i, j \in DOMAIN waiters : waiters[i] = waiters[j] => i = j

\* What the cache holds tells how the last attempt ended: every GET has moved
\* the throttling mark, a success has left a document no older than the
\* attempt that fetched it, a failure has left its error, and only a
\* cancellation leaves no trace but the mark.
AttemptsLeaveTheirMark ==
    /\ quiet = attemptAge
    /\ refresh = "running" <=> locked
    /\ refresh = "none" => attemptAge = MinRefetchInterval
    /\ refresh = "failed" => lastError # "none"
    /\ refresh = "ok" => /\ DOMAIN keys # {}
                         /\ docAge <= attemptAge \/ attemptAge = MinRefetchInterval

-----------------------------------------------------------------------------
(* Action properties *)

\* In this step get_key returns or raises for c.
Answered(c) == pc[c] # "returned" /\ pc'[c] = "returned"

\* The source sees at most one GET per throttling window, whatever the
\* number of callers, the kids they ask for, and the way earlier attempts
\* ended (_may_refetch: failures count as attempts; _attempt_fetch: the
\* recheck under the lock).
ThrottledSource ==
    [][\A c \in Call : pc[c] # "fetching" /\ pc'[c] = "fetching"
           => quiet >= MinRefetchInterval]_vars

\* A key is served from an expired document only after an attempt to
\* refresh that document failed or was cancelled; while loads succeed,
\* no caller sees a key older than the TTL.  It is what the ValueError of
\* __init__ protects: with a ttl below the interval it would not hold.
StaleOnlyAfterFailure ==
    [][\A c \in Call :
           Answered(c) /\ result'[c] \in Pem /\ docAge' >= TTL /\ TTL > 0
               => refresh' \in {"failed", "cancelled"}]_vars

\* As long as the cache holds the key of a kid, fresh or expired, no call
\* for that kid is refused for an outage or as unknown, whichever call led
\* the refresh that failed (get_key, steps 3 and 4).
NoRefusalOfCachedKey ==
    [][\A c \in Call :
           Answered(c) /\ result'[c] \in {"unknown", "http", "malformed"}
               => kid'[c] \notin DOMAIN keys']_vars

\* A kid is refused as unknown only if the source was asked within the
\* current window or has answered just now: no kid is refused on the word
\* of the cache alone while the source may be asked (_should_attempt_fetch).
RefusalIsRecentlyChecked ==
    [][\A c \in Call :
           Answered(c) /\ result'[c] = "unknown"
               => quiet' < MinRefetchInterval \/ docAge' = 0]_vars

\* A call the fresh cache cannot answer is not answered past a running
\* load: it waits for the load's outcome (class docstring; `locked()` in
\* get_key), so it never refuses a key that is being fetched.
JoinsRunningLoad ==
    [][\A c, d \in Call :
           /\ Answered(c) /\ result'[c] # "cancelled"
           /\ ~(kid'[c] \in DOMAIN keys /\ docAge < TTL)
           /\ c # d
           => pc[d] # "fetching"]_vars

\* Where the lock's queue holds c.
PlaceIn(queue, c) == CHOOSE i \in DOMAIN queue : queue[i] = c

\* Nobody overtakes a call that waits, and every load that starts meanwhile
\* brings it nearer: however slow the loads, a call waits for at most the one
\* it found running and one of each call before it (_attempt_fetch: when a
\* load lasts longer than the window, the next in line starts another).
WaitIsBounded ==
    [][\A c \in Call :
           pc[c] = "queued" /\ pc'[c] = "queued" =>
               /\ PlaceIn(waiters', c) <= PlaceIn(waiters, c)
               /\ (\E d \in Call : pc[d] # "fetching" /\ pc'[d] = "fetching")
                      => PlaceIn(waiters', c) < PlaceIn(waiters, c)]_vars

\* Before the first document, an outage is reported as an outage: a kid is
\* refused as unknown only if the last attempt ended in a cancellation.
ColdRefusalOnlyAfterCancel ==
    [][\A c \in Call :
           Answered(c) /\ result'[c] = "unknown" /\ DOMAIN keys' = {}
               => refresh' = "cancelled"]_vars

-----------------------------------------------------------------------------
(* The promise to the caller *)

\* The documents a good reply of the source can be parsed to.
ParsedReplies == {ParsedKeys(r.entries) : r \in {q \in Reply : Outcome(q) = "ok"}}

\* A caller does not see whether it waits for the lock or for the source.
callerPc == [c \in Call |-> IF pc[c] \in {"queued", "fetching"} THEN "waiting" ELSE pc[c]]

Directory == INSTANCE KeyDirectory WITH
                 Empty <- NoDocument,
                 Published <- ParsedReplies,
                 directory <- keys,
                 pc <- callerPc

\* JwksClient provides the directory its callers rely on: whatever the
\* interleaving, the throttling and the failures, answers agree with the
\* directory of the moment and only a good document replaces it.
ProvidesDirectory == Directory!Spec

\* ... and every caller that waits gets its answer.
ProvidesLiveDirectory == Directory!FairSpec

-----------------------------------------------------------------------------
(* What the docstrings promise and the code does not keep *)

\* get_key: UnknownSigningKeyError "if the document is loaded, nonempty, but
\* has no key with this kid".
UnknownOnlyOnLoadedDocument ==
    [][\A c \in Call :
           Answered(c) /\ result'[c] = "unknown" => DOMAIN keys' # {}]_vars

\* The comment over that raise, and the README: the document is fresh.
UnknownOnlyOnFreshDocument ==
    [][\A c \in Call :
           Answered(c) /\ result'[c] = "unknown" /\ DOMAIN keys' # {}
               => docAge' < TTL]_vars

-----------------------------------------------------------------------------
(* Liveness *)

\* An expired document does not stay unattended: while there is traffic and
\* time passes, a refresh is attempted, however earlier attempts ended.
StaleIsRetried ==
    Traffic => (docAge = TTL ~> \E c \in Call : pc[c] = "fetching")

=============================================================================
