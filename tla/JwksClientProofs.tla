---------------------------- MODULE JwksClientProofs ----------------------------
(***************************************************************************)
(* Theorems about JwksClient, for any number of calls and kids, any ttl    *)
(* not below the interval and any set of replies.                          *)
(***************************************************************************)
EXTENDS JwksClient, JwksDocumentProofs, SequenceTheorems

-----------------------------------------------------------------------------
(* Verdicts and typing *)

\* The classification yields a cached key, or raises.
LEMMA ClassifyType ==
    ASSUME NEW ks \in Document, NEW k,
           NEW err \in {"none", "http", "malformed", "bug"}
    PROVE  /\ Classify(k, ks, err) \in Pem \cup Failure
           /\ k \in DOMAIN ks => Classify(k, ks, err) = ks[k] /\ ks[k] \in Pem
           /\ k \notin DOMAIN ks =>
                  Classify(k, ks, err) \in {"unknown", "http", "malformed", "bug"}
           /\ Classify(k, ks, err) = "unknown" =>
                  k \notin DOMAIN ks /\ (DOMAIN ks # {} \/ err = "none")
<1>1. PICK D \in SUBSET (Kid \cup {AlienKid}) : ks \in [D -> Pem]
  BY DEF Document
<1>2. k \in DOMAIN ks => ks[k] \in Pem
  BY <1>1
<1>3. "unknown" \notin Pem
  BY ResultAssumption DEF Failure
<1> QED  BY <1>2, <1>3 DEF Classify, Failure

\* A failed load yields the cached key, or raises the error of that load.
LEMMA FallBackType ==
    ASSUME NEW ks \in Document, NEW k, NEW err \in {"http", "malformed", "bug"}
    PROVE  /\ FallBack(k, ks, err) \in Pem \cup {"http", "malformed", "bug"}
           /\ k \in DOMAIN ks => FallBack(k, ks, err) \in {ks[k], "bug"}
           /\ k \notin DOMAIN ks => FallBack(k, ks, err) = err
<1>1. PICK D \in SUBSET (Kid \cup {AlienKid}) : ks \in [D -> Pem]
  BY DEF Document
<1> QED  BY <1>1 DEF FallBack

\* The cache after a good reply is a nonempty dictionary.
LEMMA LoadedType ==
    ASSUME NEW r \in Reply, Outcome(r) = "ok"
    PROVE  ParsedKeys(r.entries) \in Document /\ DOMAIN ParsedKeys(r.entries) # {}
<1>1. r \in ReplyType
  BY ClientAssumption
<1>2. r.entries \in Seq(Entry) /\ ParseOutcome(r.entries) = "ok"
  BY <1>1, OutcomeType DEF ReplyType
<1> QED  BY <1>2, ParsedKeysType

LEMMA FailedType ==
    ASSUME NEW r \in Reply, Outcome(r) # "ok"
    PROVE  Outcome(r) \in {"http", "malformed", "bug"}
BY ClientAssumption, OutcomeType

\* A waiter that leaves the queue leaves a queue of calls.
LEMMA LeaveType ==
    ASSUME NEW s \in Seq(Call), NEW i \in DOMAIN s
    PROVE  SubSeq(s, 1, i - 1) \o SubSeq(s, i + 1, Len(s)) \in Seq(Call)
OBVIOUS

\* The variables keep their types whatever the source sends and however the
\* calls interleave.
THEOREM Typing == Spec => []TypeOK
<1> USE ClientAssumption
<1>1. Init => TypeOK
  <2> SUFFICES ASSUME Init PROVE TypeOK
    OBVIOUS
  <2>1. NoDocument \in [{} -> Pem]
    BY DEF NoDocument
  <2>2. NoDocument \in Document
    BY <2>1 DEF Document
  <2>3. TTL \in 0 .. TTL /\ MinRefetchInterval \in 0 .. MinRefetchInterval
    OBVIOUS
  <2>4. waiters \in Seq(Call) /\ locked \in BOOLEAN
    <3>1. waiters = <<>> /\ locked = FALSE
      BY DEF Init, Lock!Init
    <3>2. <<>> \in Seq(Call)
      OBVIOUS
    <3> QED  BY <3>1, <3>2
  <2>5. /\ pc \in [Call -> {"idle", "queued", "fetching", "returned"}]
        /\ kid \in [Call -> Kid \cup {NoKid}]
        /\ result \in [Call -> Pem \cup Failure \cup {"pending"}]
    BY DEF Init
  <2> QED  BY <2>2, <2>3, <2>4, <2>5 DEF Init, TypeOK
<1>2. TypeOK /\ [Next]_vars => TypeOK'
  <2> SUFFICES ASSUME TypeOK, [Next]_vars PROVE TypeOK'
    OBVIOUS
  <2> USE DEF TypeOK
  <2>1. ASSUME NEW c \in Call, NEW k \in Kid, ServeFresh(c, k) PROVE TypeOK'
    <3>1. keys[k] \in Pem
      BY <2>1, ClassifyType DEF ServeFresh, FreshHit
    <3> QED  BY <2>1, <3>1 DEF ServeFresh, Starts, Return, cacheVars, lockVars, sentVars
  <2>2. ASSUME NEW c \in Call, NEW k \in Kid, AnswerThrottled(c, k) PROVE TypeOK'
    BY <2>2, ClassifyType DEF AnswerThrottled, Starts, Return, cacheVars, lockVars, sentVars
  <2>3. ASSUME NEW c \in Call, NEW k \in Kid, JoinQueue(c, k) PROVE TypeOK'
    BY <2>3 DEF JoinQueue, Starts, Suspend, Lock!Wait, cacheVars, sentVars
  <2>4. ASSUME NEW c \in Call, NEW k \in Kid, StartFetch(c, k) PROVE TypeOK'
    BY <2>4 DEF StartFetch, Starts, Suspend, SendGet, Lock!AcquireNow, cacheVars
  <2>5. ASSUME NEW c \in Call, ResumeFetch(c) PROVE TypeOK'
    BY <2>5 DEF ResumeFetch, Suspend, SendGet, Lock!AcquireInTurn, Lock!Turn, cacheVars
  <2>6. ASSUME NEW c \in Call, ResumeSkip(c) PROVE TypeOK'
    BY <2>6, ClassifyType
    DEF ResumeSkip, Return, Lock!PassTurn, Lock!Turn, cacheVars, sentVars
  <2>7. ASSUME NEW c \in Call, NEW r \in Reply, FetchSucceeds(c, r) PROVE TypeOK'
    <3>1. ParsedKeys(r.entries) \in Document
      BY <2>7, LoadedType DEF FetchSucceeds
    <3>2. Classify(kid[c], ParsedKeys(r.entries), "none") \in Pem \cup Failure
      BY <3>1, ClassifyType
    <3>3. /\ keys' \in Document
          /\ result' \in [Call -> Pem \cup Failure \cup {"pending"}]
          /\ pc' \in [Call -> {"idle", "queued", "fetching", "returned"}]
      BY <2>7, <3>1, <3>2 DEF FetchSucceeds, Return
    <3>4. 0 \in 0 .. TTL
      OBVIOUS
    <3> QED  BY <2>7, <3>3, <3>4 DEF FetchSucceeds, Lock!Release, sentVars
  <2>8. ASSUME NEW c \in Call, NEW r \in Reply, FetchFails(c, r) PROVE TypeOK'
    <3>1. Outcome(r) \in {"http", "malformed", "bug"}
      BY <2>8, FailedType DEF FetchFails
    <3>2. FallBack(kid[c], keys, Outcome(r)) \in Pem \cup Failure
      BY <3>1, FallBackType DEF Failure
    <3> QED  BY <2>8, <3>1, <3>2 DEF FetchFails, Return, Lock!Release, sentVars
  <2>9. ASSUME NEW c \in Call, CancelFetching(c) PROVE TypeOK'
    BY <2>9 DEF CancelFetching, Return, Lock!Release, Failure, cacheVars, sentVars
  <2>10. ASSUME NEW c \in Call, CancelQueued(c) PROVE TypeOK'
    <3>1. waiters' \in Seq(Call)
      BY <2>10, LeaveType DEF CancelQueued, Lock!Leave
    <3> QED  BY <2>10, <3>1 DEF CancelQueued, Return, Lock!Leave, Failure, cacheVars, sentVars
  <2>11. ASSUME NEW c \in Call, Finish(c) PROVE TypeOK'
    BY <2>11 DEF Finish, cacheVars, lockVars, sentVars
  <2>12. CASE Tick
    BY <2>12 DEF Tick, Older, lockVars, callVars
  <2>13. CASE UNCHANGED vars
    BY <2>13 DEF vars
  <2> QED
    BY <2>1, <2>2, <2>3, <2>4, <2>5, <2>6, <2>7, <2>8, <2>9, <2>10, <2>11, <2>12, <2>13
    DEF Next, Begin, Resume, Complete, Cancel
<1> QED  BY <1>1, <1>2, PTL DEF Spec

-----------------------------------------------------------------------------
(* The inductive invariant *)

\* SingleFlight is not inductive without the types; the action properties
\* need in addition what the last attempt left behind.
IInv == TypeOK /\ SingleFlight /\ AttemptsLeaveTheirMark

LEMMA InitIInv == Init => SingleFlight /\ AttemptsLeaveTheirMark
BY DEF Init, Lock!Init, SingleFlight, AttemptsLeaveTheirMark

\* No step makes a second call fetch, or separates the lock from the load.
LEMMA NextSingleFlight ==
    ASSUME TypeOK, SingleFlight, [Next]_vars
    PROVE  SingleFlight'
<1> USE DEF TypeOK, SingleFlight
<1>1. ASSUME NEW c \in Call, NEW k \in Kid, ServeFresh(c, k) PROVE SingleFlight'
  BY <1>1 DEF ServeFresh, Starts, Return, lockVars
<1>2. ASSUME NEW c \in Call, NEW k \in Kid, AnswerThrottled(c, k) PROVE SingleFlight'
  BY <1>2 DEF AnswerThrottled, Starts, Return, lockVars
<1>3. ASSUME NEW c \in Call, NEW k \in Kid, JoinQueue(c, k) PROVE SingleFlight'
  BY <1>3 DEF JoinQueue, Starts, Suspend, Lock!Wait
<1>4. ASSUME NEW c \in Call, NEW k \in Kid, StartFetch(c, k) PROVE SingleFlight'
  <2>1. \A d \in Call : pc[d] # "fetching"
    BY <1>4 DEF StartFetch, Lock!AcquireNow, Lock!Free
  <2> QED  BY <1>4, <2>1 DEF StartFetch, Starts, Suspend, Lock!AcquireNow
<1>5. ASSUME NEW c \in Call, ResumeFetch(c) PROVE SingleFlight'
  <2>1. \A d \in Call : pc[d] # "fetching"
    BY <1>5 DEF ResumeFetch, Lock!AcquireInTurn, Lock!Turn
  <2> QED  BY <1>5, <2>1 DEF ResumeFetch, Suspend, Lock!AcquireInTurn
<1>6. ASSUME NEW c \in Call, ResumeSkip(c) PROVE SingleFlight'
  BY <1>6 DEF ResumeSkip, Return, Lock!PassTurn
<1>7. ASSUME NEW c \in Call, NEW r \in Reply, FetchSucceeds(c, r) PROVE SingleFlight'
  BY <1>7 DEF FetchSucceeds, Return, Lock!Release
<1>8. ASSUME NEW c \in Call, NEW r \in Reply, FetchFails(c, r) PROVE SingleFlight'
  BY <1>8 DEF FetchFails, Return, Lock!Release
<1>9. ASSUME NEW c \in Call, CancelFetching(c) PROVE SingleFlight'
  BY <1>9 DEF CancelFetching, Return, Lock!Release
<1>10. ASSUME NEW c \in Call, CancelQueued(c) PROVE SingleFlight'
  BY <1>10 DEF CancelQueued, Return, Lock!Leave
<1>11. ASSUME NEW c \in Call, Finish(c) PROVE SingleFlight'
  BY <1>11 DEF Finish, lockVars
<1>12. CASE Tick
  BY <1>12 DEF Tick, lockVars, callVars
<1>13. CASE UNCHANGED vars
  BY <1>13 DEF vars
<1> QED
  BY <1>1, <1>2, <1>3, <1>4, <1>5, <1>6, <1>7, <1>8, <1>9, <1>10, <1>11, <1>12, <1>13
  DEF Next, Begin, Resume, Complete, Cancel

\* No step breaks the link between the cache and the last attempt.
LEMMA NextAttempts ==
    ASSUME TypeOK, SingleFlight, AttemptsLeaveTheirMark, [Next]_vars
    PROVE  AttemptsLeaveTheirMark'
<1> USE ClientAssumption DEF TypeOK, AttemptsLeaveTheirMark
<1>1. ASSUME NEW c \in Call, NEW k \in Kid, ServeFresh(c, k)
      PROVE  AttemptsLeaveTheirMark'
  BY <1>1 DEF ServeFresh, cacheVars, lockVars, sentVars
<1>2. ASSUME NEW c \in Call, NEW k \in Kid, AnswerThrottled(c, k)
      PROVE  AttemptsLeaveTheirMark'
  BY <1>2 DEF AnswerThrottled, cacheVars, lockVars, sentVars
<1>3. ASSUME NEW c \in Call, NEW k \in Kid, JoinQueue(c, k)
      PROVE  AttemptsLeaveTheirMark'
  BY <1>3 DEF JoinQueue, Lock!Wait, cacheVars, sentVars
<1>4. ASSUME NEW c \in Call, NEW k \in Kid, StartFetch(c, k)
      PROVE  AttemptsLeaveTheirMark'
  BY <1>4 DEF StartFetch, SendGet, Lock!AcquireNow, cacheVars
<1>5. ASSUME NEW c \in Call, ResumeFetch(c) PROVE AttemptsLeaveTheirMark'
  BY <1>5 DEF ResumeFetch, SendGet, Lock!AcquireInTurn, cacheVars
<1>6. ASSUME NEW c \in Call, ResumeSkip(c) PROVE AttemptsLeaveTheirMark'
  BY <1>6 DEF ResumeSkip, Lock!PassTurn, cacheVars, sentVars
<1>7. ASSUME NEW c \in Call, NEW r \in Reply, FetchSucceeds(c, r)
      PROVE  AttemptsLeaveTheirMark'
  <2>1. DOMAIN ParsedKeys(r.entries) # {}
    BY <1>7, LoadedType DEF FetchSucceeds
  <2> QED  BY <1>7, <2>1 DEF FetchSucceeds, Lock!Release, sentVars
<1>8. ASSUME NEW c \in Call, NEW r \in Reply, FetchFails(c, r)
      PROVE  AttemptsLeaveTheirMark'
  <2>1. Outcome(r) # "none"
    BY <1>8, FailedType DEF FetchFails
  <2> QED  BY <1>8, <2>1 DEF FetchFails, Lock!Release, sentVars
<1>9. ASSUME NEW c \in Call, CancelFetching(c) PROVE AttemptsLeaveTheirMark'
  BY <1>9 DEF CancelFetching, Lock!Release, cacheVars, sentVars
<1>10. ASSUME NEW c \in Call, CancelQueued(c) PROVE AttemptsLeaveTheirMark'
  BY <1>10 DEF CancelQueued, Lock!Leave, cacheVars, sentVars
<1>11. ASSUME NEW c \in Call, Finish(c) PROVE AttemptsLeaveTheirMark'
  BY <1>11 DEF Finish, cacheVars, lockVars, sentVars
<1>12. CASE Tick
  BY <1>12 DEF Tick, Older, lockVars
<1>13. CASE UNCHANGED vars
  BY <1>13 DEF vars
<1> QED
  BY <1>1, <1>2, <1>3, <1>4, <1>5, <1>6, <1>7, <1>8, <1>9, <1>10, <1>11, <1>12, <1>13
  DEF Next, Begin, Resume, Complete, Cancel

\* The inductive invariant holds in every reachable state.
THEOREM Inductive == Spec => []IInv
<1>1. Init => SingleFlight /\ AttemptsLeaveTheirMark
  BY InitIInv
<1>2. TypeOK /\ SingleFlight /\ AttemptsLeaveTheirMark /\ [Next]_vars
          => SingleFlight' /\ AttemptsLeaveTheirMark'
  BY NextSingleFlight, NextAttempts
<1> QED  BY <1>1, <1>2, Typing, PTL DEF Spec, IInv

\* The lock is held exactly while one GET is in flight, for any number of
\* callers and through every failure and cancellation (_attempt_fetch).
THEOREM FlightIsSingle == Spec => []SingleFlight
BY Inductive, PTL DEF IInv

\* Whatever the way an attempt ended, the cache remembers it as get_key needs
\* (_attempt_fetch, the assignments around _fetch).
THEOREM AttemptsAreRecorded == Spec => []AttemptsLeaveTheirMark
BY Inductive, PTL DEF IInv

-----------------------------------------------------------------------------
(* The queue of the lock *)

\* The calls in a queue s, each once.
Exactly(s, who) == /\ \A c \in Call : c \in who <=> \E i \in DOMAIN s : s[i] = c
                   /\ \A i, j \in DOMAIN s : s[i] = s[j] => i = j

\* A newcomer joins the queue, and nobody is displaced.
LEMMA JoiningQueue ==
    ASSUME NEW s \in Seq(Call), NEW who, Exactly(s, who), NEW c \in Call, c \notin who
    PROVE  Exactly(Append(s, c), who \cup {c})
<1> DEFINE t == Append(s, c)
<1>1. Len(t) = Len(s) + 1 /\ DOMAIN t = 1 .. Len(s) + 1
  OBVIOUS
<1>2. t[Len(s) + 1] = c /\ \A i \in 1 .. Len(s) : t[i] = s[i]
  OBVIOUS
<1>3. DOMAIN s = 1 .. Len(s) /\ Len(s) \in Nat
  OBVIOUS
<1> HIDE DEF t
<1>4. \A d \in Call : d \in who \cup {c} <=> \E i \in DOMAIN t : t[i] = d
  BY <1>1, <1>2, <1>3 DEF Exactly
<1>5. \A i, j \in DOMAIN t : t[i] = t[j] => i = j
  BY <1>1, <1>2, <1>3 DEF Exactly
<1> QED  BY <1>4, <1>5 DEF Exactly, t

\* The call whose turn it is leaves the queue, and nobody else does.
LEMMA TakingTurn ==
    ASSUME NEW s \in Seq(Call), s # <<>>, NEW who, Exactly(s, who)
    PROVE  Exactly(Tail(s), who \ {Head(s)})
<1> DEFINE t == Tail(s)
<1>1. Len(s) \in Nat /\ Len(s) > 0 /\ DOMAIN s = 1 .. Len(s) /\ DOMAIN t = 1 .. Len(s) - 1
  OBVIOUS
<1>2. Head(s) = s[1] /\ \A i \in 1 .. Len(s) - 1 : t[i] = s[i + 1]
  OBVIOUS
<1> HIDE DEF t
<1>3. \A i \in 2 .. Len(s) : s[i] = t[i - 1] /\ i - 1 \in DOMAIN t
  BY <1>1, <1>2
<1>4. \A d \in Call : d \in who \ {Head(s)} <=> \E i \in DOMAIN t : t[i] = d
  <2> SUFFICES ASSUME NEW d \in Call
               PROVE  d \in who \ {Head(s)} <=> \E i \in DOMAIN t : t[i] = d
    OBVIOUS
  <2>1. ASSUME d \in who, d # Head(s) PROVE \E i \in DOMAIN t : t[i] = d
    <3>1. PICK i \in DOMAIN s : s[i] = d
      BY <2>1 DEF Exactly
    <3> QED  BY <1>1, <1>2, <1>3, <2>1, <3>1
  <2>2. ASSUME NEW i \in DOMAIN t, t[i] = d PROVE d \in who /\ d # Head(s)
    <3>1. s[i + 1] = d /\ i + 1 \in DOMAIN s /\ 1 \in DOMAIN s /\ i + 1 # 1
      BY <1>1, <1>2, <2>2
    <3> QED  BY <1>2, <3>1 DEF Exactly
  <2> QED  BY <2>1, <2>2
<1>5. \A i, j \in DOMAIN t : t[i] = t[j] => i = j
  <2> SUFFICES ASSUME NEW i \in DOMAIN t, NEW j \in DOMAIN t, t[i] = t[j] PROVE i = j
    OBVIOUS
  <2>1. s[i + 1] = s[j + 1] /\ i + 1 \in DOMAIN s /\ j + 1 \in DOMAIN s
    BY <1>1, <1>2
  <2> QED  BY <1>1, <2>1 DEF Exactly
<1> QED  BY <1>4, <1>5 DEF Exactly, t

\* What is left of a queue when one waiter goes: those before it keep their
\* places, those behind it move up by one.
LEMMA RemovingOne ==
    ASSUME NEW s \in Seq(Call), NEW n \in DOMAIN s
    PROVE  LET t == SubSeq(s, 1, n - 1) \o SubSeq(s, n + 1, Len(s))
           IN  /\ DOMAIN t = 1 .. Len(s) - 1
               /\ \A i \in 1 .. n - 1 : t[i] = s[i]
               /\ \A i \in n .. Len(s) - 1 : t[i] = s[i + 1]
<1> DEFINE t == SubSeq(s, 1, n - 1) \o SubSeq(s, n + 1, Len(s))
<1>1. Len(s) \in Nat /\ DOMAIN s = 1 .. Len(s) /\ n \in 1 .. Len(s)
  OBVIOUS
<1>2. /\ DOMAIN t = 1 .. Len(s) - 1
      /\ \A i \in 1 .. n - 1 : t[i] = s[i]
      /\ \A i \in n .. Len(s) - 1 : t[i] = s[i + 1]
  <2> DEFINE a == SubSeq(s, 1, n - 1)
             b == SubSeq(s, n + 1, Len(s))
  <2>1. a \in Seq(Call) /\ Len(a) = n - 1 /\ \A i \in 1 .. n - 1 : a[i] = s[i]
    BY <1>1
  <2>2. b \in Seq(Call) /\ Len(b) = Len(s) - n /\ \A i \in 1 .. Len(s) - n : b[i] = s[n + i]
    BY <1>1
  <2> HIDE DEF a, b
  <2>3. /\ Len(a \o b) = Len(s) - 1 /\ DOMAIN (a \o b) = 1 .. Len(s) - 1
        /\ \A i \in 1 .. Len(s) - 1 : (a \o b)[i] = IF i <= n - 1 THEN a[i] ELSE b[i - (n - 1)]
    <3>1. /\ a \o b \in Seq(Call)
          /\ Len(a \o b) = Len(a) + Len(b)
          /\ \A i \in 1 .. Len(a) + Len(b) :
                 (a \o b)[i] = IF i <= Len(a) THEN a[i] ELSE b[i - Len(a)]
      BY <2>1, <2>2, ConcatProperties
    <3>2. Len(a) + Len(b) = Len(s) - 1
      BY <1>1, <2>1, <2>2
    <3>3. DOMAIN (a \o b) = 1 .. Len(a \o b)
      BY <3>1
    <3> QED  BY <2>1, <3>1, <3>2, <3>3
  <2>4. \A i \in n .. Len(s) - 1 : (a \o b)[i] = s[i + 1]
    <3> SUFFICES ASSUME NEW i \in n .. Len(s) - 1 PROVE (a \o b)[i] = s[i + 1]
      OBVIOUS
    <3> DEFINE L == Len(s)
    <3>1. L \in Nat /\ n \in 1 .. L /\ i \in n .. L - 1
      BY <1>1
    <3>2. i \in 1 .. L - 1 /\ ~(i <= n - 1)
          /\ i - (n - 1) \in 1 .. L - n /\ n + (i - (n - 1)) = i + 1
      <4> HIDE DEF L
      <4> QED  BY <3>1
    <3> QED  BY <2>2, <2>3, <3>2
  <2>5. \A i \in 1 .. n - 1 : i \in 1 .. Len(s) - 1 /\ i <= n - 1
    <3> DEFINE L == Len(s)
    <3>1. L \in Nat /\ n \in 1 .. L
      BY <1>1
    <3> HIDE DEF L
    <3>2. \A i \in 1 .. n - 1 : i \in 1 .. L - 1 /\ i <= n - 1
      BY <3>1
    <3> QED  BY <3>2 DEF L
  <2>6. t = a \o b
    BY DEF a, b
  <2> HIDE DEF t
  <2> QED  BY <2>1, <2>3, <2>4, <2>5, <2>6
<1> QED  BY <1>2

\* A cancelled waiter leaves the queue from any place, and nobody else does.
LEMMA LeavingQueue ==
    ASSUME NEW s \in Seq(Call), NEW who, Exactly(s, who), NEW n \in DOMAIN s
    PROVE  Exactly(SubSeq(s, 1, n - 1) \o SubSeq(s, n + 1, Len(s)), who \ {s[n]})
<1> DEFINE t == SubSeq(s, 1, n - 1) \o SubSeq(s, n + 1, Len(s))
<1>1. Len(s) \in Nat /\ DOMAIN s = 1 .. Len(s) /\ n \in 1 .. Len(s)
  OBVIOUS
<1>2. /\ DOMAIN t = 1 .. Len(s) - 1
      /\ \A i \in 1 .. n - 1 : t[i] = s[i]
      /\ \A i \in n .. Len(s) - 1 : t[i] = s[i + 1]
  BY RemovingOne
<1> HIDE DEF t
<1>3. \A i \in DOMAIN s : i # n => \E j \in DOMAIN t : t[j] = s[i]
  <2> SUFFICES ASSUME NEW i \in DOMAIN s, i # n PROVE \E j \in DOMAIN t : t[j] = s[i]
    OBVIOUS
  <2>1. CASE i < n
    BY <1>1, <1>2, <2>1
  <2>2. CASE i > n
    <3>1. i - 1 \in n .. Len(s) - 1 /\ i - 1 \in DOMAIN t
      BY <1>1, <1>2, <2>2
    <3>2. t[i - 1] = s[i]
      BY <1>1, <1>2, <3>1
    <3> QED  BY <3>1, <3>2
  <2> QED  BY <1>1, <2>1, <2>2
<1> DEFINE Origin(j) == IF j < n THEN j ELSE j + 1
<1>4. \A j \in DOMAIN t : Origin(j) \in DOMAIN s /\ Origin(j) # n /\ t[j] = s[Origin(j)]
  BY <1>1, <1>2
<1>5. \A i, j \in DOMAIN t : Origin(i) = Origin(j) => i = j
  BY <1>1, <1>2
<1> HIDE DEF Origin
<1>6. \A d \in Call : d \in who \ {s[n]} <=> \E j \in DOMAIN t : t[j] = d
  <2> SUFFICES ASSUME NEW d \in Call
               PROVE  d \in who \ {s[n]} <=> \E j \in DOMAIN t : t[j] = d
    OBVIOUS
  <2>1. ASSUME d \in who, d # s[n] PROVE \E j \in DOMAIN t : t[j] = d
    <3>1. PICK i \in DOMAIN s : s[i] = d
      BY <2>1 DEF Exactly
    <3> QED  BY <1>3, <2>1, <3>1
  <2>2. ASSUME NEW j \in DOMAIN t, t[j] = d PROVE d \in who /\ d # s[n]
    BY <1>4, <2>2 DEF Exactly
  <2> QED  BY <2>1, <2>2
<1>7. \A i, j \in DOMAIN t : t[i] = t[j] => i = j
  BY <1>4, <1>5 DEF Exactly
<1> QED  BY <1>6, <1>7 DEF Exactly, t

\* The lock forgets none of the calls suspended in acquire() and wakes no call
\* twice, even when calls are cancelled in any place of the queue.
THEOREM NobodyIsForgotten == Spec => []NoForgottenWaiter
<1> DEFINE Queued == {c \in Call : pc[c] = "queued"}
<1>1. NoForgottenWaiter <=> Exactly(waiters, Queued)
  BY DEF NoForgottenWaiter, Exactly
<1>2. Init => NoForgottenWaiter
  <2> SUFFICES ASSUME Init PROVE NoForgottenWaiter
    OBVIOUS
  <2>1. waiters = <<>> /\ \A c \in Call : pc[c] = "idle"
    BY DEF Init, Lock!Init
  <2> QED  BY <2>1 DEF NoForgottenWaiter
<1>3. TypeOK /\ NoForgottenWaiter /\ [Next]_vars => NoForgottenWaiter'
  <2> SUFFICES ASSUME TypeOK, NoForgottenWaiter, [Next]_vars PROVE NoForgottenWaiter'
    OBVIOUS
  <2>1. waiters \in Seq(Call) /\ Exactly(waiters, Queued)
    BY <1>1 DEF TypeOK
  <2>2. SUFFICES Exactly(waiters', Queued')
    BY DEF NoForgottenWaiter, Exactly
  <2> USE DEF TypeOK
  <2>3. ASSUME waiters' = waiters, Queued' = Queued PROVE Exactly(waiters', Queued')
    BY <2>1, <2>3
  <2>4. ASSUME NEW c \in Call, NEW k \in Kid, ServeFresh(c, k) \/ AnswerThrottled(c, k)
        PROVE  Exactly(waiters', Queued')
    BY <2>3, <2>4 DEF ServeFresh, AnswerThrottled, Starts, Return, lockVars
  <2>5. ASSUME NEW c \in Call, NEW k \in Kid, JoinQueue(c, k) PROVE Exactly(waiters', Queued')
    <3>1. waiters' = Append(waiters, c) /\ Queued' = Queued \cup {c} /\ c \notin Queued
      BY <2>5 DEF JoinQueue, Starts, Suspend, Lock!Wait
    <3> HIDE DEF Queued
    <3> QED  BY <2>1, <3>1, JoiningQueue
  <2>6. ASSUME NEW c \in Call, NEW k \in Kid, StartFetch(c, k) PROVE Exactly(waiters', Queued')
    BY <2>3, <2>6 DEF StartFetch, Starts, Suspend, Lock!AcquireNow
  <2>7. ASSUME NEW c \in Call, Resume(c) PROVE Exactly(waiters', Queued')
    <3>1. /\ waiters # <<>> /\ c = Head(waiters) /\ waiters' = Tail(waiters)
          /\ Queued' = Queued \ {c}
      BY <2>7
      DEF Resume, ResumeFetch, ResumeSkip, Suspend, Return,
          Lock!AcquireInTurn, Lock!PassTurn, Lock!Turn
    <3> HIDE DEF Queued
    <3> QED  BY <2>1, <3>1, TakingTurn
  <2>8. ASSUME NEW c \in Call, NEW r \in Reply, FetchSucceeds(c, r) \/ FetchFails(c, r)
        PROVE  Exactly(waiters', Queued')
    BY <2>3, <2>8 DEF FetchSucceeds, FetchFails, Return, Lock!Release
  <2>9. ASSUME NEW c \in Call, CancelFetching(c) PROVE Exactly(waiters', Queued')
    BY <2>3, <2>9 DEF CancelFetching, Return, Lock!Release
  <2>10. ASSUME NEW c \in Call, CancelQueued(c) PROVE Exactly(waiters', Queued')
    <3>1. PICK n \in DOMAIN waiters :
              /\ waiters[n] = c
              /\ waiters' = SubSeq(waiters, 1, n - 1) \o SubSeq(waiters, n + 1, Len(waiters))
      BY <2>10 DEF CancelQueued, Lock!Leave
    <3>2. Queued' = Queued \ {c}
      BY <2>10 DEF CancelQueued, Return
    <3> HIDE DEF Queued
    <3> QED  BY <2>1, <3>1, <3>2, LeavingQueue
  <2>11. ASSUME NEW c \in Call, Finish(c) PROVE Exactly(waiters', Queued')
    BY <2>3, <2>11 DEF Finish, lockVars
  <2>12. CASE Tick \/ UNCHANGED vars
    BY <2>3, <2>12 DEF Tick, vars, lockVars, callVars
  <2> QED
    BY <2>4, <2>5, <2>6, <2>7, <2>8, <2>9, <2>10, <2>11, <2>12
    DEF Next, Begin, Complete, Cancel
<1> QED  BY <1>2, <1>3, Typing, PTL DEF Spec

\* What the calls in acquire() wait for is there: a GET is in flight, which every
\* outcome ends with a release, or the first in the queue can run on.
SomebodyMoves ==
    \A c \in Call : pc[c] = "queued" =>
        \E d \in Call : pc[d] = "fetching" \/ (pc[d] = "queued" /\ Lock!Turn(d))

\* The calls never all wait for each other: the safety half of "every call
\* returns", for any number of calls (`async with self._lock`).
THEOREM WaitersAreNotStuck == Spec => []SomebodyMoves
<1>1. ASSUME IInv, NoForgottenWaiter PROVE SomebodyMoves
  <2> SUFFICES ASSUME NEW c \in Call, pc[c] = "queued"
               PROVE  \E d \in Call : pc[d] = "fetching" \/ (pc[d] = "queued" /\ Lock!Turn(d))
    BY DEF SomebodyMoves
  <2> USE <1>1 DEF IInv, TypeOK
  <2>1. waiters # <<>>
    BY DEF NoForgottenWaiter
  <2>2. /\ 1 \in DOMAIN waiters /\ Head(waiters) = waiters[1]
        /\ Head(waiters) \in Call
    BY <2>1
  <2>3. pc[Head(waiters)] = "queued"
    BY <2>2 DEF NoForgottenWaiter
  <2>4. CASE locked
    BY <2>4 DEF SingleFlight
  <2>5. CASE ~locked
    BY <2>1, <2>2, <2>3, <2>5 DEF Lock!Turn
  <2> QED  BY <2>4, <2>5
<1> QED  BY <1>1, Inductive, NobodyIsForgotten, PTL

\* In a queue of distinct calls, a place is the place.
LEMMA PlaceIs ==
    ASSUME NEW s, \A i, j \in DOMAIN s : s[i] = s[j] => i = j, NEW n \in DOMAIN s
    PROVE  PlaceIn(s, s[n]) = n
BY DEF PlaceIn

\* A call in the queue is overtaken by nobody, and each load that starts before
\* its own turn takes one call from before it (asyncio.Lock is fair; the recheck
\* of _attempt_fetch may find the window open again for each of them).
THEOREM NobodyOvertakes == Spec => WaitIsBounded
<1> DEFINE LoadStarts == \E d \in Call : pc[d] # "fetching" /\ pc'[d] = "fetching"
           Nearer(c) == pc[c] = "queued" /\ pc'[c] = "queued" =>
               /\ PlaceIn(waiters', c) <= PlaceIn(waiters, c)
               /\ LoadStarts => PlaceIn(waiters', c) < PlaceIn(waiters, c)
<1>1. TypeOK /\ NoForgottenWaiter /\ NoForgottenWaiter' /\ [Next]_vars
          => [\A c \in Call : Nearer(c)]_vars
  <2> SUFFICES ASSUME TypeOK, NoForgottenWaiter, NoForgottenWaiter', Next,
                      NEW c \in Call, pc[c] = "queued", pc'[c] = "queued"
               PROVE  /\ PlaceIn(waiters', c) <= PlaceIn(waiters, c)
                      /\ LoadStarts => PlaceIn(waiters', c) < PlaceIn(waiters, c)
    OBVIOUS
  <2> DEFINE Goal == /\ PlaceIn(waiters', c) <= PlaceIn(waiters, c)
                     /\ LoadStarts => PlaceIn(waiters', c) < PlaceIn(waiters, c)
  <2>1. PICK n \in DOMAIN waiters : waiters[n] = c
    BY DEF NoForgottenWaiter
  <2>2. /\ waiters \in Seq(Call) /\ DOMAIN waiters = 1 .. Len(waiters)
        /\ Len(waiters) \in Nat /\ n \in 1 .. Len(waiters)
    BY <2>1 DEF TypeOK
  <2>3. PlaceIn(waiters, c) = n
    BY <2>1, PlaceIs DEF NoForgottenWaiter
  <2>4. ASSUME NEW m \in DOMAIN waiters', waiters'[m] = c PROVE PlaceIn(waiters', c) = m
    BY <2>4, PlaceIs DEF NoForgottenWaiter
  <2>5. ASSUME waiters' = waiters, ~LoadStarts PROVE Goal
    BY <2>2, <2>3, <2>5
  <2>6. ASSUME NEW d \in Call, NEW k \in Kid, ServeFresh(d, k) \/ AnswerThrottled(d, k)
        PROVE  Goal
    <3>1. waiters' = waiters /\ ~LoadStarts
      BY <2>6 DEF ServeFresh, AnswerThrottled, Starts, Return, lockVars, TypeOK
    <3> QED  BY <2>5, <3>1
  <2>7. ASSUME NEW d \in Call, NEW k \in Kid, JoinQueue(d, k) PROVE Goal
    <3>1. waiters' = Append(waiters, d) /\ ~LoadStarts
      BY <2>7 DEF JoinQueue, Starts, Suspend, Lock!Wait, TypeOK
    <3>2. n \in DOMAIN waiters' /\ waiters'[n] = c
      BY <2>1, <2>2, <3>1
    <3> QED  BY <2>2, <2>3, <2>4, <3>1, <3>2
  <2>8. ASSUME NEW d \in Call, NEW k \in Kid, StartFetch(d, k) PROVE FALSE
    <3>1. waiters = <<>>
      BY <2>8 DEF StartFetch, Lock!AcquireNow, Lock!Free
    <3> QED  BY <2>2, <3>1
  <2>9. ASSUME NEW d \in Call, Resume(d) PROVE Goal
    <3>1. waiters # <<>> /\ Head(waiters) = d /\ waiters' = Tail(waiters)
      BY <2>9 DEF Resume, ResumeFetch, ResumeSkip, Lock!AcquireInTurn, Lock!PassTurn, Lock!Turn
    <3>2. pc'[d] # "queued"
      BY <2>9 DEF Resume, ResumeFetch, ResumeSkip, Suspend, Return, TypeOK
    <3>3. n # 1
      BY <2>1, <2>2, <3>1, <3>2
    <3>4. n - 1 \in DOMAIN waiters' /\ waiters'[n - 1] = c
      BY <2>1, <2>2, <3>1, <3>3
    <3> QED  BY <2>2, <2>3, <2>4, <3>4
  <2>10. ASSUME NEW d \in Call, NEW r \in Reply, FetchSucceeds(d, r) \/ FetchFails(d, r)
         PROVE  Goal
    <3>1. waiters' = waiters /\ ~LoadStarts
      BY <2>10 DEF FetchSucceeds, FetchFails, Return, Lock!Release, TypeOK
    <3> QED  BY <2>5, <3>1
  <2>11. ASSUME NEW d \in Call, CancelFetching(d) PROVE Goal
    <3>1. waiters' = waiters /\ ~LoadStarts
      BY <2>11 DEF CancelFetching, Return, Lock!Release, TypeOK
    <3> QED  BY <2>5, <3>1
  <2>12. ASSUME NEW d \in Call, CancelQueued(d) PROVE Goal
    <3>1. PICK i \in DOMAIN waiters :
              /\ waiters[i] = d
              /\ waiters' = SubSeq(waiters, 1, i - 1) \o SubSeq(waiters, i + 1, Len(waiters))
      BY <2>12 DEF CancelQueued, Lock!Leave
    <3>2. ~LoadStarts /\ pc'[d] # "queued"
      BY <2>12 DEF CancelQueued, Return, TypeOK
    <3>3. i # n
      BY <2>1, <3>1, <3>2
    <3>4. /\ DOMAIN waiters' = 1 .. Len(waiters) - 1
          /\ \A j \in 1 .. i - 1 : waiters'[j] = waiters[j]
          /\ \A j \in i .. Len(waiters) - 1 : waiters'[j] = waiters[j + 1]
      BY <2>2, <3>1, RemovingOne
    <3>5. CASE n < i
      <4>1. n \in DOMAIN waiters' /\ waiters'[n] = c
        BY <2>1, <2>2, <3>1, <3>4, <3>5
      <4> QED  BY <2>2, <2>3, <2>4, <3>2, <4>1
    <3>6. CASE n > i
      <4> DEFINE L == Len(waiters)
      <4>1. n - 1 \in i .. L - 1 /\ n - 1 \in 1 .. L - 1 /\ (n - 1) + 1 = n
        <5>1. L \in Nat /\ n \in 1 .. L /\ i \in 1 .. L
          BY <2>2
        <5> HIDE DEF L
        <5> QED  BY <3>6, <5>1
      <4>2. n - 1 \in DOMAIN waiters' /\ waiters'[n - 1] = c
        BY <2>1, <3>4, <4>1
      <4> QED  BY <2>2, <2>3, <2>4, <3>2, <4>2
    <3> QED  BY <2>2, <3>1, <3>3, <3>5, <3>6
  <2>13. ASSUME NEW d \in Call, Finish(d) PROVE Goal
    <3>1. waiters' = waiters /\ ~LoadStarts
      BY <2>13 DEF Finish, lockVars, TypeOK
    <3> QED  BY <2>5, <3>1
  <2>14. CASE Tick
    <3>1. waiters' = waiters /\ ~LoadStarts
      BY <2>14 DEF Tick, lockVars, callVars
    <3> QED  BY <2>5, <3>1
  <2> QED
    BY <2>6, <2>7, <2>8, <2>9, <2>10, <2>11, <2>12, <2>13, <2>14
    DEF Next, Begin, Complete, Cancel
<1> QED  BY <1>1, NobodyIsForgotten, Typing, PTL DEF Spec, WaitIsBounded

-----------------------------------------------------------------------------
(* What one step does to one call *)

\* A step that answers c is one of c's own answering segments.
LEMMA AnsweredBy ==
    ASSUME TypeOK, [Next]_vars, NEW c \in Call, Answered(c)
    PROVE  \/ \E k \in Kid : ServeFresh(c, k) \/ AnswerThrottled(c, k)
           \/ ResumeSkip(c)
           \/ \E r \in Reply : FetchSucceeds(c, r) \/ FetchFails(c, r)
           \/ Cancel(c)
<1> USE DEF TypeOK, Answered
<1>1. ASSUME NEW d \in Call, NEW k \in Kid, ServeFresh(d, k) PROVE c = d
  BY <1>1 DEF ServeFresh, Return
<1>2. ASSUME NEW d \in Call, NEW k \in Kid, AnswerThrottled(d, k) PROVE c = d
  BY <1>2 DEF AnswerThrottled, Return
<1>3. ASSUME NEW d \in Call, NEW k \in Kid, JoinQueue(d, k) \/ StartFetch(d, k) PROVE FALSE
  BY <1>3 DEF JoinQueue, StartFetch, Suspend
<1>4. ASSUME NEW d \in Call, ResumeFetch(d) PROVE FALSE
  BY <1>4 DEF ResumeFetch, Suspend
<1>5. ASSUME NEW d \in Call, ResumeSkip(d) PROVE c = d
  BY <1>5 DEF ResumeSkip, Return
<1>6. ASSUME NEW d \in Call, NEW r \in Reply, FetchSucceeds(d, r) \/ FetchFails(d, r)
      PROVE  c = d
  BY <1>6 DEF FetchSucceeds, FetchFails, Return
<1>7. ASSUME NEW d \in Call, Cancel(d) PROVE c = d
  BY <1>7 DEF Cancel, CancelFetching, CancelQueued, Return
<1>8. ASSUME NEW d \in Call, Finish(d) PROVE FALSE
  BY <1>8 DEF Finish
<1>9. ~Tick /\ ~UNCHANGED vars
  BY DEF Tick, callVars, vars
<1> QED
  BY <1>1, <1>2, <1>3, <1>4, <1>5, <1>6, <1>7, <1>8, <1>9
  DEF Next, Begin, Resume, Complete

\* A step after which c fetches and before which it did not sends c's GET.
LEMMA FetchesBy ==
    ASSUME TypeOK, [Next]_vars, NEW c \in Call,
           pc[c] # "fetching", pc'[c] = "fetching"
    PROVE  (\E k \in Kid : StartFetch(c, k)) \/ ResumeFetch(c)
<1> USE DEF TypeOK
<1>1. ASSUME NEW d \in Call, NEW k \in Kid,
             ServeFresh(d, k) \/ AnswerThrottled(d, k) \/ JoinQueue(d, k)
      PROVE  FALSE
  BY <1>1 DEF ServeFresh, AnswerThrottled, JoinQueue, Return, Suspend
<1>2. ASSUME NEW d \in Call, NEW k \in Kid, StartFetch(d, k) PROVE c = d
  BY <1>2 DEF StartFetch, Suspend
<1>3. ASSUME NEW d \in Call, ResumeFetch(d) PROVE c = d
  BY <1>3 DEF ResumeFetch, Suspend
<1>4. ASSUME NEW d \in Call, ResumeSkip(d) \/ Cancel(d) \/ Finish(d) PROVE FALSE
  BY <1>4 DEF ResumeSkip, Cancel, CancelFetching, CancelQueued, Finish, Return
<1>5. ASSUME NEW d \in Call, NEW r \in Reply, FetchSucceeds(d, r) \/ FetchFails(d, r)
      PROVE  FALSE
  BY <1>5 DEF FetchSucceeds, FetchFails, Return
<1>6. ~Tick /\ ~UNCHANGED vars
  BY DEF Tick, callVars, vars
<1> QED
  BY <1>1, <1>2, <1>3, <1>4, <1>5, <1>6 DEF Next, Begin, Resume, Complete

-----------------------------------------------------------------------------
(* What no step may do *)

\* At most one GET per throttling window, for any number of callers
\* (_may_refetch, checked again under the lock).
THEOREM SourceIsThrottled == Spec => ThrottledSource
<1>1. ASSUME IInv, [Next]_vars
      PROVE  \A c \in Call : pc[c] # "fetching" /\ pc'[c] = "fetching"
                 => quiet >= MinRefetchInterval
  <2> SUFFICES ASSUME NEW c \in Call, pc[c] # "fetching", pc'[c] = "fetching"
               PROVE  quiet >= MinRefetchInterval
    OBVIOUS
  <2>1. (\E k \in Kid : StartFetch(c, k)) \/ ResumeFetch(c)
    BY <1>1, FetchesBy DEF IInv
  <2>2. MayRefetch
    BY <2>1 DEF StartFetch, ResumeFetch, ShouldAttemptFetch
  <2> QED  BY <1>1, <2>2 DEF IInv, AttemptsLeaveTheirMark, MayRefetch
<1> QED  BY <1>1, Inductive, PTL DEF Spec, ThrottledSource

\* An expired key is served only after a refresh that failed or was cancelled.
\* The proof uses ttl >= interval, which __init__ enforces.
THEOREM StaleIsLastResort == Spec => StaleOnlyAfterFailure
<1>1. ASSUME IInv, [Next]_vars
      PROVE  \A c \in Call :
                 Answered(c) /\ result'[c] \in Pem /\ docAge' >= TTL /\ TTL > 0
                     => refresh' \in {"failed", "cancelled"}
  <2> SUFFICES ASSUME NEW c \in Call, Answered(c), result'[c] \in Pem,
                      docAge' >= TTL, TTL > 0
               PROVE  refresh' \in {"failed", "cancelled"}
    OBVIOUS
  <2> USE <1>1, ClientAssumption DEF IInv, TypeOK
  <2>1. ASSUME NEW k \in Kid, ServeFresh(c, k) PROVE FALSE
    BY <2>1 DEF ServeFresh, FreshHit, IsStale, cacheVars
  <2>2. ASSUME ~locked, docAge >= TTL, ~MayRefetch
        PROVE  refresh \in {"failed", "cancelled"}
    BY <2>2 DEF AttemptsLeaveTheirMark, MayRefetch
  <2>3. ASSUME NEW k \in Kid, AnswerThrottled(c, k)
        PROVE  refresh' \in {"failed", "cancelled"}
    BY <2>2, <2>3 DEF AnswerThrottled, ShouldAttemptFetch, IsStale, cacheVars
  <2>4. CASE ResumeSkip(c)
    BY <2>2, <2>4
    DEF ResumeSkip, ShouldAttemptFetch, IsStale, Lock!PassTurn, Lock!Turn, cacheVars
  <2>5. ASSUME NEW r \in Reply, FetchSucceeds(c, r) PROVE FALSE
    BY <2>5 DEF FetchSucceeds
  <2>6. ASSUME NEW r \in Reply, FetchFails(c, r) PROVE refresh' = "failed"
    BY <2>6 DEF FetchFails
  <2>7. CASE Cancel(c)
    <3>1. result'[c] = "cancelled"
      BY <2>7 DEF Cancel, CancelFetching, CancelQueued, Return
    <3> QED  BY <3>1, ResultAssumption DEF Failure
  <2> QED  BY <2>1, <2>3, <2>4, <2>5, <2>6, <2>7, AnsweredBy
<1> QED  BY <1>1, Inductive, PTL DEF Spec, StaleOnlyAfterFailure

\* What an answer says of the cache it leaves: a key is the one the cache has
\* for the kid, a refusal means that it has none, an error is the last error.
LEMMA VerdictType ==
    ASSUME IInv, [Next]_vars, NEW c \in Call, Answered(c)
    PROVE  /\ result'[c] \in Pem \cup Failure
           /\ result'[c] \in Pem =>
                  kid'[c] \in DOMAIN keys' /\ result'[c] = keys'[kid'[c]]
           /\ result'[c] \in {"unknown", "http", "malformed"} =>
                  kid'[c] \notin DOMAIN keys'
           /\ result'[c] \in {"http", "malformed", "bug"} => lastError' = result'[c]
<1> DEFINE Matches(k, ks, err, v) ==
               /\ v \in Pem \cup Failure
               /\ v \in Pem => k \in DOMAIN ks /\ v = ks[k]
               /\ v \in {"unknown", "http", "malformed"} => k \notin DOMAIN ks
               /\ v \in {"http", "malformed", "bug"} => err = v
<1>1. ASSUME NEW ks \in Document, NEW k, NEW err \in {"none", "http", "malformed", "bug"}
      PROVE  Matches(k, ks, err, Classify(k, ks, err))
  <2>1. CASE k \in DOMAIN ks
    BY <2>1, ClassifyType, ResultAssumption DEF Failure
  <2>2. CASE k \notin DOMAIN ks
    BY <2>2, ResultAssumption DEF Classify, Failure
  <2> QED  BY <2>1, <2>2
<1>2. ASSUME NEW ks \in Document, NEW k, NEW err \in {"http", "malformed", "bug"}
      PROVE  Matches(k, ks, err, FallBack(k, ks, err))
  <2>1. CASE k \in DOMAIN ks
    <3>1. ks[k] \in Pem
      BY <2>1, ClassifyType
    <3> QED  BY <2>1, <3>1, ResultAssumption DEF FallBack, Failure
  <2>2. CASE k \notin DOMAIN ks
    BY <2>2, ResultAssumption DEF FallBack, Failure
  <2> QED  BY <2>1, <2>2
<1> SUFFICES Matches(kid'[c], keys', lastError', result'[c])
  OBVIOUS
<1> USE DEF IInv, TypeOK
<1>3. ASSUME NEW k \in Kid, ServeFresh(c, k)
      PROVE  Matches(kid'[c], keys', lastError', result'[c])
  <2>1. k \in DOMAIN keys /\ keys[k] \in Pem
    BY <1>3, ClassifyType DEF ServeFresh, FreshHit
  <2>2. kid'[c] = k /\ keys' = keys /\ result'[c] = keys[k]
    BY <1>3 DEF ServeFresh, Starts, Return, cacheVars
  <2> QED  BY <2>1, <2>2, ResultAssumption DEF Failure
<1>4. ASSUME NEW k \in Kid, AnswerThrottled(c, k)
      PROVE  Matches(kid'[c], keys', lastError', result'[c])
  <2>1. /\ kid'[c] = k /\ keys' = keys /\ lastError' = lastError
        /\ result'[c] = Classify(k, keys, lastError)
    BY <1>4 DEF AnswerThrottled, Starts, Return, cacheVars
  <2> HIDE DEF Matches
  <2> QED  BY <2>1, <1>1
<1>5. CASE ResumeSkip(c)
  <2>1. /\ kid' = kid /\ keys' = keys /\ lastError' = lastError
        /\ result'[c] = Classify(kid[c], keys, lastError)
    BY <1>5 DEF ResumeSkip, Return, cacheVars
  <2> HIDE DEF Matches
  <2> QED  BY <2>1, <1>1
<1>6. ASSUME NEW r \in Reply, FetchSucceeds(c, r)
      PROVE  Matches(kid'[c], keys', lastError', result'[c])
  <2>1. /\ kid' = kid /\ keys' = ParsedKeys(r.entries) /\ lastError' = "none"
        /\ result'[c] = Classify(kid[c], ParsedKeys(r.entries), "none")
    BY <1>6 DEF FetchSucceeds, Return
  <2>2. ParsedKeys(r.entries) \in Document
    BY <1>6, LoadedType DEF FetchSucceeds
  <2> HIDE DEF Matches
  <2> QED  BY <2>1, <2>2, <1>1
<1>7. ASSUME NEW r \in Reply, FetchFails(c, r)
      PROVE  Matches(kid'[c], keys', lastError', result'[c])
  <2>1. /\ kid' = kid /\ keys' = keys /\ lastError' = Outcome(r)
        /\ result'[c] = FallBack(kid[c], keys, Outcome(r))
    BY <1>7 DEF FetchFails, Return
  <2>2. Outcome(r) \in {"http", "malformed", "bug"}
    BY <1>7, FailedType DEF FetchFails
  <2> HIDE DEF Matches
  <2> QED  BY <2>1, <2>2, <1>2
<1>8. CASE Cancel(c)
  <2>1. result'[c] = "cancelled"
    BY <1>8 DEF Cancel, CancelFetching, CancelQueued, Return
  <2> QED  BY <2>1, ResultAssumption DEF Failure
<1> HIDE DEF Matches
<1> QED  BY <1>3, <1>4, <1>5, <1>6, <1>7, <1>8, AnsweredBy

\* A kid the cache holds is never refused, as unknown or for an outage.
THEOREM CachedKeyIsServed == Spec => NoRefusalOfCachedKey
<1>1. ASSUME IInv, [Next]_vars
      PROVE  \A c \in Call :
                 Answered(c) /\ result'[c] \in {"unknown", "http", "malformed"}
                     => kid'[c] \notin DOMAIN keys'
  BY <1>1, VerdictType
<1> QED  BY <1>1, Inductive, PTL DEF Spec, NoRefusalOfCachedKey

\* Nobody is refused as unknown unless the source was asked in this window or
\* has answered just now.
THEOREM RefusalIsChecked == Spec => RefusalIsRecentlyChecked
<1>1. ASSUME IInv, [Next]_vars
      PROVE  \A c \in Call :
                 Answered(c) /\ result'[c] = "unknown"
                     => quiet' < MinRefetchInterval \/ docAge' = 0
  <2> SUFFICES ASSUME NEW c \in Call, Answered(c), result'[c] = "unknown"
               PROVE  quiet' < MinRefetchInterval \/ docAge' = 0
    OBVIOUS
  <2> USE <1>1, ClientAssumption DEF IInv, TypeOK
  <2>1. result'[c] \notin Pem
    BY ResultAssumption DEF Failure
  <2>2. ASSUME NEW k \in Kid, ServeFresh(c, k) PROVE FALSE
    BY <2>1, <2>2, ClassifyType DEF ServeFresh, FreshHit, Return
  <2>3. ~MayRefetch => quiet < MinRefetchInterval
    BY DEF MayRefetch, AttemptsLeaveTheirMark
  <2>4. ASSUME NEW k \in Kid, AnswerThrottled(c, k) PROVE quiet' < MinRefetchInterval
    <3>1. k \notin DOMAIN keys
      BY <2>4, ClassifyType DEF AnswerThrottled, Return
    <3> QED  BY <2>3, <2>4, <3>1 DEF AnswerThrottled, ShouldAttemptFetch, sentVars
  <2>5. CASE ResumeSkip(c)
    <3>1. kid[c] \notin DOMAIN keys
      BY <2>5, ClassifyType DEF ResumeSkip, Return
    <3> QED  BY <2>3, <2>5, <3>1 DEF ResumeSkip, ShouldAttemptFetch, sentVars
  <2>6. ASSUME NEW r \in Reply, FetchSucceeds(c, r) PROVE docAge' = 0
    BY <2>6 DEF FetchSucceeds
  <2>7. ASSUME NEW r \in Reply, FetchFails(c, r) PROVE FALSE
    <3>1. Outcome(r) \in {"http", "malformed", "bug"}
      BY <2>7, FailedType DEF FetchFails
    <3> QED  BY <2>1, <2>7, <3>1, FallBackType DEF FetchFails, Return
  <2>8. CASE Cancel(c)
    BY <2>8 DEF Cancel, CancelFetching, CancelQueued, Return
  <2> QED  BY <2>2, <2>4, <2>5, <2>6, <2>7, <2>8, AnsweredBy
<1> QED  BY <1>1, Inductive, PTL DEF Spec, RefusalIsRecentlyChecked

\* A call the fresh cache cannot answer is not answered past a running load.
THEOREM RunningLoadIsJoined == Spec => JoinsRunningLoad
<1>1. ASSUME IInv, [Next]_vars
      PROVE  \A c, d \in Call :
                 /\ Answered(c) /\ result'[c] # "cancelled"
                 /\ ~(kid'[c] \in DOMAIN keys /\ docAge < TTL)
                 /\ c # d
                 => pc[d] # "fetching"
  <2> SUFFICES ASSUME NEW c \in Call, NEW d \in Call,
                      Answered(c), result'[c] # "cancelled",
                      ~(kid'[c] \in DOMAIN keys /\ docAge < TTL), c # d
               PROVE  pc[d] # "fetching"
    OBVIOUS
  <2> USE <1>1, ClientAssumption DEF IInv, TypeOK, SingleFlight
  <2>1. ASSUME NEW k \in Kid, ServeFresh(c, k) PROVE FALSE
    BY <2>1 DEF ServeFresh, Starts, FreshHit, IsStale
  <2>2. ASSUME NEW k \in Kid, AnswerThrottled(c, k) PROVE pc[d] # "fetching"
    BY <2>2 DEF AnswerThrottled
  <2>3. CASE ResumeSkip(c)
    BY <2>3 DEF ResumeSkip, Lock!PassTurn, Lock!Turn
  <2>4. ASSUME NEW r \in Reply, FetchSucceeds(c, r) \/ FetchFails(c, r)
        PROVE  pc[d] # "fetching"
    BY <2>4 DEF FetchSucceeds, FetchFails
  <2>5. CASE Cancel(c)
    BY <2>5 DEF Cancel, CancelFetching, CancelQueued, Return
  <2> QED  BY <2>1, <2>2, <2>3, <2>4, <2>5, AnsweredBy
<1> QED  BY <1>1, Inductive, PTL DEF Spec, JoinsRunningLoad

\* Before the first document an outage is reported as one, unless the last
\* attempt was cancelled.
THEOREM ColdRefusalIsCancellation == Spec => ColdRefusalOnlyAfterCancel
<1>1. ASSUME IInv, [Next]_vars
      PROVE  \A c \in Call :
                 Answered(c) /\ result'[c] = "unknown" /\ DOMAIN keys' = {}
                     => refresh' = "cancelled"
  <2> SUFFICES ASSUME NEW c \in Call, Answered(c), result'[c] = "unknown",
                      DOMAIN keys' = {}
               PROVE  refresh' = "cancelled"
    OBVIOUS
  <2> USE <1>1, ClientAssumption DEF IInv, TypeOK
  <2>1. ASSUME ~locked, ~MayRefetch, DOMAIN keys = {}, lastError = "none"
        PROVE  refresh = "cancelled"
    BY <2>1 DEF AttemptsLeaveTheirMark, MayRefetch
  <2>2. ASSUME NEW k \in Kid, ServeFresh(c, k) PROVE FALSE
    BY <2>2 DEF ServeFresh, FreshHit, cacheVars
  <2>3. ASSUME NEW k \in Kid, AnswerThrottled(c, k) PROVE refresh' = "cancelled"
    <3>1. Classify(k, keys, lastError) = "unknown" /\ DOMAIN keys = {}
      BY <2>3 DEF AnswerThrottled, Return, cacheVars
    <3>2. lastError = "none"
      BY <3>1, ClassifyType
    <3> QED  BY <2>1, <2>3, <3>1, <3>2 DEF AnswerThrottled, ShouldAttemptFetch
  <2>4. CASE ResumeSkip(c)
    <3>1. Classify(kid[c], keys, lastError) = "unknown" /\ DOMAIN keys = {}
      BY <2>4 DEF ResumeSkip, Return, cacheVars
    <3>2. lastError = "none"
      BY <3>1, ClassifyType
    <3> QED
      BY <2>1, <2>4, <3>1, <3>2 DEF ResumeSkip, ShouldAttemptFetch, Lock!PassTurn, Lock!Turn
  <2>5. ASSUME NEW r \in Reply, FetchSucceeds(c, r) PROVE FALSE
    BY <2>5, LoadedType DEF FetchSucceeds
  <2>6. ASSUME NEW r \in Reply, FetchFails(c, r) PROVE FALSE
    <3>1. Outcome(r) \in {"http", "malformed", "bug"}
      BY <2>6, FailedType DEF FetchFails
    <3>2. "unknown" \notin Pem
      BY ResultAssumption DEF Failure
    <3> QED  BY <2>6, <3>1, <3>2, FallBackType DEF FetchFails, Return
  <2>7. CASE Cancel(c)
    BY <2>7 DEF Cancel, CancelFetching, CancelQueued, Return
  <2> QED  BY <2>2, <2>3, <2>4, <2>5, <2>6, <2>7, AnsweredBy
<1> QED  BY <1>1, Inductive, PTL DEF Spec, ColdRefusalOnlyAfterCancel

-----------------------------------------------------------------------------
(* The client provides the key directory *)

\* How the caller sees a step of one call.
LEMMA CallerSees ==
    ASSUME TypeOK, NEW c \in Call, NEW where, pc' = [pc EXCEPT ![c] = where]
    PROVE  callerPc' = [callerPc EXCEPT ![c] =
               IF where \in {"queued", "fetching"} THEN "waiting" ELSE where]
BY DEF TypeOK, callerPc

\* Answers agree with the directory of the moment, and only a document the
\* source sent replaces it: each segment of get_key is a step of KeyDirectory
\* or invisible in it.
THEOREM ClientProvidesDirectory == Spec => ProvidesDirectory
<1>1. Init => Directory!Init
  BY DEF Init, Directory!Init, callerPc
<1>2. ASSUME TypeOK, [Next]_vars PROVE [Directory!Next]_(Directory!vars)
  <2> USE <1>2 DEF TypeOK
  <2> DEFINE Step == [Directory!Next]_(Directory!vars)
  <2>1. ASSUME NEW c \in Call, NEW k \in Kid, ServeFresh(c, k) PROVE Step
    <3>1. pc[c] = "idle" /\ pc' = [pc EXCEPT ![c] = "returned"]
      BY <2>1 DEF ServeFresh, Starts, Return
    <3>2. callerPc[c] = "idle" /\ callerPc' = [callerPc EXCEPT ![c] = "returned"]
      BY <3>1, CallerSees DEF callerPc
    <3>3. keys[k] # "bug" /\ k \in DOMAIN keys
      BY <2>1, ClassifyType, ResultAssumption DEF ServeFresh, FreshHit, Failure
    <3>4. Directory!AskNow(c, k)
      BY <2>1, <3>2, <3>3
      DEF ServeFresh, Starts, Return, cacheVars, Directory!AskNow, Directory!Answers,
          Directory!Return
    <3> QED  BY <3>4 DEF Directory!Next
  <2>2. ASSUME NEW c \in Call, NEW k \in Kid, AnswerThrottled(c, k) PROVE Step
    <3>1. pc[c] = "idle" /\ pc' = [pc EXCEPT ![c] = "returned"]
      BY <2>2 DEF AnswerThrottled, Starts, Return
    <3>2. callerPc[c] = "idle" /\ callerPc' = [callerPc EXCEPT ![c] = "returned"]
      BY <3>1, CallerSees DEF callerPc
    <3> DEFINE v == Classify(k, keys, lastError)
    <3>3. v \in Directory!Answers(keys, k) \cup {"bug"} /\ (v = "bug" => k \notin DOMAIN keys)
      BY ClassifyType, ResultAssumption DEF Directory!Answers, Failure
    <3>4. Directory!AskNow(c, k)
      BY <2>2, <3>2, <3>3
      DEF AnswerThrottled, Starts, Return, cacheVars, Directory!AskNow, Directory!Return
    <3> QED  BY <3>4 DEF Directory!Next
  <2>3. ASSUME NEW c \in Call, NEW k \in Kid, JoinQueue(c, k) \/ StartFetch(c, k) PROVE Step
    <3>1. PICK where \in {"queued", "fetching"} :
              pc[c] = "idle" /\ pc' = [pc EXCEPT ![c] = where]
      BY <2>3 DEF JoinQueue, StartFetch, Starts, Suspend
    <3>2. callerPc[c] = "idle" /\ callerPc' = [callerPc EXCEPT ![c] = "waiting"]
      BY <3>1, CallerSees DEF callerPc
    <3>3. Directory!Ask(c, k)
      BY <2>3, <3>2 DEF JoinQueue, StartFetch, Starts, Suspend, cacheVars, Directory!Ask
    <3> QED  BY <3>3 DEF Directory!Next
  <2>4. ASSUME NEW c \in Call, ResumeFetch(c) PROVE Step
    <3>1. pc[c] = "queued" /\ pc' = [pc EXCEPT ![c] = "fetching"]
      BY <2>4 DEF ResumeFetch, Suspend
    <3>2. callerPc' = callerPc
      BY <3>1 DEF callerPc
    <3> QED  BY <2>4, <3>2 DEF ResumeFetch, Suspend, cacheVars, Directory!vars
  <2>5. ASSUME NEW c \in Call, ResumeSkip(c) PROVE Step
    <3>1. pc[c] = "queued" /\ pc' = [pc EXCEPT ![c] = "returned"]
      BY <2>5 DEF ResumeSkip, Return
    <3>2. callerPc[c] = "waiting" /\ callerPc' = [callerPc EXCEPT ![c] = "returned"]
      BY <3>1, CallerSees DEF callerPc
    <3>3. Classify(kid[c], keys, lastError) \in Directory!Answers(keys, kid[c]) \cup {"bug"}
      BY ClassifyType DEF Directory!Answers
    <3>4. Directory!Answer(c)
      BY <2>5, <3>2, <3>3
      DEF ResumeSkip, Return, cacheVars, Directory!Answer, Directory!Return
    <3> QED  BY <3>4 DEF Directory!Next, Directory!Conclude
  <2>6. ASSUME NEW c \in Call, NEW r \in Reply, FetchSucceeds(c, r) PROVE Step
    <3>1. pc[c] = "fetching" /\ pc' = [pc EXCEPT ![c] = "returned"]
      BY <2>6 DEF FetchSucceeds, Return
    <3>2. callerPc[c] = "waiting" /\ callerPc' = [callerPc EXCEPT ![c] = "returned"]
      BY <3>1, CallerSees DEF callerPc
    <3>3. keys' = ParsedKeys(r.entries) /\ keys' \in ParsedReplies
      BY <2>6 DEF FetchSucceeds, ParsedReplies
    <3>4. keys' \in Document /\ DOMAIN keys' # {}
      BY <2>6, <3>3, LoadedType DEF FetchSucceeds
    <3>5. Classify(kid[c], keys', "none") \in
              Directory!Answers(keys', kid[c]) \ {"http", "malformed"}
      <4>1. CASE kid[c] \in DOMAIN keys'
        BY <3>4, <4>1, ClassifyType, ResultAssumption DEF Directory!Answers, Failure
      <4>2. CASE kid[c] \notin DOMAIN keys'
        BY <3>4, <4>2 DEF Classify, Directory!Answers
      <4> QED  BY <4>1, <4>2
    <3>6. Directory!Load(c)
      BY <2>6, <3>2, <3>3, <3>5 DEF FetchSucceeds, Return, Directory!Load, Directory!Return
    <3> QED  BY <3>6 DEF Directory!Next, Directory!Conclude
  <2>7. ASSUME NEW c \in Call, NEW r \in Reply, FetchFails(c, r) PROVE Step
    <3>1. pc[c] = "fetching" /\ pc' = [pc EXCEPT ![c] = "returned"]
      BY <2>7 DEF FetchFails, Return
    <3>2. callerPc[c] = "waiting" /\ callerPc' = [callerPc EXCEPT ![c] = "returned"]
      BY <3>1, CallerSees DEF callerPc
    <3>3. Outcome(r) \in {"http", "malformed", "bug"}
      BY <2>7, FailedType DEF FetchFails
    <3>4. FallBack(kid[c], keys, Outcome(r)) \in Directory!Answers(keys, kid[c]) \cup {"bug"}
      BY <3>3, FallBackType DEF Directory!Answers
    <3>5. Directory!Answer(c)
      BY <2>7, <3>2, <3>4 DEF FetchFails, Return, Directory!Answer, Directory!Return
    <3> QED  BY <3>5 DEF Directory!Next, Directory!Conclude
  <2>8. ASSUME NEW c \in Call, Cancel(c) PROVE Step
    <3>1. pc[c] \in {"queued", "fetching"} /\ pc' = [pc EXCEPT ![c] = "returned"]
      BY <2>8 DEF Cancel, CancelFetching, CancelQueued, Return
    <3>2. callerPc[c] = "waiting" /\ callerPc' = [callerPc EXCEPT ![c] = "returned"]
      BY <3>1, CallerSees DEF callerPc
    <3>3. Directory!Abandon(c)
      BY <2>8, <3>2
      DEF Cancel, CancelFetching, CancelQueued, Return, cacheVars, Directory!Abandon,
          Directory!Return
    <3> QED  BY <3>3 DEF Directory!Next, Directory!Conclude
  <2>9. ASSUME NEW c \in Call, Finish(c) PROVE Step
    <3>1. pc[c] = "returned" /\ pc' = [pc EXCEPT ![c] = "idle"]
      BY <2>9 DEF Finish
    <3>2. callerPc[c] = "returned" /\ callerPc' = [callerPc EXCEPT ![c] = "idle"]
      BY <3>1, CallerSees DEF callerPc
    <3>3. Directory!Finish(c)
      BY <2>9, <3>2 DEF Finish, cacheVars, Directory!Finish
    <3> QED  BY <3>3 DEF Directory!Next
  <2>10. CASE Tick \/ UNCHANGED vars
    BY <2>10 DEF Tick, vars, callVars, callerPc, Directory!vars
  <2> QED
    BY <2>1, <2>2, <2>3, <2>4, <2>5, <2>6, <2>7, <2>8, <2>9, <2>10
    DEF Next, Begin, Resume, Complete
<1> QED  BY <1>1, <1>2, Typing, PTL DEF Spec, ProvidesDirectory, Directory!Spec

=============================================================================
