----------------------------- MODULE KeyRotationProofs -----------------------------
(***************************************************************************)
(* Theorems about KeyRotation, for any rotation, any number of calls and   *)
(* any way for GETs to be lost.  The client is that of JwksClient: its own *)
(* theorems hold beside a source that rotates, and are used here.          *)
(***************************************************************************)
EXTENDS KeyRotation, JwksClientProofs

(* The numbers the source and the wire carry *)

NumbersOK ==
    /\ published \in DOMAIN Rotation
    /\ wire \in [Call -> {0} \cup DOMAIN Rotation]
    /\ asked \in {0} \cup DOMAIN Rotation
    /\ loaded \in {0} \cup DOMAIN Rotation
    /\ unseen \in [DOMAIN Rotation -> 0 .. MaxAge]
    /\ onWire \in [Call -> 0 .. MaxAge]
    /\ flight \in 0 .. MaxAge

\* A saturated age stays within its limit.
LEMMA OlderType ==
    ASSUME NEW limit \in Nat, NEW age \in 0 .. limit
    PROVE  Older(age, limit) \in 0 .. limit
BY DEF Older

LEMMA Numbers == RotationSpec => []NumbersOK
<1> USE RotationAssumption DEF NumbersOK
<1>1. RotationInit => NumbersOK
  BY DEF RotationInit
<1>2. ASSUME NumbersOK, [RotationNext]_rotationVars PROVE NumbersOK'
  <2> USE <1>2
  <2>1. CASE Rotate
    BY <2>1 DEF Rotate, ageVars
  <2>2. ASSUME NEW c \in Call, SourceAnswers(c) PROVE NumbersOK'
    BY <2>2 DEF SourceAnswers, ageVars
  <2>3. ASSUME NEW c \in Call, RunLocally(c) PROVE NumbersOK'
    BY <2>3 DEF RunLocally, sourceVars, ageVars
  <2>4. ASSUME NEW c \in Call, LeaveForSource(c) PROVE NumbersOK'
    BY <2>4 DEF LeaveForSource, ageVars
  <2>5. ASSUME NEW c \in Call, LoadDocument(c) PROVE NumbersOK'
    BY <2>5 DEF LoadDocument
  <2>6. ASSUME NEW c \in Call, LoseDocument(c) PROVE NumbersOK'
    BY <2>6 DEF LoseDocument
  <2>7. CASE RotationTick
    <3>1. \A v \in DOMAIN Rotation : Older(unseen[v], MaxAge) \in 0 .. MaxAge
      BY OlderType
    <3>2. \A c \in Call : Older(onWire[c], MaxAge) \in 0 .. MaxAge
      BY OlderType
    <3>3. unseen' \in [DOMAIN Rotation -> 0 .. MaxAge] /\ onWire' \in [Call -> 0 .. MaxAge]
      BY <2>7, <3>1, <3>2 DEF RotationTick
    <3> QED  BY <2>7, <3>3 DEF RotationTick
  <2>8. CASE UNCHANGED rotationVars
    BY <2>8 DEF rotationVars, sourceVars, ageVars
  <2> QED  BY <2>1, <2>2, <2>3, <2>4, <2>5, <2>6, <2>7, <2>8 DEF RotationNext
<1> QED  BY <1>1, <1>2, PTL DEF RotationSpec

\* A document on the wire is a reply the client may get.
LEMMA DocumentIsReply ==
    ASSUME NEW v \in DOMAIN Rotation
    PROVE  Rotation[v] \in Reply
BY RotationAssumption

-----------------------------------------------------------------------------
(* The client beside a source that rotates *)

\* Beside a source that rotates, the client does only what JwksClient allows:
\* every theorem about it applies.
THEOREM RotationRunsClient == RotationSpec => Spec
<1>1. RotationInit => Init
  BY DEF RotationInit
<1>2. ASSUME NumbersOK, [RotationNext]_rotationVars PROVE [Next]_vars
  <2> USE <1>2
  <2>1. Rotate => UNCHANGED vars
    BY DEF Rotate
  <2>2. ASSUME NEW c \in Call, SourceAnswers(c) PROVE UNCHANGED vars
    BY <2>2 DEF SourceAnswers
  <2>3. ASSUME NEW c \in Call, RunLocally(c) PROVE Next
    BY <2>3 DEF RunLocally, Next, Begin, Resume, Cancel
  <2>4. ASSUME NEW c \in Call, LeaveForSource(c) PROVE Next
    BY <2>4 DEF LeaveForSource, Next, Begin, Resume
  <2>5. ASSUME NEW c \in Call, LoadDocument(c) PROVE Next
    <3>1. Rotation[wire[c]] \in Reply
      BY <2>5, DocumentIsReply DEF LoadDocument, NumbersOK
    <3> QED  BY <2>5, <3>1 DEF LoadDocument, Next, Complete
  <2>6. ASSUME NEW c \in Call, LoseDocument(c) PROVE Next
    BY <2>6 DEF LoseDocument, Next, Complete, Cancel
  <2>7. RotationTick => [Next]_vars
    BY DEF RotationTick, Next
  <2>8. UNCHANGED rotationVars => UNCHANGED vars
    BY DEF rotationVars
  <2> QED  BY <2>1, <2>2, <2>3, <2>4, <2>5, <2>6, <2>7, <2>8 DEF RotationNext
<1> QED  BY <1>1, <1>2, Numbers, PTL DEF RotationSpec, Spec

\* The types of the client and of the source.
THEOREM RotationTyping == RotationSpec => []RotationTypeOK
<1>1. TypeOK /\ NumbersOK => RotationTypeOK
  BY DEF NumbersOK, RotationTypeOK
<1> QED  BY <1>1, Numbers, RotationRunsClient, Typing, PTL

\* So the directory its callers rely on is provided while the keys rotate.
THEOREM RotationProvidesDirectory == RotationSpec => ProvidesDirectory
BY RotationRunsClient, ClientProvidesDirectory, PTL

-----------------------------------------------------------------------------
(* The order of the documents *)

\* Only the one GET in flight carries a document; it was answered after it
\* left, and so after the document in the cache was published.
WireInOrder ==
    \A c \in Call : wire[c] # 0 =>
        /\ pc[c] = "fetching"
        /\ asked <= wire[c] /\ loaded <= wire[c] /\ wire[c] <= published

\* After a successful load the cache holds a document that was published no
\* earlier than the GET left.
CacheInOrder ==
    refresh = "ok" =>
        /\ loaded # 0
        /\ asked <= loaded

\* The cache holds what the document that was loaded last is parsed to.
CacheIsLoaded ==
    keys = IF loaded = 0 THEN NoDocument ELSE ParsedKeys(Rotation[loaded].entries)

OrderInv ==
    /\ asked <= published /\ loaded <= published
    /\ WireInOrder
    /\ CacheInOrder
    /\ CacheIsLoaded

LEMMA NextOrder ==
    ASSUME IInv, IInv', NumbersOK, OrderInv, [RotationNext]_rotationVars
    PROVE  OrderInv' /\ loaded' >= loaded
<1> USE RotationAssumption DEF IInv, TypeOK, NumbersOK, OrderInv, WireInOrder, CacheInOrder,
            CacheIsLoaded
<1>0. DOMAIN Rotation \subseteq Nat /\ Len(Rotation) \in Nat
  OBVIOUS
<1> DEFINE Good == OrderInv' /\ loaded' >= loaded
<1>1. CASE Rotate
  BY <1>0, <1>1 DEF Rotate, vars
<1>2. ASSUME NEW c \in Call, SourceAnswers(c) PROVE Good
  BY <1>0, <1>2 DEF SourceAnswers, vars
<1>3. ASSUME NEW c \in Call, RunLocally(c) PROVE Good
  <2>1. UNCHANGED <<published, wire, asked, loaded, keys, refresh>>
    BY <1>3 DEF RunLocally, sourceVars, ServeFresh, AnswerThrottled, JoinQueue, ResumeSkip,
                CancelQueued, Finish, cacheVars
  <2>2. \A d \in Call : pc[d] = "fetching" => pc'[d] = "fetching"
    BY <1>3 DEF RunLocally, ServeFresh, AnswerThrottled, JoinQueue, ResumeSkip,
                CancelQueued, Finish, Starts, Return, Suspend
  <2> QED  BY <1>0, <2>1, <2>2
<1>4. ASSUME NEW c \in Call, LeaveForSource(c) PROVE Good
  <2>1. /\ UNCHANGED <<published, wire, loaded, keys>>
        /\ asked' = published /\ refresh' = "running" /\ pc'[c] = "fetching"
        /\ pc[c] # "fetching" /\ \A d \in Call : d # c => pc'[d] = pc[d]
    BY <1>4 DEF LeaveForSource, StartFetch, ResumeFetch, SendGet, cacheVars, Starts, Suspend
  <2>2. \A d \in Call : pc[d] # "fetching"
    <3>1. SingleFlight'
      BY DEF IInv
    <3>2. \A d \in Call : pc'[d] = "fetching" => d = c
      BY <2>1, <3>1, Zenon DEF SingleFlight
    <3> QED  BY <2>1, <3>2
  <2>3. \A d \in Call : wire[d] = 0
    BY <2>2
  <2> QED  BY <1>0, <2>1, <2>3
<1>5. ASSUME NEW c \in Call, LoadDocument(c) PROVE Good
  <2>1. /\ UNCHANGED <<published, asked>> /\ loaded' = wire[c] /\ wire[c] # 0
        /\ wire' = [wire EXCEPT ![c] = 0] /\ pc[c] = "fetching"
        /\ keys' = ParsedKeys(Rotation[wire[c]].entries)
    BY <1>5 DEF LoadDocument, FetchSucceeds
  <2>2. \A d \in Call : wire'[d] = 0
    BY <2>1 DEF SingleFlight
  <2> QED  BY <1>0, <2>1, <2>2
<1>6. ASSUME NEW c \in Call, LoseDocument(c) PROVE Good
  <2>1. /\ UNCHANGED <<published, asked, loaded, keys>> /\ refresh' # "ok"
        /\ wire' = [wire EXCEPT ![c] = 0] /\ \A d \in Call : d # c => pc'[d] = pc[d]
    BY <1>6 DEF LoseDocument, FetchFails, CancelFetching, Return, cacheVars
  <2> QED  BY <1>0, <2>1
<1>7. CASE RotationTick
  BY <1>0, <1>7 DEF RotationTick, Tick, callVars, vars
<1>8. CASE UNCHANGED rotationVars
  BY <1>0, <1>8 DEF rotationVars, sourceVars, vars
<1> QED  BY <1>1, <1>2, <1>3, <1>4, <1>5, <1>6, <1>7, <1>8 DEF RotationNext

LEMMA OrderIsKept == RotationSpec => []OrderInv
<1>1. RotationInit => OrderInv
  <2> USE DEF RotationInit, Init, OrderInv, WireInOrder, CacheInOrder, CacheIsLoaded
  <2> QED  OBVIOUS
<1>2. IInv /\ IInv' /\ NumbersOK /\ OrderInv /\ [RotationNext]_rotationVars => OrderInv'
  BY NextOrder
<1> QED  BY <1>1, <1>2, Numbers, RotationRunsClient, Inductive, PTL DEF RotationSpec

\* A late reply never undoes a rotation: the lock, held over the whole GET,
\* keeps the documents in order (_attempt_fetch).
THEOREM RotationIsNotUndone == RotationSpec => DirectoryNeverGoesBack
<1>1. IInv /\ IInv' /\ NumbersOK /\ OrderInv /\ [RotationNext]_rotationVars
          => [loaded' >= loaded]_rotationVars
  BY NextOrder
<1> QED  BY <1>1, Numbers, OrderIsKept, RotationRunsClient, Inductive, PTL
         DEF RotationSpec, DirectoryNeverGoesBack

\* A published key is refused only in the window of a GET that left before its
\* publication, as that GET answers, or after one that failed or was cancelled.
THEOREM NewKeyIsSoonKnown == RotationSpec => NewKeyWaitsOneWindow
<1> DEFINE Checked == \A c \in Call :
               Answered(c) /\ result'[c] = "unknown"
                   => quiet' < MinRefetchInterval \/ docAge' = 0
           Served == \A c \in Call :
               Answered(c) /\ result'[c] \in {"unknown", "http", "malformed"}
                   => kid'[c] \notin DOMAIN keys'
           Known == \A c \in Call :
               /\ Answered(c) /\ result'[c] = "unknown"
               /\ kid'[c] \in KidsOf(published')
               /\ refresh' = "ok"
               => /\ asked' < published'
                  /\ quiet' < MinRefetchInterval \/ docAge' = 0
<1>1. ASSUME [Checked]_vars, [Served]_vars, NumbersOK', OrderInv' PROVE [Known]_rotationVars
  <2> SUFFICES ASSUME NEW c \in Call, Answered(c), result'[c] = "unknown",
                      kid'[c] \in KidsOf(published'), refresh' = "ok"
               PROVE  asked' < published' /\ (quiet' < MinRefetchInterval \/ docAge' = 0)
    OBVIOUS
  <2>1. ~ UNCHANGED vars
    BY DEF Answered, vars
  <2>2. quiet' < MinRefetchInterval \/ docAge' = 0
    BY <1>1, <2>1
  <2>3. kid'[c] \notin DOMAIN keys'
    BY <1>1, <2>1
  <2>4. /\ asked' <= loaded' /\ loaded' <= published'
        /\ keys' = ParsedKeys(Rotation[loaded'].entries)
    BY <1>1, RotationAssumption DEF OrderInv, CacheInOrder, CacheIsLoaded, NumbersOK
  <2>5. loaded' # published'
    BY <2>3, <2>4 DEF KidsOf
  <2>6. asked' \in Int /\ loaded' \in Int /\ published' \in Int
    BY <1>1, RotationAssumption DEF NumbersOK
  <2> QED  BY <2>2, <2>4, <2>5, <2>6
<1> HIDE DEF Checked, Served, Known
<1>2. RotationSpec => [][Checked]_vars
  BY RotationRunsClient, RefusalIsChecked, PTL DEF Checked, RefusalIsRecentlyChecked
<1>3. RotationSpec => [][Served]_vars
  BY RotationRunsClient, CachedKeyIsServed, PTL DEF Served, NoRefusalOfCachedKey
<1>4. RotationSpec => [][Known]_rotationVars
  BY <1>1, <1>2, <1>3, Numbers, OrderIsKept, PTL DEF RotationSpec
<1> QED  BY <1>4 DEF Known, NewKeyWaitsOneWindow

-----------------------------------------------------------------------------
(* How long ago the source showed what the cache holds *)

\* A document not yet withdrawn has no age; one on the wire was shown when the
\* GET was answered; one in the cache, when it began its flight.
NotYetWithdrawn == \A v \in DOMAIN Rotation : v >= published => unseen[v] = 0

WireAge == \A c \in Call : wire[c] # 0 => unseen[wire[c]] <= onWire[c]

CacheAge == loaded # 0 /\ docAge < TTL => unseen[loaded] <= docAge + flight

AgeInv == NotYetWithdrawn /\ WireAge /\ CacheAge

\* A tick more on both sides keeps their order, at the bound too.
LEMMA OlderKeepsOrder ==
    ASSUME NEW limit \in Nat, NEW a \in 0 .. limit, NEW b \in 0 .. limit, a <= b
    PROVE  Older(a, limit) <= Older(b, limit)
BY DEF Older

\* No step makes a document look younger than it is.
LEMMA NextAge ==
    ASSUME IInv, NumbersOK, OrderInv, AgeInv, [RotationNext]_rotationVars
    PROVE  AgeInv'
<1> USE RotationAssumption, ClientAssumption
    DEF IInv, TypeOK, NumbersOK, AgeInv, NotYetWithdrawn, WireAge, CacheAge
<1>0. DOMAIN Rotation \subseteq Nat
  OBVIOUS
<1>1. CASE Rotate
  BY <1>0, <1>1 DEF Rotate, ageVars, vars
<1>2. ASSUME NEW c \in Call, SourceAnswers(c) PROVE AgeInv'
  <2>1. unseen[published] = 0 /\ onWire[c] \in Nat
    BY <1>0
  <2> QED  BY <1>2, <2>1 DEF SourceAnswers, ageVars, vars
<1>3. ASSUME NEW c \in Call, RunLocally(c) PROVE AgeInv'
  <2>1. UNCHANGED <<sourceVars, docAge>>
    BY <1>3 DEF RunLocally, ServeFresh, AnswerThrottled, JoinQueue, ResumeSkip, CancelQueued,
                Finish, cacheVars
  <2> QED  BY <2>1 DEF sourceVars, ageVars
<1>4. ASSUME NEW c \in Call, LeaveForSource(c) PROVE AgeInv'
  <2>1. UNCHANGED <<published, wire, loaded, ageVars, docAge>>
    BY <1>4 DEF LeaveForSource, StartFetch, ResumeFetch, cacheVars
  <2> QED  BY <2>1 DEF ageVars
<1>5. ASSUME NEW c \in Call, LoadDocument(c) PROVE AgeInv'
  <2>1. /\ UNCHANGED <<published, unseen>> /\ loaded' = wire[c] /\ docAge' = 0
        /\ flight' = onWire[c] /\ wire[c] # 0
        /\ wire' = [wire EXCEPT ![c] = 0] /\ onWire' = [onWire EXCEPT ![c] = 0]
    BY <1>5 DEF LoadDocument, FetchSucceeds
  <2>2. CacheAge'
    BY <2>1
  <2> QED  BY <2>1, <2>2
<1>6. ASSUME NEW c \in Call, LoseDocument(c) PROVE AgeInv'
  <2>1. /\ UNCHANGED <<published, loaded, unseen, flight, docAge>>
        /\ wire' = [wire EXCEPT ![c] = 0] /\ onWire' = [onWire EXCEPT ![c] = 0]
    BY <1>6 DEF LoseDocument, FetchFails, CancelFetching, cacheVars
  <2> QED  BY <2>1
<1>7. CASE RotationTick
  <2>1. UNCHANGED <<published, wire, loaded, flight>>
    BY <1>7 DEF RotationTick
  <2>2. \A v \in DOMAIN Rotation :
            unseen'[v] = IF v < published THEN Older(unseen[v], MaxAge) ELSE unseen[v]
    BY <1>7 DEF RotationTick
  <2>3. \A c \in Call :
            onWire'[c] = IF wire[c] # 0 THEN Older(onWire[c], MaxAge) ELSE onWire[c]
    BY <1>7 DEF RotationTick
  <2>4. NotYetWithdrawn'
    BY <1>0, <2>1, <2>2
  <2>5. WireAge'
    <3> SUFFICES ASSUME NEW c \in Call, wire[c] # 0 PROVE unseen'[wire[c]] <= onWire'[c]
      BY <2>1
    <3>1. /\ wire[c] \in DOMAIN Rotation /\ unseen[wire[c]] \in 0 .. MaxAge
          /\ onWire[c] \in 0 .. MaxAge /\ unseen[wire[c]] <= onWire[c]
      OBVIOUS
    <3>2. Older(unseen[wire[c]], MaxAge) <= Older(onWire[c], MaxAge)
      BY <3>1, OlderKeepsOrder
    <3>3. onWire[c] <= Older(onWire[c], MaxAge)
      BY <3>1 DEF Older
    <3>4. Older(onWire[c], MaxAge) \in Nat
      BY <3>1 DEF Older
    <3> QED  BY <2>2, <2>3, <3>1, <3>2, <3>3, <3>4
  <2>6. CacheAge'
    <3> SUFFICES ASSUME loaded # 0, docAge' < TTL PROVE unseen'[loaded] <= docAge' + flight
      BY <2>1
    <3>1. docAge < TTL /\ docAge' = docAge + 1
      BY <1>7 DEF RotationTick, ClientAgesFull, Tick, Older, vars
    <3>2. loaded \in DOMAIN Rotation /\ unseen[loaded] \in 0 .. MaxAge
      OBVIOUS
    <3>3. Older(unseen[loaded], MaxAge) \in unseen[loaded] .. unseen[loaded] + 1
      BY <3>2 DEF Older
    <3>4. unseen'[loaded] \in unseen[loaded] .. unseen[loaded] + 1
      BY <2>2, <3>2, <3>3
    <3> QED  BY <3>1, <3>2, <3>4
  <2> QED  BY <2>4, <2>5, <2>6
<1>8. CASE UNCHANGED rotationVars
  BY <1>8 DEF rotationVars, sourceVars, ageVars, vars
<1> QED  BY <1>1, <1>2, <1>3, <1>4, <1>5, <1>6, <1>7, <1>8 DEF RotationNext

LEMMA AgeIsKept == RotationSpec => []AgeInv
<1>1. RotationInit => AgeInv
  BY DEF RotationInit, AgeInv, NotYetWithdrawn, WireAge, CacheAge
<1>2. IInv /\ NumbersOK /\ OrderInv /\ AgeInv /\ [RotationNext]_rotationVars => AgeInv'
  BY NextAge
<1> QED  BY <1>1, <1>2, Numbers, OrderIsKept, RotationRunsClient, Inductive, PTL
         DEF RotationSpec

\* A key is served only out of a document the source shows, or stopped showing
\* less than one TTL and the document's time on the wire ago; all but the
\* fallback to an expired document after a failed or cancelled GET.
THEOREM WithdrawalIsFollowed == RotationSpec => WithdrawnKeyIsDropped
<1> DEFINE Current == \A c \in Call :
               Answered(c) /\ result'[c] \in Pem /\ docAge' >= TTL /\ TTL > 0
                   => refresh' \in {"failed", "cancelled"}
           Shown(c) == \E v \in 1 .. published' :
                           /\ kid'[c] \in KidsOf(v)
                           /\ result'[c] = ParsedKeys(Rotation[v].entries)[kid'[c]]
                           /\ unseen'[v] < TTL + flight'
           Dropped == \A c \in Call :
               /\ Answered(c) /\ result'[c] \in Pem
               /\ TTL > 0
               /\ docAge' < TTL \/ refresh' \notin {"failed", "cancelled"}
               => Shown(c)
<1>1. ASSUME IInv, IInv', [Next]_vars, [Current]_vars, NumbersOK', OrderInv', AgeInv'
      PROVE  [Dropped]_rotationVars
  <2> SUFFICES ASSUME NEW c \in Call, Answered(c), result'[c] \in Pem, TTL > 0,
                      docAge' < TTL \/ refresh' \notin {"failed", "cancelled"}
               PROVE  Shown(c)
    OBVIOUS
  <2>1. ~ UNCHANGED vars
    BY DEF Answered, vars
  <2>2. docAge' \in Nat /\ TTL \in Nat /\ docAge' < TTL
    <3>1. docAge' \in 0 .. TTL /\ TTL \in Nat
      BY <1>1, ClientAssumption DEF IInv, TypeOK
    <3> QED  BY <1>1, <2>1, <3>1
  <2>3. kid'[c] \in DOMAIN keys' /\ result'[c] = keys'[kid'[c]]
    BY <1>1, VerdictType
  <2>4. loaded' # 0
    <3>1. DOMAIN NoDocument = {}
      BY DEF NoDocument
    <3> QED  BY <1>1, <2>3, <3>1 DEF OrderInv, CacheIsLoaded
  <2>5. keys' = ParsedKeys(Rotation[loaded'].entries)
    BY <1>1, <2>4 DEF OrderInv, CacheIsLoaded
  <2>6. /\ loaded' \in 1 .. published'
        /\ unseen'[loaded'] \in Nat /\ flight' \in Nat
    <3>1. loaded' \in DOMAIN Rotation /\ published' \in DOMAIN Rotation
      BY <1>1, <2>4 DEF NumbersOK
    <3>2. loaded' \in Nat \ {0} /\ published' \in Nat
      BY <3>1, RotationAssumption
    <3>3. unseen'[loaded'] \in 0 .. MaxAge /\ flight' \in 0 .. MaxAge /\ MaxAge \in Nat
      BY <1>1, <3>1, RotationAssumption DEF NumbersOK
    <3> QED  BY <1>1, <3>2, <3>3 DEF OrderInv
  <2>7. unseen'[loaded'] < TTL + flight'
    <3>1. unseen'[loaded'] <= docAge' + flight'
      BY <1>1, <2>2, <2>4 DEF AgeInv, CacheAge
    <3> QED  BY <2>2, <2>6, <3>1
  <2> QED  BY <2>3, <2>5, <2>6, <2>7 DEF KidsOf
<1> HIDE DEF Current, Dropped
<1>2. RotationSpec => [][Current]_vars
  BY RotationRunsClient, StaleIsLastResort, PTL DEF Current, StaleOnlyAfterFailure
<1>3. RotationSpec => [][Next]_vars
  BY RotationRunsClient, PTL DEF Spec
<1>4. RotationSpec => [][Dropped]_rotationVars
  BY <1>1, <1>2, <1>3, Numbers, OrderIsKept, AgeIsKept, RotationRunsClient, Inductive, PTL
  DEF RotationSpec
<1> QED  BY <1>4 DEF Dropped, WithdrawnKeyIsDropped

=============================================================================
