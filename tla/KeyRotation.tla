------------------------------- MODULE KeyRotation -------------------------------
(***************************************************************************)
(* JwksClient beside a key source that rotates its keys.  The source       *)
(* publishes one document after the other; a GET is answered with the      *)
(* document published at some moment while it is in flight, and the reply  *)
(* reaches the client later, or never.                                     *)
(*                                                                         *)
(* Which source answers is not this repository's code; the client is that  *)
(* of JwksClient, whose steps are taken as they are.                       *)
(***************************************************************************)
EXTENDS JwksClient

CONSTANTS
    Rotation,   \* the documents the source publishes, in their order
    MaxAge      \* bound: the ages below are counted up to it

ASSUME RotationAssumption ==
    /\ Rotation \in Seq(Reply)
    /\ Rotation # <<>>
    /\ \A v \in DOMAIN Rotation : Outcome(Rotation[v]) = "ok"
    /\ MaxAge \in Nat

VARIABLES
    published,  \* the number of the document the source shows
    wire,       \* the number of the document a GET was answered with, or 0
    asked,      \* history: what was published when the last GET left, or 0
    loaded,     \* history: the number of the document in the cache, or 0
    unseen,     \* history: time since the source last showed each document
    onWire,     \* history: time since each call's GET was answered
    flight      \* history: how long the document in the cache was on the wire

ageVars == <<unseen, onWire, flight>>
sourceVars == <<published, wire, asked, loaded, ageVars>>
rotationVars == <<vars, sourceVars>>

RotationInit ==
    /\ Init
    /\ published = 1
    /\ wire = [c \in Call |-> 0]
    /\ asked = 0
    /\ loaded = 0
    /\ unseen = [v \in DOMAIN Rotation |-> 0]
    /\ onWire = [c \in Call |-> 0]
    /\ flight = 0

\* The kids a token can be signed under once document v is published.
KidsOf(v) == DOMAIN ParsedKeys(Rotation[v].entries)

-----------------------------------------------------------------------------
(* The source *)

Rotate ==
    /\ published < Len(Rotation)
    /\ published' = published + 1
    /\ UNCHANGED <<vars, wire, asked, loaded, ageVars>>

SourceAnswers(c) ==
    /\ pc[c] = "fetching"
    /\ wire[c] = 0
    /\ wire' = [wire EXCEPT ![c] = published]
    /\ UNCHANGED <<vars, published, asked, loaded, ageVars>>

-----------------------------------------------------------------------------
(* The client, step by step *)

\* The steps that neither send a GET nor end one.
RunLocally(c) ==
    /\ \/ \E k \in Kid : ServeFresh(c, k) \/ AnswerThrottled(c, k) \/ JoinQueue(c, k)
       \/ ResumeSkip(c)
       \/ CancelQueued(c)
       \/ Finish(c)
    /\ UNCHANGED sourceVars

LeaveForSource(c) ==
    /\ (\E k \in Kid : StartFetch(c, k)) \/ ResumeFetch(c)
    /\ asked' = published
    /\ UNCHANGED <<published, wire, loaded, ageVars>>

LoadDocument(c) ==
    /\ wire[c] # 0
    /\ FetchSucceeds(c, Rotation[wire[c]])
    /\ loaded' = wire[c]
    /\ wire' = [wire EXCEPT ![c] = 0]
    /\ flight' = onWire[c]
    /\ onWire' = [onWire EXCEPT ![c] = 0]
    /\ UNCHANGED <<published, asked, unseen>>

\* The request or its answer is lost or spoilt on the way, or the caller
\* does not wait for it.
LoseDocument(c) ==
    /\ (\E r \in Reply : FetchFails(c, r)) \/ CancelFetching(c)
    /\ wire' = [wire EXCEPT ![c] = 0]
    /\ onWire' = [onWire EXCEPT ![c] = 0]
    /\ UNCHANGED <<published, asked, loaded, unseen, flight>>

\* Nothing the client measures can grow any older.
ClientAgesFull == docAge = TTL /\ attemptAge = MinRefetchInterval /\ quiet = MinRefetchInterval

RotationTick ==
    /\ Tick \/ (ClientAgesFull /\ UNCHANGED vars)
    /\ unseen' = [v \in DOMAIN Rotation |->
                     IF v < published THEN Older(unseen[v], MaxAge) ELSE unseen[v]]
    /\ onWire' = [c \in Call |->
                     IF wire[c] # 0 THEN Older(onWire[c], MaxAge) ELSE onWire[c]]
    /\ UNCHANGED <<published, wire, asked, loaded, flight>>

RotationNext ==
    \/ Rotate
    \/ \E c \in Call :
          \/ SourceAnswers(c)
          \/ RunLocally(c)
          \/ LeaveForSource(c)
          \/ LoadDocument(c)
          \/ LoseDocument(c)
    \/ RotationTick

RotationSpec == RotationInit /\ [][RotationNext]_rotationVars

\* There is traffic, and not every GET for ever is lost on its way: one that
\* can be answered, or can be loaded, again and again, is in the end.
Connected ==
    /\ Traffic
    /\ \A c \in Call : WF_vars(Resume(c))
    /\ SF_rotationVars(\E c \in Call : SourceAnswers(c))
    /\ SF_rotationVars(\E c \in Call : LoadDocument(c))
    /\ \A c \in Call : WF_rotationVars(LoadDocument(c) \/ LoseDocument(c))

-----------------------------------------------------------------------------
(* Properties *)

RotationTypeOK ==
    /\ TypeOK
    /\ published \in DOMAIN Rotation
    /\ wire \in [Call -> {0} \cup DOMAIN Rotation]
    /\ asked \in {0} \cup DOMAIN Rotation
    /\ loaded \in {0} \cup DOMAIN Rotation
    /\ unseen \in [DOMAIN Rotation -> 0 .. MaxAge]
    /\ onWire \in [Call -> 0 .. MaxAge]
    /\ flight \in 0 .. MaxAge

\* A late reply never undoes a rotation the client has already followed: a
\* withdrawn key does not come back.  Replies are not numbered; it is the
\* lock, held over the whole GET, that keeps them in order.
DirectoryNeverGoesBack == [][loaded' >= loaded]_rotationVars

\* With a good last GET, a token under a published key is refused as unknown
\* only if its key was published after that GET had left, and the GET is of
\* the current window or has answered just now.  It bounds neither the time a
\* GET takes nor the refusals that follow a failed or cancelled one.
NewKeyWaitsOneWindow ==
    [][\A c \in Call :
           /\ Answered(c) /\ result'[c] = "unknown"
           /\ kid'[c] \in KidsOf(published')
           /\ refresh' = "ok"
           => /\ asked' < published'
              /\ quiet' < MinRefetchInterval \/ docAge' = 0]_rotationVars

\* A withdrawn key is honoured for less than one TTL and the time its document
\* was on the wire, counted from when the source stopped showing it: every key
\* that is served, during another GET too, is one the source shows or has shown
\* that recently.  _fetched_at is the time the reply came, not that of its
\* content, hence the second term.  The exception is the fallback to an expired
\* document after a GET that failed or was cancelled (get_key, step 3).
WithdrawnKeyIsDropped ==
    [][\A c \in Call :
           /\ Answered(c) /\ result'[c] \in Pem
           /\ TTL > 0
           /\ docAge' < TTL \/ refresh' \notin {"failed", "cancelled"}
           => \E v \in 1 .. published' :
                  /\ kid'[c] \in KidsOf(v)
                  /\ result'[c] = ParsedKeys(Rotation[v].entries)[kid'[c]]
                  /\ unseen'[v] < TTL + flight']_rotationVars

\* The client ends up with the last document the source has published,
\* whatever kids are asked for, if the source can be reached.
RotationIsFollowed ==
    Connected => (published = Len(Rotation) ~> loaded = Len(Rotation))

-----------------------------------------------------------------------------
(* What the README says and the throttling does not allow *)

\* README: the 401 of an unknown kid with a nonempty, fresh document means
\* that there is no such key and will be none.  So a kid refused at once, on
\* the word of such a document, is not one the source shows at that moment.
RefusedKidIsNotPublished ==
    [][\A c \in Call :
           /\ pc[c] = "idle" /\ Answered(c) /\ result'[c] = "unknown"
           /\ DOMAIN keys # {} /\ docAge < TTL
           => kid'[c] \notin KidsOf(published)]_rotationVars

=============================================================================
