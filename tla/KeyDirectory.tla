------------------------------ MODULE KeyDirectory ------------------------------
(***************************************************************************)
(* What a caller of JwksClient.get_key may rely on, without the cache, the *)
(* lock, the clock and the network that JwksClient uses to provide it      *)
(* (docstring of get_key, mestory_core/auth/jwks.py).                      *)
(*                                                                         *)
(* There is one directory of keys at a time.  It is replaced as a whole,   *)
(* only by a document the source really sent, and only while a call waits, *)
(* which is then answered from the new directory.  A kid of the directory  *)
(* is never refused as unknown or for an outage; one that is not in it is  *)
(* never given a key.                                                      *)
(***************************************************************************)
CONSTANTS
    Call,       \* callers
    Kid,        \* key identifiers
    NoKid,      \* the kid of a caller that asks for nothing
    Empty,      \* the directory before the first load
    Published   \* the documents the source may send

VARIABLES
    directory,  \* kid -> PEM
    pc,         \* "idle", "waiting" or "returned", for each caller
    kid,        \* the kid it asks for
    result      \* what it got

vars == <<directory, pc, kid, result>>

Init == /\ directory = Empty
        /\ pc = [c \in Call |-> "idle"]
        /\ kid = [c \in Call |-> NoKid]
        /\ result = [c \in Call |-> "pending"]

\* What a directory d entitles a caller for k to.
Answers(d, k) == IF k \in DOMAIN d THEN {d[k]} ELSE {"unknown", "http", "malformed"}

Return(c, verdict) == /\ pc' = [pc EXCEPT ![c] = "returned"]
                      /\ result' = [result EXCEPT ![c] = verdict]

\* An answer at once, without waiting for anybody.
AskNow(c, k) == /\ pc[c] = "idle"
                /\ kid' = [kid EXCEPT ![c] = k]
                /\ \E v \in Answers(directory, k) \cup {"bug"} :
                      /\ v = "bug" => k \notin DOMAIN directory
                      /\ Return(c, v)
                /\ UNCHANGED directory

Ask(c, k) == /\ pc[c] = "idle"
             /\ kid' = [kid EXCEPT ![c] = k]
             /\ pc' = [pc EXCEPT ![c] = "waiting"]
             /\ UNCHANGED <<directory, result>>

\* A programming error in the loading code reaches a waiting caller even if
\* its key is in the directory.
Answer(c) == /\ pc[c] = "waiting"
             /\ \E v \in Answers(directory, kid[c]) \cup {"bug"} : Return(c, v)
             /\ UNCHANGED <<directory, kid>>

Load(c) == /\ pc[c] = "waiting"
           /\ directory' \in Published
           /\ \E v \in Answers(directory', kid[c]) \ {"http", "malformed"} : Return(c, v)
           /\ UNCHANGED kid

Abandon(c) == /\ pc[c] = "waiting"
              /\ Return(c, "cancelled")
              /\ UNCHANGED <<directory, kid>>

Finish(c) == /\ pc[c] = "returned"
             /\ pc' = [pc EXCEPT ![c] = "idle"]
             /\ kid' = [kid EXCEPT ![c] = NoKid]
             /\ result' = [result EXCEPT ![c] = "pending"]
             /\ UNCHANGED directory

Conclude(c) == Answer(c) \/ Load(c) \/ Abandon(c)

Next == \E c \in Call :
            \/ \E k \in Kid : AskNow(c, k) \/ Ask(c, k)
            \/ Conclude(c)
            \/ Finish(c)

Spec == Init /\ [][Next]_vars

\* A caller that waits gets an answer.
FairSpec == Spec /\ \A c \in Call : WF_vars(Conclude(c))

=============================================================================
