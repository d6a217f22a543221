---------------------------- MODULE JwksReaderProofs ----------------------------
(***************************************************************************)
(* Theorems about JwksReader, for any replies and lists of any length:     *)
(* _fetch, step by step, finds out what JwksDocument says of a reply.      *)
(***************************************************************************)
EXTENDS JwksReader, JwksDocumentProofs

-----------------------------------------------------------------------------
(* The inductive invariant *)

ReaderTypeOK ==
    /\ reply \in Replies
    /\ pc \in {"received", "checking", "reading"} \cup Fate
    /\ next \in 1 .. Len(raw_keys) + 1
    /\ parsed_keys \in Document

\* The entries the comprehension has taken so far.
Taken == {i \in Carriers(raw_keys) : i < next}

\* Until the comprehension begins, nothing has been put into the dictionary.
NothingBuiltEarly ==
    /\ pc = "received" => next = 1
    /\ pc \in {"received", "checking"} => parsed_keys = NoDocument

\* The loop of the checks goes on only past objects.
CheckedSoFar ==
    /\ pc = "checking" => \A i \in DOMAIN raw_keys : i < next => raw_keys[i] # Scalar
    /\ pc = "reading" => \A i \in DOMAIN raw_keys : raw_keys[i] # Scalar
    /\ pc \in {"checking", "reading"} => reply.kind = "keys"

\* The dictionary holds the kids of the entries taken, each with the key of
\* the last of them.
ReadSoFar ==
    pc = "reading" =>
        /\ \A i \in Taken : ~Breaks(raw_keys[i])
        /\ DOMAIN parsed_keys = {raw_keys[i].kid : i \in Taken}
        /\ \A i \in Taken :
               (\A j \in Taken : raw_keys[j].kid = raw_keys[i].kid => j <= i)
                   => parsed_keys[raw_keys[i].kid] = raw_keys[i].key

ReaderInv == /\ ReaderTypeOK
             /\ NothingBuiltEarly
             /\ CheckedSoFar
             /\ ReadSoFar
             /\ ParseIsComprehension

-----------------------------------------------------------------------------
(* Lemmas *)

\* The empty dictionary is a dictionary.
LEMMA EmptyIsDocument == NoDocument \in Document /\ DOMAIN NoDocument = {}
<1>1. NoDocument \in [{} -> Pem] /\ DOMAIN NoDocument = {}
  BY DEF NoDocument
<1> QED  BY <1>1 DEF Document

\* What a reply is, of which the loops look at one entry.
LEMMA ReplyHas ==
    ASSUME ReaderTypeOK
    PROVE  /\ reply.kind \in ReplyKind
           /\ raw_keys \in Seq(Entry) /\ Len(raw_keys) \in Nat
           /\ DOMAIN raw_keys = 1 .. Len(raw_keys)
           /\ \A i \in DOMAIN raw_keys :
                  raw_keys[i] # Scalar => raw_keys[i] \in JwkObject
           /\ next \in Nat
<1>1. reply \in ReplyType
  BY ReaderAssumption DEF ReaderTypeOK
<1>2. reply.kind \in ReplyKind /\ raw_keys \in Seq(Entry)
  BY <1>1 DEF ReplyType, raw_keys
<1>3. \A i \in DOMAIN raw_keys : raw_keys[i] \in Entry
  BY <1>2
<1>4. Len(raw_keys) \in Nat /\ DOMAIN raw_keys = 1 .. Len(raw_keys)
  BY <1>2
<1> QED  BY <1>2, <1>3, <1>4 DEF Entry, ReaderTypeOK

\* When both loops have come to their end, the dictionary is the one
\* JwksDocument describes: the last of the entries taken is the last of all.
LEMMA AllIsTaken ==
    ASSUME ReaderInv, pc = "reading", next \notin DOMAIN raw_keys
    PROVE  /\ Taken = Carriers(raw_keys)
           /\ parsed_keys = ParsedKeys(raw_keys)
<1> USE DEF ReaderInv
<1>1. \A i \in DOMAIN raw_keys : i < next
  BY ReplyHas DEF ReaderTypeOK
<1>2. Taken = Carriers(raw_keys)
  BY <1>1 DEF Taken, Carriers
<1>3. DOMAIN parsed_keys = {raw_keys[i].kid : i \in Carriers(raw_keys)}
  BY <1>2 DEF ReadSoFar
<1>4. ASSUME NEW k \in DOMAIN parsed_keys
      PROVE  parsed_keys[k] = raw_keys[LastOf(raw_keys, k)].key
  <2>1. PICK i \in Carriers(raw_keys) : raw_keys[i].kid = k
    BY <1>3, <1>4
  <2>2. /\ LastOf(raw_keys, k) \in Carriers(raw_keys)
        /\ raw_keys[LastOf(raw_keys, k)].kid = k
        /\ \A j \in Carriers(raw_keys) : raw_keys[j].kid = k => j <= LastOf(raw_keys, k)
    BY <2>1, ReplyHas, LastOfExists
  <2> QED  BY <1>2, <2>2 DEF ReadSoFar
<1>5. parsed_keys = [k \in DOMAIN parsed_keys |-> parsed_keys[k]]
  BY DEF ReaderTypeOK, Document
<1>6. ParsedKeys(raw_keys) = [k \in DOMAIN parsed_keys |-> raw_keys[LastOf(raw_keys, k)].key]
  BY <1>3 DEF ParsedKeys
<1> QED  BY <1>2, <1>4, <1>5, <1>6

\* An entry of the list that stops the comprehension is the first to do so if
\* none before it does.
LEMMA FirstBreakIs ==
    ASSUME NEW s \in Seq(Entry), NEW n \in Carriers(s), Breaks(s[n]),
           \A i \in Carriers(s) : i < n => ~Breaks(s[i])
    PROVE  FirstBreak(s) = n
<1>1. \A i \in Carriers(s) : i \in Nat
  BY DEF Carriers
<1>2. \A j \in Carriers(s) : Breaks(s[j]) => n <= j
  BY <1>1
<1>3. \A i \in Carriers(s) :
          Breaks(s[i]) /\ (\A j \in Carriers(s) : Breaks(s[j]) => i <= j) => i = n
  BY <1>1, <1>2
<1> QED  BY <1>2, <1>3 DEF FirstBreak

-----------------------------------------------------------------------------
(* The steps *)

\* No key is read, and none refused, before the shape of all is known.
LEMMA ReceivedKeeps ==
    ASSUME ReaderInv, RaiseHttp \/ RefuseBody \/ AcceptBody
    PROVE  ReaderInv'
<1> USE DEF ReaderInv
<1>1. UNCHANGED <<reply, next, parsed_keys, raw_keys>> /\ pc = "received"
  BY DEF RaiseHttp, RefuseBody, AcceptBody, End, raw_keys
<1>2. ReaderTypeOK'
  BY <1>1 DEF ReaderTypeOK, RaiseHttp, RefuseBody, AcceptBody, End, Fate
<1>3. pc' \in {"http", "malformed", "checking"}
  BY DEF RaiseHttp, RefuseBody, AcceptBody, End
<1>4. (NothingBuiltEarly /\ ReadSoFar)'
  BY <1>1, <1>3 DEF NothingBuiltEarly, ReadSoFar
<1>5. CheckedSoFar'
  <2>1. pc' = "checking" => reply.kind = "keys"
    BY DEF RaiseHttp, RefuseBody, AcceptBody, End
  <2>2. \A i \in DOMAIN raw_keys : ~ (i < next)
    BY <1>1, ReplyHas DEF NothingBuiltEarly
  <2> QED  BY <1>1, <1>3, <2>1, <2>2 DEF CheckedSoFar
<1>6. ParseIsComprehension'
  BY <1>1 DEF ParseIsComprehension, RaiseHttp, RefuseBody, AcceptBody, End, Outcome, Fate
<1> QED  BY <1>2, <1>4, <1>5, <1>6

\* The loop that checks the shape refuses a list exactly if it holds a scalar.
LEMMA CheckingKeeps ==
    ASSUME ReaderInv, AcceptEntry \/ RefuseEntry \/ BeginReading
    PROVE  ReaderInv'
<1> USE DEF ReaderInv
<1>1. UNCHANGED <<reply, parsed_keys, raw_keys>> /\ pc = "checking"
  BY DEF AcceptEntry, RefuseEntry, BeginReading, InLoop, GoOn, End, raw_keys
<1>2. reply.kind = "keys" /\ parsed_keys = NoDocument
  BY <1>1 DEF CheckedSoFar, NothingBuiltEarly
<1>3. CASE AcceptEntry
  <2>1. pc' = "checking" /\ next' = next + 1 /\ next \in DOMAIN raw_keys
        /\ raw_keys[next] # Scalar
    BY <1>3, <1>1 DEF AcceptEntry, InLoop, GoOn
  <2>2. ReaderTypeOK'
    BY <1>1, <2>1, ReplyHas DEF ReaderTypeOK
  <2>3. \A i \in DOMAIN raw_keys : i < next + 1 => raw_keys[i] # Scalar
    <3>1. \A i \in DOMAIN raw_keys : i < next + 1 => i < next \/ i = next
      BY ReplyHas
    <3> QED  BY <1>1, <2>1, <3>1 DEF CheckedSoFar
  <2> QED  BY <1>1, <1>2, <2>1, <2>2, <2>3
           DEF NothingBuiltEarly, CheckedSoFar, ReadSoFar, ParseIsComprehension, Fate
<1>4. CASE RefuseEntry
  <2>1. pc' = "malformed" /\ next' = next /\ next \in DOMAIN raw_keys
        /\ raw_keys[next] = Scalar
    BY <1>4, <1>1 DEF RefuseEntry, InLoop, End
  <2>2. Outcome(reply) = "malformed"
    BY <1>2, <2>1 DEF Outcome, ParseOutcome, raw_keys
  <2> QED  BY <1>1, <2>1, <2>2
           DEF ReaderTypeOK, NothingBuiltEarly, CheckedSoFar, ReadSoFar, ParseIsComprehension, Fate
<1>5. CASE BeginReading
  <2>1. pc' = "reading" /\ next' = 1 /\ next \notin DOMAIN raw_keys
    BY <1>5 DEF BeginReading
  <2>2. ReaderTypeOK'
    BY <1>1, <2>1, ReplyHas DEF ReaderTypeOK
  <2>3. \A i \in DOMAIN raw_keys : raw_keys[i] # Scalar
    <3>1. \A i \in DOMAIN raw_keys : i < next
      BY <2>1, ReplyHas DEF ReaderTypeOK
    <3> QED  BY <1>1, <3>1 DEF CheckedSoFar
  <2>4. Taken' = {}
    BY <1>1, <2>1, ReplyHas DEF Taken, Carriers
  <2>5. ReadSoFar'
    BY <1>1, <1>2, <2>4, EmptyIsDocument DEF ReadSoFar
  <2> QED  BY <1>1, <1>2, <2>1, <2>2, <2>3, <2>5
           DEF NothingBuiltEarly, CheckedSoFar, ParseIsComprehension, Fate
<1> QED  BY <1>3, <1>4, <1>5

\* One turn of the comprehension that goes on: what is taken grows by the entry
\* looked at, if that has a kid.
LEMMA TakenGrows ==
    ASSUME ReaderTypeOK, next \in DOMAIN raw_keys, next' = next + 1, raw_keys' = raw_keys
    PROVE  Taken' = Taken \cup (IF raw_keys[next].kid = NoKid THEN {} ELSE {next})
<1>1. \A i \in DOMAIN raw_keys : i < next + 1 <=> i < next \/ i = next
  BY ReplyHas
<1> QED  BY <1>1 DEF Taken, Carriers

LEMMA SkipKeeps == ReaderInv /\ SkipEntry => ReaderInv'
<1> SUFFICES ASSUME ReaderInv, SkipEntry PROVE ReaderInv'
  OBVIOUS
<1> USE DEF ReaderInv
<1>1. /\ UNCHANGED <<reply, pc, parsed_keys, raw_keys>> /\ pc = "reading"
      /\ next' = next + 1 /\ next \in DOMAIN raw_keys /\ raw_keys[next].kid = NoKid
  BY DEF SkipEntry, InLoop, GoOn, raw_keys
<1>2. ReaderTypeOK'
  BY <1>1, ReplyHas DEF ReaderTypeOK
<1>3. Taken' = Taken
  BY <1>1, TakenGrows
<1>4. ReadSoFar'
  BY <1>1, <1>3 DEF ReadSoFar
<1> QED  BY <1>1, <1>2, <1>4 DEF NothingBuiltEarly, CheckedSoFar, ParseIsComprehension, Fate

\* The later of two entries of a kid is the one that counts.
LEMMA InsertKeeps == ReaderInv /\ InsertKey => ReaderInv'
<1> SUFFICES ASSUME ReaderInv, InsertKey PROVE ReaderInv'
  OBVIOUS
<1> USE DEF ReaderInv
<1> DEFINE k == raw_keys[next].kid
           p == raw_keys[next].key
<1>1. /\ UNCHANGED <<reply, pc, raw_keys>> /\ pc = "reading"
      /\ next' = next + 1 /\ next \in DOMAIN raw_keys
      /\ k \notin {NoKid, ListKid} /\ p # BadKey
      /\ parsed_keys' = [q \in DOMAIN parsed_keys \cup {k} |->
                            IF q = k THEN p ELSE parsed_keys[q]]
  BY DEF InsertKey, InLoop, GoOn, raw_keys
<1>2. raw_keys[next] \in JwkObject
  BY <1>1, ReplyHas DEF CheckedSoFar
<1>3. k \in Kid \cup {AlienKid} /\ p \in Pem
  BY <1>1, <1>2 DEF JwkObject
<1>4. parsed_keys' \in Document
  <2>1. PICK D \in SUBSET (Kid \cup {AlienKid}) : parsed_keys \in [D -> Pem]
    BY DEF ReaderTypeOK, Document
  <2>2. D \cup {k} \in SUBSET (Kid \cup {AlienKid})
    BY <1>3
  <2>3. parsed_keys' \in [D \cup {k} -> Pem]
    BY <1>1, <1>3, <2>1
  <2> QED  BY <2>2, <2>3 DEF Document
<1>5. ReaderTypeOK'
  BY <1>1, <1>4, ReplyHas DEF ReaderTypeOK
<1>6. Taken' = Taken \cup {next}
  BY <1>1, TakenGrows DEF ReaderInv
<1>7. \A i \in Taken : i < next /\ i \in Nat
  BY ReplyHas DEF Taken, Carriers
<1>8. ~Breaks(raw_keys[next])
  BY <1>1 DEF Breaks
<1>9. ReadSoFar'
  <2> HIDE DEF k, p
  <2>1. \A i \in Taken' : ~Breaks(raw_keys[i])
    BY <1>1, <1>6, <1>8 DEF ReadSoFar
  <2>2. DOMAIN parsed_keys' = {raw_keys[i].kid : i \in Taken'}
    BY <1>1, <1>6 DEF ReadSoFar, k
  <2>3. ASSUME NEW i \in Taken',
               \A j \in Taken' : raw_keys[j].kid = raw_keys[i].kid => j <= i
        PROVE  parsed_keys'[raw_keys[i].kid] = raw_keys[i].key
    <3>1. CASE i = next
      BY <1>1, <3>1 DEF k, p
    <3>2. CASE i # next
      <4>1. i \in Taken /\ raw_keys[i].kid # k
        BY <1>6, <1>7, <2>3, <3>2, ReplyHas DEF k
      <4>2. parsed_keys[raw_keys[i].kid] = raw_keys[i].key
        BY <1>1, <1>6, <2>3, <4>1 DEF ReadSoFar
      <4>3. raw_keys[i].kid \in DOMAIN parsed_keys
        BY <1>1, <4>1 DEF ReadSoFar
      <4> QED  BY <1>1, <4>1, <4>2, <4>3
    <3> QED  BY <3>1, <3>2
  <2> QED  BY <1>1, <2>1, <2>2, <2>3 DEF ReadSoFar
<1> QED  BY <1>1, <1>5, <1>9 DEF NothingBuiltEarly, CheckedSoFar, ParseIsComprehension, Fate

\* The comprehension stops at the first unusable entry, which decides the error.
LEMMA StopKeeps == ReaderInv /\ (RefuseKey \/ RaiseUnhashable) => ReaderInv'
<1> SUFFICES ASSUME ReaderInv, RefuseKey \/ RaiseUnhashable PROVE ReaderInv'
  OBVIOUS
<1> USE DEF ReaderInv
<1>1. /\ UNCHANGED <<reply, next, parsed_keys, raw_keys>> /\ pc = "reading"
      /\ next \in DOMAIN raw_keys /\ raw_keys[next].kid # NoKid
      /\ pc' = (IF raw_keys[next].key = BadKey THEN "malformed" ELSE "bug")
      /\ Breaks(raw_keys[next])
  BY DocumentAssumption DEF RefuseKey, RaiseUnhashable, InLoop, End, raw_keys, Breaks
<1>2. next \in Carriers(raw_keys)
  BY <1>1 DEF Carriers
<1>3. FirstBreak(raw_keys) = next
  BY <1>1, <1>2, ReplyHas, FirstBreakIs DEF ReadSoFar, Taken
<1>4. ~ \E i \in DOMAIN raw_keys : raw_keys[i] = Scalar
  BY <1>1 DEF CheckedSoFar
<1>5. Outcome(reply) = pc'
  BY <1>1, <1>2, <1>3, <1>4 DEF Outcome, ParseOutcome, raw_keys, CheckedSoFar
<1> QED  BY <1>1, <1>5
         DEF ReaderTypeOK, NothingBuiltEarly, CheckedSoFar, ReadSoFar, ParseIsComprehension, Fate

\* A list all of whose entries can be used is a document if it has a kid.
LEMMA ConcludeKeeps == ReaderInv /\ Conclude => ReaderInv'
<1> SUFFICES ASSUME ReaderInv, Conclude PROVE ReaderInv'
  OBVIOUS
<1> USE DEF ReaderInv
<1>1. /\ UNCHANGED <<reply, next, parsed_keys, raw_keys>> /\ pc = "reading"
      /\ next \notin DOMAIN raw_keys
      /\ pc' = (IF DOMAIN parsed_keys = {} THEN "malformed" ELSE "ok")
  BY DEF Conclude, End, raw_keys
<1>2. Taken = Carriers(raw_keys) /\ parsed_keys = ParsedKeys(raw_keys)
  BY <1>1, AllIsTaken
<1>3. /\ ~ \E i \in DOMAIN raw_keys : raw_keys[i] = Scalar
      /\ ~ \E i \in Carriers(raw_keys) : Breaks(raw_keys[i])
      /\ DOMAIN parsed_keys = {} <=> Carriers(raw_keys) = {}
      /\ reply.kind = "keys"
  BY <1>1, <1>2 DEF CheckedSoFar, ReadSoFar
<1>4. Outcome(reply) = pc'
  BY <1>1, <1>3 DEF Outcome, ParseOutcome, raw_keys
<1> QED  BY <1>1, <1>2, <1>4
         DEF ReaderTypeOK, NothingBuiltEarly, CheckedSoFar, ReadSoFar, ParseIsComprehension, Fate

-----------------------------------------------------------------------------
(* The theorems *)

\* At every moment of _fetch, the dictionary under construction is the one of
\* the entries read so far, and nothing has been read unless the shape of the
\* whole list is right (_fetch, the loop and the comprehension).
THEOREM ReaderInductive == Spec => []ReaderInv
<1>1. Init => ReaderInv
  <2> SUFFICES ASSUME Init PROVE ReaderInv
    OBVIOUS
  <2>1. reply \in ReplyType
    BY ReaderAssumption DEF Init
  <2>2. raw_keys \in Seq(Entry)
    BY <2>1 DEF ReplyType, raw_keys
  <2>3. ReaderTypeOK
    BY <2>2, EmptyIsDocument DEF Init, ReaderTypeOK
  <2> QED  BY <2>3 DEF Init, ReaderInv, NothingBuiltEarly, CheckedSoFar, ReadSoFar,
                       ParseIsComprehension, Fate
<1>2. ReaderInv /\ [Next]_vars => ReaderInv'
  <2> SUFFICES ASSUME ReaderInv, [Next]_vars PROVE ReaderInv'
    OBVIOUS
  <2>1. CASE UNCHANGED vars
    BY <2>1 DEF vars, ReaderInv, ReaderTypeOK, NothingBuiltEarly, CheckedSoFar, ReadSoFar,
                Taken, Carriers, raw_keys, ParseIsComprehension
  <2>2. CASE Next
    BY <2>2, ReceivedKeeps, CheckingKeeps, SkipKeeps, InsertKeeps, StopKeeps, ConcludeKeeps
       DEF Next
  <2> QED  BY <2>1, <2>2
<1> QED  BY <1>1, <1>2, PTL DEF Spec

\* _fetch, run entry by entry, ends as JwksDocument says and with the dictionary
\* JwksDocument describes, for every reply and lists of any length.
THEOREM ReaderImplementsParse == Spec => []ParseIsComprehension
<1>1. ReaderInv => ParseIsComprehension
  BY DEF ReaderInv
<1> QED  BY <1>1, ReaderInductive, PTL

\* Only a nonempty dictionary of PEM texts becomes the cache.
THEOREM ReaderYieldsDocument == Spec => []ParsedDocumentIsUsable
<1>1. ReaderInv => ParsedDocumentIsUsable
  <2> SUFFICES ASSUME ReaderInv, pc = "ok" PROVE parsed_keys \in Document \ {NoDocument}
    BY DEF ParsedDocumentIsUsable
  <2>1. Outcome(reply) = "ok" /\ parsed_keys = ParsedKeys(raw_keys)
    BY DEF ReaderInv, ParseIsComprehension, Fate
  <2>2. reply \in ReplyType
    BY ReaderAssumption DEF ReaderInv, ReaderTypeOK
  <2>3. ParseOutcome(raw_keys) = "ok" /\ raw_keys \in Seq(Entry)
    BY <2>1, <2>2, OutcomeType DEF raw_keys, ReplyType
  <2> QED  BY <2>1, <2>3, ParsedKeysType, EmptyIsDocument
<1> QED  BY <1>1, ReaderInductive, PTL

=============================================================================
