--------------------------- MODULE JwksDocumentProofs ---------------------------
(***************************************************************************)
(* Facts about JwksDocument that hold for a reply of any length.           *)
(***************************************************************************)
EXTENDS JwksDocument, WellFoundedInduction, TLAPS

\* A nonempty set of positions of a list has a greatest element: the
\* dictionary always knows which of several entries of one kid is the last.
LEMMA GreatestPosition ==
    ASSUME NEW n \in Nat, NEW S \in SUBSET (1 .. n), S # {}
    PROVE  \E i \in S : \A j \in S : j <= i
<1> DEFINE T == {n - i : i \in S}
<1>1. T \subseteq Nat /\ T # {}
  <2>1. \A i \in S : i \in Nat /\ i <= n
    OBVIOUS
  <2>2. \A i \in S : n - i \in Nat
    BY <2>1
  <2> QED  BY <2>2
<1>2. PICK x \in T : \A y \in T : ~ (<<y, x>> \in OpToRel(<, Nat))
  <2> HIDE DEF T
  <2> QED  BY <1>1, NatLessThanWellFounded, WFMin
<1>3. PICK i \in S : x = n - i
  BY <1>2
<1>4. ASSUME NEW j \in S PROVE j <= i
  <2>1. n - j \in T /\ n - j \in Nat /\ x \in Nat
    BY <1>1, <1>2
  <2>2. ~ (n - j < x)
    BY <1>2, <2>1 DEF OpToRel
  <2> QED  BY <2>2, <1>3
<1> QED  BY <1>4

\* The kid of an entry that takes part in the dictionary has a last entry.
LEMMA LastOfExists ==
    ASSUME NEW s \in Seq(Entry), NEW i \in Carriers(s)
    PROVE  /\ LastOf(s, s[i].kid) \in Carriers(s)
           /\ s[LastOf(s, s[i].kid)].kid = s[i].kid
           /\ \A j \in Carriers(s) : s[j].kid = s[i].kid => j <= LastOf(s, s[i].kid)
<1> DEFINE S == {j \in Carriers(s) : s[j].kid = s[i].kid}
<1>1. S \in SUBSET (1 .. Len(s)) /\ S # {} /\ Len(s) \in Nat
  BY DEF Carriers
<1>2. PICK m \in S : \A j \in S : j <= m
  BY <1>1, GreatestPosition
<1> QED  BY <1>2 DEF LastOf

\* _fetch puts into the cache a nonempty dictionary from kids of the document
\* to PEM texts, or nothing: no reply, however long, makes the cache hold
\* something else (_fetch, the comprehension and the check that closes it).
THEOREM ParsedKeysType ==
    ASSUME NEW s \in Seq(Entry), ParseOutcome(s) = "ok"
    PROVE  ParsedKeys(s) \in Document /\ DOMAIN ParsedKeys(s) # {}
<1> DEFINE K == {s[i].kid : i \in Carriers(s)}
<1>1. /\ \A i \in DOMAIN s : s[i] \in JwkObject
      /\ \A i \in Carriers(s) : ~Breaks(s[i])
      /\ Carriers(s) # {}
  <2>1. \A i \in DOMAIN s : s[i] \in Entry
    OBVIOUS
  <2>2. ~ \E i \in DOMAIN s : s[i] = Scalar
    BY DEF ParseOutcome
  <2>3. ~ \E i \in Carriers(s) : Breaks(s[i])
    BY <2>2 DEF ParseOutcome
  <2>4. Carriers(s) # {}
    BY <2>2, <2>3 DEF ParseOutcome
  <2> QED  BY <2>1, <2>2, <2>3, <2>4 DEF Entry
<1>2. \A i \in Carriers(s) : s[i].kid \in Kid \cup {AlienKid} /\ s[i].key \in Pem
  BY <1>1 DEF Carriers, Breaks, JwkObject
<1>3. K \in SUBSET (Kid \cup {AlienKid}) /\ K # {}
  BY <1>1, <1>2
<1>4. \A k \in K : s[LastOf(s, k)].key \in Pem
  BY <1>2, LastOfExists
<1>5. ParsedKeys(s) \in [K -> Pem]
  BY <1>4 DEF ParsedKeys
<1> QED  BY <1>3, <1>5 DEF Document, ParsedKeys

\* A list refused for one of its entries stays refused whatever entry follows
\* (_fetch: the shape loop and the comprehension read the list from the left and
\* stop at the first unusable entry).
THEOREM RefusalOutlivesEntries ==
    ASSUME NEW s \in Seq(Entry), NEW e \in Entry, ParseOutcome(s) # "ok",
           (\E i \in DOMAIN s : s[i] = Scalar) \/ Carriers(s) # {}
    PROVE  ParseOutcome(Append(s, e)) # "ok"
<1> DEFINE t == Append(s, e)
<1>1. \A i \in DOMAIN s : i \in DOMAIN t /\ t[i] = s[i]
  OBVIOUS
<1>2. \A i \in Carriers(s) : i \in Carriers(t) /\ t[i] = s[i]
  BY <1>1 DEF Carriers
<1> HIDE DEF t
<1>3. CASE \E i \in DOMAIN s : s[i] = Scalar
  BY <1>1, <1>3 DEF ParseOutcome, t
<1>4. CASE ~ \E i \in DOMAIN s : s[i] = Scalar
  <2>1. PICK i \in Carriers(s) : Breaks(s[i])
    BY <1>4 DEF ParseOutcome
  <2>2. \E j \in Carriers(t) : Breaks(t[j])
    BY <1>2, <2>1
  <2> QED  BY <2>2 DEF ParseOutcome, t
<1> QED  BY <1>3, <1>4

\* A reply meets one of four fates, and one that is parsed is a list of keys.
LEMMA OutcomeType ==
    ASSUME NEW r \in ReplyType
    PROVE  /\ Outcome(r) \in {"ok", "http", "malformed", "bug"}
           /\ Outcome(r) = "ok" => ParseOutcome(r.entries) = "ok"
BY DEF Outcome, ParseOutcome, ReplyType, ReplyKind

=============================================================================
