------------------------------ MODULE MCJwksReader ------------------------------
(***************************************************************************)
(* An instance of JwksReader for TLC: one reply of each kind without a     *)
(* list, and every list of at most MaxEntries entries.                     *)
(***************************************************************************)
EXTENDS JwksReader, SequencesExt

CONSTANT MaxEntries     \* bound: the length of a list of keys

Unlisted == [kind : ReplyKind \ {"keys"}, entries : {<<>>}]

Listed == [kind : {"keys"}, entries : BoundedSeq(Entry, MaxEntries)]

AllReplies == Unlisted \cup Listed

=============================================================================
