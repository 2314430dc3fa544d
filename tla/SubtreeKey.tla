----------------------------- MODULE SubtreeKey -----------------------------
(***************************************************************************)
(* subtreeKey of storage/cloudspanner/tree_storage.go (lines 351-357): the *)
(* SubtreeID column of the subtree that a NodeID is the root of.  A path   *)
(* is a byte slice: its backing array up to its capacity (buf) and its     *)
(* length; PrefixLenBits counts its significant bits.                      *)
(* The state is the NodeID being keyed, so that every NodeID of the bounded *)
(* domain is a state and the invariants relate it to all the others.      *)
(***************************************************************************)
EXTENDS Naturals, Sequences, SequencesExt

CONSTANTS
    Bytes,     \* byte values a path may hold
    MaxLen,    \* longest path, in bytes
    Misaligned \* the error subtreeKey returns for a non byte-aligned prefix

VARIABLE id

\* storage.NodeID: Path []byte and PrefixLenBits.
NodeIDs == {n \in [buf : BoundedSeq(Bytes, MaxLen), len : 0..MaxLen, plb : 0..(8 * MaxLen + 7)] :
               n.len <= Len(n.buf)}

Path(n) == SubSeq(n.buf, 1, n.len)

\* Mutant: the alignment check of line 353 tests a nibble boundary.
SubtreeKeyNibble(n) ==
    IF n.plb % 4 # 0 THEN Misaligned
    ELSE IF n.plb \div 8 > Len(n.buf) THEN "panic"
    ELSE SubSeq(n.buf, 1, n.plb \div 8)

\* Lines 353-356.  id.Path[:k] panics in Go only when k exceeds the slice's
\* capacity; up to it, it reslices into the backing array.
SubtreeKey(n) ==
    IF n.plb % 8 # 0 THEN Misaligned
    ELSE IF n.plb \div 8 > Len(n.buf) THEN "panic"
    ELSE SubSeq(n.buf, 1, n.plb \div 8)

\* A NodeID as storage builds it: its path holds all its prefix bits.
WellFormed(n) == n.plb <= 8 * n.len

\* The reference: the byte string that is a prefix of the path and holds
\* exactly PrefixLenBits bits, if there is one.
RefKey(n) ==
    LET ks == {k \in Prefixes(Path(n)) : 8 * Len(k) = n.plb}
    IN  IF ks = {} THEN Misaligned ELSE CHOOSE k \in ks : TRUE

Init == id \in NodeIDs
Next == id' \in NodeIDs
Spec == Init /\ [][Next]_id

(***************************************************************************)
(* subtreeKey agrees with the reference on every well-formed NodeID: it    *)
(* fails exactly when the prefix is not byte-aligned and otherwise returns *)
(* the PrefixLenBits/8 leading bytes.                                      *)
(***************************************************************************)
KeyMatchesReference == WellFormed(id) => SubtreeKey(id) = RefKey(id)
====
