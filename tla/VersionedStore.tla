---------------------------- MODULE VersionedStore ----------------------------
(***************************************************************************)
(* What the tree storage promises its callers (spec 3, 5 and 8): a tree is *)
(* a sequence of revisions.  Revision 0 is the initial one, and each       *)
(* successful read-write transaction appends one revision: the previous    *)
(* one with that transaction's writes added to the subtrees it wrote.  A   *)
(* revision, once there, never changes, so a read at it is a snapshot.     *)
(* TreeStorage.tla is shown to implement this module.                      *)
(***************************************************************************)
EXTENDS Sequences

CONSTANTS
    Txns,     \* read-write transactions
    Subtrees  \* subtree prefixes of the tree

VARIABLE
    versions  \* versions[r + 1]: each subtree at revision r, as the set of
              \* transactions whose writes it holds

Init == versions = << [s \in Subtrees |-> {}] >>

\* Transaction t commits its writes to the subtrees W as the next revision.
CommitRevision(t, W) ==
    LET last == versions[Len(versions)]
    IN  versions' = Append(versions, [s \in Subtrees |-> IF s \in W THEN last[s] \cup {t} ELSE last[s]])

Next == \E t \in Txns, W \in SUBSET Subtrees : CommitRevision(t, W)

Spec == Init /\ [][Next]_versions
====
