---------------------------- MODULE MC_TreeStorage ----------------------------
(* Model-checking instance of TreeStorage: three read-write transactions   *)
(* and one stale reader over two subtrees, one of which has a row at the  *)
(* initial head.                                                           *)
EXTENDS TreeStorage, TLC

MCSubtrees == {"s1", "s2"}
MCInitRows == {"s1"}
\* The transactions, and the readers, are interchangeable: the properties
\* quantify over all of them.
TxnSymmetry == Permutations(Txns) \cup Permutations(Readers)
====
