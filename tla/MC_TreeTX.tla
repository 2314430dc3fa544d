----------------------------- MODULE MC_TreeTX -----------------------------
(* Model-checking instance of TreeTX: two goroutines sharing one treeTX    *)
(* over two subtrees of two nodes each.                                     *)
EXTENDS TreeTX

MCCallers  == {"c1", "c2"}
OneCaller  == {"c1"}
WriteOps   == {"get", "set", "commit", "close"}
GetOps       == {"get"}
GetCloseRevOps == {"get", "close", "readrev"}
SetRevOps    == {"set", "readrev"}
SetCommitOps == {"set", "commit"}
MCSubtrees == {"s1", "s2"}
MCSlots    == {"n1", "n2"}
AllOps     == {"get", "set", "commit", "rollback", "close", "readrev", "writerev"}
LifecycleOps == {"get", "set", "commit", "rollback", "close"}
\* s1 written at revisions 0 and 1, s2 only at 0 (the head is at 1).
RowsS1TwiceS2Once == {<<"s1", 0>>, <<"s1", 1>>, <<"s2", 0>>}
====
