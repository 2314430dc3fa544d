---------------------------- MODULE MC_SnapshotTX ----------------------------
(* Model-checking instance of SnapshotTX: three goroutines ending the same *)
(* snapshot transaction.                                                    *)
EXTENDS SnapshotTX

MCCallers == {"c1", "c2", "c3"}
====
