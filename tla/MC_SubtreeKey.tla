---------------------------- MODULE MC_SubtreeKey ----------------------------
(* Paths of up to two bytes over three byte values, prefixes up to 23 bits. *)
EXTENDS SubtreeKey

MCBytes == {0, 1, 255}
====
