------------------------- MODULE MC_PEMSignerFactory -------------------------
(* Model-checking instance of PEMSignerFactory: a specification that can  *)
(* be generated and encoded, one whose key has no DER form and one that   *)
(* names no algorithm; two keys per algorithm; one PEM file on disk.      *)
EXTENDS PEMSignerFactory

MCSpecs     == {[alg |-> a] : a \in {"ecdsa", "noder", "unset"}}
MCKeyIds    == {1, 2}
MCGenAlgs   == {"ecdsa", "noder"}
MCDerAlgs   == {"ecdsa"}
MCPemFiles  == [p \in {"key.pem"} |-> [key |-> [alg |-> "ecdsa", id |-> 3], password |-> "pw"]]
MCPasswords == {"pw", "wrong"}
====
