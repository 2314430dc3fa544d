----------------------------- MODULE TxLifecycle -----------------------------
(***************************************************************************)
(* What a storage transaction promises about ending (spec 3 and 4.6-4.7): *)
(* it goes from open to closed exactly once and is never reopened.  Of the *)
(* Commit, Rollback and Close calls made on it, the one that closes it     *)
(* reports the outcome of the work (a Commit may report a failed flush);   *)
(* every Commit or Rollback after it fails with ErrTransactionClosed, and  *)
(* a Close after it reports ClosedCloseResult.  A read or write reports   *)
(* success or a backend error only while the transaction is open, and     *)
(* ErrTransactionClosed once it is closed.                                 *)
(*                                                                         *)
(* A call is one atomic step here.  TreeTX.tla and SnapshotTX.tla are      *)
(* shown to implement this module through a refinement mapping.            *)
(***************************************************************************)
CONSTANTS
    Callers,           \* goroutines that may end the transaction
    CommitResults,     \* what the Commit that closes the transaction may return
    ClosedCloseResult  \* what Close returns once the transaction is closed

EndOps == {"commit", "rollback", "close"}
UseOps == {"get", "set"}

VARIABLES
    open,    \* the transaction has not been closed
    results  \* [c, op, ret] of every call of EndOps or UseOps that returned

vars == <<open, results>>

Init == open = TRUE /\ results = {}

\* The call that finds the transaction open closes it.
Close(c, op) ==
    /\ open
    /\ open' = FALSE
    /\ \E ret \in (IF op = "commit" THEN CommitResults ELSE {"ok"}) :
          results' = results \cup {[c |-> c, op |-> op, ret |-> ret]}

\* A call that finds it closed changes nothing but reports so.
Refuse(c, op) ==
    /\ ~open
    /\ results' = results \cup
          {[c |-> c, op |-> op, ret |-> IF op = "close" THEN ClosedCloseResult ELSE "closed"]}
    /\ UNCHANGED open

\* A read or write returns while the transaction is still open.
Use(c, op) ==
    /\ open
    /\ \E ret \in {"ok", "err"} : results' = results \cup {[c |-> c, op |-> op, ret |-> ret]}
    /\ UNCHANGED open

Next == \E c \in Callers :
           \/ \E op \in EndOps : Close(c, op)
           \/ \E op \in EndOps \cup UseOps : Refuse(c, op)
           \/ \E op \in UseOps : Use(c, op)

Spec == Init /\ [][Next]_vars
====
