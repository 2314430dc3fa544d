------------------------------ MODULE SnapshotTX ------------------------------
(***************************************************************************)
(* snapshotTX of storage/cloudspanner/tree_storage.go (lines 494-526): a   *)
(* read-only transaction whose Commit and Rollback are Close.  Close takes *)
(* t.mu, fails with ErrTransactionClosed when t.stx is nil, releases a     *)
(* spanner.ReadOnlyTransaction (other spanRead values are left alone) and *)
(* stores nil.  Several goroutines may call these methods concurrently.    *)
(***************************************************************************)
EXTENDS Naturals

CONSTANTS
    Callers,  \* goroutines that call methods of the same snapshotTX
    StxKind,  \* dynamic type of t.stx: "ro" (spanner.ReadOnlyTransaction) or "other"
    MaxCalls  \* bound on the calls each caller makes

ASSUME StxKind \in {"ro", "other"} /\ MaxCalls \in Nat

VARIABLES
    stx,       \* t.stx: StxKind while open, "nil" once closed
    pc,        \* per caller: "idle", or "lock" while blocked in Lock()
    op,        \* per caller: the method being called
    calls,     \* per caller: number of calls made
    released,  \* how many times stx.Close() released the Spanner snapshot
    outcomes   \* history: [c, op, ret] of every call that returned

vars == <<stx, pc, op, calls, released, outcomes>>

Methods == {"commit", "rollback", "close"}

(***************************************************************************)
(* Plausible bugs in the definitions below (see PROJECT.json "mutants").   *)
(***************************************************************************)
ClosedAfterNoReset(s) == s      \* "t.stx = nil" forgotten

\* Line 523: what t.stx holds after a successful Close.
ClosedAfter(s) == "nil"

Init ==
    /\ stx = StxKind
    /\ pc = [c \in Callers |-> "idle"]
    /\ op = [c \in Callers |-> "none"]
    /\ calls = [c \in Callers |-> 0]
    /\ released = 0
    /\ outcomes = {}

\* Commit (504-507), Rollback (509-511) and Close (513-514) all reach Lock().
Call(c, m) ==
    /\ pc[c] = "idle" /\ calls[c] < MaxCalls
    /\ pc' = [pc EXCEPT ![c] = "lock"]
    /\ op' = [op EXCEPT ![c] = m]
    /\ calls' = [calls EXCEPT ![c] = @ + 1]
    /\ UNCHANGED <<stx, released, outcomes>>

\* Close (513-526) once Lock() returns; its body does not block and the
\* deferred Unlock (515) runs on every return, so the lock is taken and
\* released within the step.
CloseLocked(c) ==
    /\ pc[c] = "lock"
    /\ LET ret == IF stx = "nil" THEN "closed" ELSE "ok" IN
       /\ stx' = IF stx = "nil" THEN stx ELSE ClosedAfter(stx)
       /\ released' = IF stx = "ro" THEN released + 1 ELSE released
       /\ outcomes' = outcomes \cup {[c |-> c, op |-> op[c], ret |-> ret]}
    /\ pc' = [pc EXCEPT ![c] = "idle"]
    /\ op' = [op EXCEPT ![c] = "none"]
    /\ UNCHANGED calls

Next == \E c \in Callers : CloseLocked(c) \/ \E m \in Methods : Call(c, m)

Spec == Init /\ [][Next]_vars

-----------------------------------------------------------------------------
Lifecycle == INSTANCE TxLifecycle WITH
    open              <- stx # "nil",
    results           <- outcomes,
    CommitResults     <- {"ok"},
    ClosedCloseResult <- "closed"

(***************************************************************************)
(* snapshotTX implements TxLifecycle (spec 4.7): the first of the calls    *)
(* closes it and returns nil, and every later Commit, Rollback or Close,   *)
(* Close included, returns ErrTransactionClosed.                           *)
(***************************************************************************)
RefinesTxLifecycle == Lifecycle!Spec
====
