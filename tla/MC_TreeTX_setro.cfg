\* SetMerkleNodes and Commit on a read-only transaction.
CONSTANTS
    Callers <- MCCallers
    Subtrees <- MCSubtrees
    Slots <- MCSlots
    Ops <- SetCommitOps
    InitRows <- RowsS1TwiceS2Once
    NewHash = NewHash
    Empty = Empty
    Absent = Absent
    Err = Err
    NoHead = NoHead
    TxKind = "ro"
    HeadRev = 1
    GetRevs = {1}
    MaxCalls = 1
    BackendFails = FALSE
    Canceled = Canceled
    Cancellable = FALSE
SPECIFICATION Spec
INVARIANT SetOnReadOnlyRejected
\* The callers make a bounded number of calls and a panic ends the process:
\* both stop the system.
CHECK_DEADLOCK FALSE
