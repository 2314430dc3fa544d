\* Two reads of a read-only transaction at revisions 0 and 1.
CONSTANTS
    Callers <- MCCallers
    Subtrees <- MCSubtrees
    Slots <- MCSlots
    Ops <- GetOps
    InitRows <- RowsS1TwiceS2Once
    NewHash = NewHash
    Empty = Empty
    Absent = Absent
    Err = Err
    NoHead = NoHead
    TxKind = "ro"
    HeadRev = 1
    GetRevs = {0, 1}
    MaxCalls = 1
    BackendFails = FALSE
    Canceled = Canceled
    Cancellable = FALSE
SPECIFICATION Spec
INVARIANT ServedAtRevision
\* The callers make a bounded number of calls and a panic ends the process:
\* both stop the system.
CHECK_DEADLOCK FALSE
