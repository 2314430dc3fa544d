\* A read-only transaction whose callers read at revisions 0 and 1 while
\* the head is at 1: the scan must skip rows newer than the requested revision.
CONSTANTS
    Callers <- MCCallers
    Subtrees <- MCSubtrees
    Slots <- MCSlots
    Ops <- AllOps
    InitRows <- RowsS1TwiceS2Once
    NewHash = NewHash
    Empty = Empty
    Absent = Absent
    Err = Err
    NoHead = NoHead
    TxKind = "ro"
    HeadRev = 1
    GetRevs = {0, 1}
    MaxCalls = 1
    BackendFails = TRUE
    Canceled = Canceled
    Cancellable = FALSE
SPECIFICATION Spec
INVARIANT FetchReturnsLatestVisible
\* The callers make a bounded number of calls and a panic ends the process:
\* both stop the system.
CHECK_DEADLOCK FALSE
