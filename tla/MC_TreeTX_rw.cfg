\* A read-write transaction on a tree whose head is at revision 1, shared by
\* two goroutines making two calls each; they read at the read revision, as
\* the log and map servers do.
CONSTANTS
    Callers <- MCCallers
    Subtrees <- MCSubtrees
    Slots <- MCSlots
    Ops <- WriteOps
    InitRows <- RowsS1TwiceS2Once
    NewHash = NewHash
    Empty = Empty
    Absent = Absent
    Err = Err
    NoHead = NoHead
    TxKind = "rw"
    HeadRev = 1
    GetRevs = {1}
    MaxCalls = 2
    BackendFails = TRUE
    Canceled = Canceled
    Cancellable = FALSE
SPECIFICATION Spec
INVARIANT TypeOK
INVARIANT CommitPublishesAtWriteRev
\* The callers make a bounded number of calls and a panic ends the process:
\* both stop the system.
CHECK_DEADLOCK FALSE
