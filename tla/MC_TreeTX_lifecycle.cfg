\* A read-write transaction shared by two goroutines, each making two calls
\* among the reads, writes and the three ways of ending the transaction.
CONSTANTS
    Callers <- MCCallers
    Subtrees <- MCSubtrees
    Slots <- MCSlots
    Ops <- LifecycleOps
    InitRows <- RowsS1TwiceS2Once
    NewHash = NewHash
    Empty = Empty
    Absent = Absent
    Err = Err
    NoHead = NoHead
    TxKind = "rw"
    HeadRev = 1
    GetRevs = {1}
    MaxCalls = 2
    BackendFails = TRUE
    Canceled = Canceled
    Cancellable = FALSE
SPECIFICATION Spec
PROPERTY RefinesTxLifecycle
\* The callers make a bounded number of calls and a panic ends the process:
\* both stop the system.
CHECK_DEADLOCK FALSE
