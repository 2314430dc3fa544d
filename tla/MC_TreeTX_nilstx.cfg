\* A single goroutine reads two subtrees and then closes the transaction, as
\* a deferred Close does after an error, and then asks for ReadRevision;
\* Spanner reads may fail.
CONSTANTS
    Callers <- OneCaller
    Subtrees <- MCSubtrees
    Slots <- MCSlots
    Ops <- GetCloseRevOps
    InitRows <- RowsS1TwiceS2Once
    NewHash = NewHash
    Empty = Empty
    Absent = Absent
    Err = Err
    NoHead = NoHead
    TxKind = "rw"
    HeadRev = 1
    GetRevs = {1}
    MaxCalls = 2
    BackendFails = TRUE
    Canceled = Canceled
    Cancellable = FALSE
SPECIFICATION Spec
INVARIANT NoNilStxDeref
\* The callers make a bounded number of calls and a panic ends the process:
\* both stop the system.
CHECK_DEADLOCK FALSE
