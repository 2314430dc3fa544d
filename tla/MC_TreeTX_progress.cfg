\* Every method of a read-write transaction, one call per goroutine, with
\* failing reads and cancellable request contexts: checks
\* that calls return and fetch goroutines exit.
CONSTANTS
    Callers <- MCCallers
    Subtrees <- MCSubtrees
    Slots <- MCSlots
    Ops <- AllOps
    InitRows <- RowsS1TwiceS2Once
    NewHash = NewHash
    Empty = Empty
    Absent = Absent
    Err = Err
    NoHead = NoHead
    TxKind = "rw"
    HeadRev = 1
    GetRevs = {1}
    MaxCalls = 1
    BackendFails = TRUE
    Canceled = Canceled
    Cancellable = TRUE
SPECIFICATION Spec
PROPERTY Progress
\* The callers make a bounded number of calls and a panic ends the process:
\* both stop the system; Progress checks that nothing stops before that.
CHECK_DEADLOCK FALSE
