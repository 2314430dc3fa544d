\* A snapshot over a spanner.ReadOnlyTransaction; three goroutines make two
\* calls each of Commit, Rollback or Close.
CONSTANTS
    Callers <- MCCallers
    StxKind = "ro"
    MaxCalls = 2
SPECIFICATION Spec
PROPERTY RefinesTxLifecycle
\* The callers make a bounded number of calls and then stop.
CHECK_DEADLOCK FALSE
