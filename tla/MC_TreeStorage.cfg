\* Three read-write transactions and a stale reader on a tree whose head
\* is at revision 0, with failing backend calls; every transaction ends and
\* every reader reads each subtree once, so the system stops.
CONSTANTS
    Txns = {t1, t2, t3}
    Readers = {r1}
    Subtrees <- MCSubtrees
    InitRows <- MCInitRows
    Absent = Absent
    BackendFails = TRUE
SYMMETRY TxnSymmetry
SPECIFICATION Spec
INVARIANT HeadSnapshotsExact
INVARIANT LatestSTHIsNewest
INVARIANT SnapshotReadsRepeatable
PROPERTY RefinesVersionedStore
CHECK_DEADLOCK FALSE
