----------------------------- MODULE TreeStorage -----------------------------
(***************************************************************************)
(* Several read-write treeTXs of storage/cloudspanner/tree_storage.go over *)
(* the SubtreeData and TreeHeads tables of one tree.  Each transaction is  *)
(* begun (begin, getTreeAndConfig), resolves the newest tree head by       *)
(* timestamp (getLatestRoot, latestSTH), sets nodes (SetMerkleNodes, whose *)
(* loader reads at writeRev-1) and commits (Commit, storeSubtrees: Inserts *)
(* at writeRev) or rolls back.  TreeTX.tla models the goroutines inside one *)
(* transaction; here each call is one step and the transactions interleave. *)
(*                                                                         *)
(* A subtree row holds the set of transactions whose writes it contains.   *)
(* The caller that commits also Inserts the new tree head at writeRev in   *)
(* the same Spanner transaction, stamped by a clock that only moves        *)
(* forward; Spanner applies a transaction's Inserts atomically and aborts  *)
(* it when one of their keys exists.  Spanner's other conflict checks are  *)
(* not assumed, so every interleaving they would forbid is still explored. *)
(*                                                                         *)
(* Readers are treeTXs over a spanner.ReadOnlyTransaction read at a past   *)
(* timestamp (TreeStorageOptions.ReadOnlyStaleness, lines 80-88): they see *)
(* the heads and rows committed at or before it, resolve the newest of     *)
(* those heads and read subtrees at its revision through getSubtree.      *)
(***************************************************************************)
EXTENDS Naturals, FiniteSets

CONSTANTS
    Txns,        \* read-write transactions (model values)
    Readers,     \* read-only snapshot transactions (model values)
    Subtrees,    \* subtree prefixes of the tree
    Absent,      \* what the cache holds for a subtree it has not loaded
    InitRows,    \* subtrees with a row at revision 0, the initial head
    BackendFails \* whether Begin, latestSTH and the flush may fail

VARIABLES
    tx,     \* per transaction: its state, resolved head, writeRev and cache
    heads,  \* TreeHeads rows [rev, ts]
    rows,   \* SubtreeData rows [st, rev, val, ts], ts the commit timestamp
    clock,  \* timestamp of the newest commit
    rd      \* per reader: its state, snapshot timestamp, head and cache

vars == <<tx, heads, rows, clock, rd>>

MaxRev == Cardinality(Txns)
Revs   == 0..MaxRev
Tx0    == [state |-> "idle", res |-> "unresolved", sth |-> 0, wr |-> 0, newest |-> 0,
           buf |-> [s \in Subtrees |-> Absent]]
Rd0    == [state |-> "idle", at |-> 0, res |-> "unresolved", sth |-> 0,
           got |-> [s \in Subtrees |-> Absent]]

RevsOf(hs) == {h.rev : h \in hs}
TopRev(hs) == CHOOSE r \in RevsOf(hs) : \A q \in RevsOf(hs) : q <= r

\* The reference read: the row of s with the highest revision <= rev.
VisibleAt(rs, s, rev) ==
    LET mine == {x \in rs : x.st = s /\ x.rev <= rev}
    IN  IF mine = {} THEN {} ELSE (CHOOSE x \in mine : \A y \in mine : y.rev <= x.rev).val

(***************************************************************************)
(* Plausible bugs in the definitions below (see PROJECT.json "mutants").   *)
(***************************************************************************)
OldestByTimestamp(hs) == {h \in hs : \A g \in hs : h.ts <= g.ts}  \* ORDER BY ... ASC
LoaderRevTwoBack(wr)  == wr - 2                                    \* loader off by one
\* storeSubtrees writes at the read revision instead of t._writeRev.
FlushRowsAtHead(t) ==
    {[st |-> s, rev |-> tx[t].sth, val |-> tx[t].buf[s], ts |-> clock + 1] :
        s \in {x \in Subtrees : tx[t].buf[x] # Absent}}
TooNewInclusive(rRev, rev) == rRev >= rev                            \* skips rev itself

\* latestSTH (lines 102-142): ORDER BY TimestampNanos DESC LIMIT 1; rows
\* with the same timestamp come in an order the model does not fix.
NewestByTimestamp(hs) == {h \in hs : \A g \in hs : g.ts <= h.ts}

\* The revision SetMerkleNodes' loader reads the subtree at (line 477).
LoaderRev(wr) == wr - 1

\* getSubtree (359-407) skips a row whose revision exceeds the one asked for.
TooNew(rRev, rev) == rRev > rev

\* getSubtree over the rows rs: Read returns the rows of s in key order,
\* (TreeID, SubtreeID, Revision DESC), and the scan keeps the first one
\* that is not TooNew; no row gives a nil subtree, the empty set here.
GetSubtree(rs, s, rev) ==
    LET fit == {x \in rs : x.st = s /\ ~TooNew(x.rev, rev)}
    IN  IF fit = {} THEN {} ELSE (CHOOSE x \in fit : \A y \in fit : y.rev <= x.rev).val

\* What a spanner.ReadOnlyTransaction at timestamp T reads: the rows and
\* heads whose commit timestamp is at most T.
AsOf(xs, T) == {x \in xs : x.ts <= T}

\* TreeStorageOptions.ReadOnlyStaleness (lines 80-88): a read-only snapshot
\* reads that far in the past, so at any time no later than now.
SnapshotTimes(now) == 0..now

Init ==
    /\ tx = [t \in Txns |-> Tx0]
    /\ heads = {[rev |-> 0, ts |-> 0]}
    /\ rows = {[st |-> s, rev |-> 0, val |-> {}, ts |-> 0] : s \in InitRows}
    /\ clock = 0
    /\ rd = [r \in Readers |-> Rd0]

\* begin (lines 159-177): getTreeAndConfig and newCache may fail.
Begin(t) ==
    /\ tx[t].state = "idle"
    /\ \E ok \in IF BackendFails THEN BOOLEAN ELSE {TRUE} :
          tx' = [tx EXCEPT ![t].state = IF ok THEN "open" ELSE "failed"]
    /\ UNCHANGED <<heads, rows, clock, rd>>

\* getLatestRoot (181-190) of the first call that needs a revision.
Resolve(t) ==
    /\ tx[t].state = "open" /\ tx[t].res = "unresolved"
    /\ \/ /\ BackendFails
          /\ tx' = [tx EXCEPT ![t].res = "err"]
       \/ \E h \in NewestByTimestamp(heads) :
             tx' = [tx EXCEPT ![t].res = "ok", ![t].sth = h.rev, ![t].wr = h.rev + 1,
                              ![t].newest = TopRev(heads)]
    /\ UNCHANGED <<heads, rows, clock, rd>>

\* SetMerkleNodes (458-484) of one node of subtree s: the cache loads the
\* subtree through getSubtree at writeRev-1 unless it holds it, and records
\* the new hash.  A read-write transaction reads the rows committed so far.
\* A failed load returns an error and changes nothing, like no call.
SetNode(t, s) ==
    /\ tx[t].state = "open" /\ tx[t].res = "ok"
    /\ LET held == tx[t].buf[s]
           base == IF held = Absent THEN GetSubtree(rows, s, LoaderRev(tx[t].wr)) ELSE held
       IN  tx' = [tx EXCEPT ![t].buf[s] = base \cup {t}]
    /\ UNCHANGED <<heads, rows, clock, rd>>

(***************************************************************************)
(* Commit (267-291): flushSubtrees hands every dirty subtree to            *)
(* storeSubtrees, which buffers an Insert at t._writeRev (238-260); the    *)
(* caller adds the new head.  A Marshal or BufferWrite error makes Commit  *)
(* fail and the Spanner transaction abort; an Insert of an existing key    *)
(* aborts it at commit.  Either way nothing is applied, and the treeTX is  *)
(* closed.                                                                  *)
(***************************************************************************)
FlushRows(t) ==
    {[st |-> s, rev |-> tx[t].wr, val |-> tx[t].buf[s], ts |-> clock + 1] :
        s \in {x \in Subtrees : tx[t].buf[x] # Absent}}

InsertConflicts(new, old) == \E x \in new, y \in old : x.st = y.st /\ x.rev = y.rev

Commit(t) ==
    /\ tx[t].state = "open"
    /\ LET resolved == tx[t].res = "ok"
           newHead  == [rev |-> tx[t].wr, ts |-> clock + 1]
           applies  == ~InsertConflicts(FlushRows(t), rows)
                       /\ (resolved => tx[t].wr \notin RevsOf(heads))
       IN  \/ /\ BackendFails /\ FlushRows(t) # {}
              /\ tx' = [tx EXCEPT ![t].state = "aborted"]
              /\ UNCHANGED <<heads, rows, clock, rd>>
           \/ /\ applies
              /\ tx' = [tx EXCEPT ![t].state = "committed"]
              /\ rows' = rows \cup FlushRows(t)
              /\ heads' = IF resolved THEN heads \cup {newHead} ELSE heads
              /\ clock' = IF resolved THEN clock + 1 ELSE clock
              /\ UNCHANGED rd
           \/ /\ ~applies
              /\ tx' = [tx EXCEPT ![t].state = "aborted"]
              /\ UNCHANGED <<heads, rows, clock, rd>>

\* Rollback (296-307): the buffered writes are dropped.
Rollback(t) ==
    /\ tx[t].state = "open"
    /\ tx' = [tx EXCEPT ![t].state = "rolledback"]
    /\ UNCHANGED <<heads, rows, clock, rd>>

(***************************************************************************)
(* A reader: begin over a snapshot at some timestamp no later than now,   *)
(* resolve the newest head it sees (getLatestRoot, latestSTH, in the      *)
(* snapshot) and read subtrees at that head's revision (GetMerkleNodes    *)
(* with ReadRevision, getSubtree; the cache keeps what it loaded).        *)
(***************************************************************************)
ReaderBegin(r) ==
    /\ rd[r].state = "idle"
    /\ \E T \in SnapshotTimes(clock) : rd' = [rd EXCEPT ![r].state = "open", ![r].at = T]
    /\ UNCHANGED <<tx, heads, rows, clock>>

ReaderResolve(r) ==
    /\ rd[r].state = "open" /\ rd[r].res = "unresolved"
    /\ \/ /\ BackendFails
          /\ rd' = [rd EXCEPT ![r].res = "err"]
       \/ \E h \in NewestByTimestamp(AsOf(heads, rd[r].at)) :
             rd' = [rd EXCEPT ![r].res = "ok", ![r].sth = h.rev]
    /\ UNCHANGED <<tx, heads, rows, clock>>

ReaderGet(r, s) ==
    /\ rd[r].state = "open" /\ rd[r].res = "ok" /\ rd[r].got[s] = Absent
    /\ rd' = [rd EXCEPT ![r].got[s] = GetSubtree(AsOf(rows, rd[r].at), s, rd[r].sth)]
    /\ UNCHANGED <<tx, heads, rows, clock>>

Next ==
    \/ \E t \in Txns :
          \/ Begin(t) \/ Resolve(t) \/ Commit(t) \/ Rollback(t)
          \/ \E s \in Subtrees : SetNode(t, s)
    \/ \E r \in Readers :
          \/ ReaderBegin(r) \/ ReaderResolve(r)
          \/ \E s \in Subtrees : ReaderGet(r, s)

Spec == Init /\ [][Next]_vars

-----------------------------------------------------------------------------
(***************************************************************************)
(* Every tree head shows exactly what was committed up to it (spec 8: a    *)
(* fresh transaction reading at writeRev sees the new hash, one reading at *)
(* writeRev-1 does not): the subtree a read at a head's revision returns   *)
(* holds the writes of every transaction committed at or below that       *)
(* revision and of no other.  Two writers that resolved the same head both *)
(* insert at the same writeRev, and a loader reading at the wrong revision *)
(* would drop the writes committed in between.                            *)
(***************************************************************************)
HeadSnapshotsExact ==
    \A h \in heads, s \in Subtrees :
        VisibleAt(rows, s, h.rev) =
            {t \in Txns : tx[t].state = "committed" /\ tx[t].buf[s] # Absent /\ tx[t].wr <= h.rev}

(***************************************************************************)
(* latestSTH, which picks the head with the greatest timestamp, returns    *)
(* the head with the greatest revision: heads are committed in revision    *)
(* order because a writer whose head is not the newest collides with the   *)
(* head at its writeRev.                                                   *)
(***************************************************************************)
LatestSTHIsNewest ==
    \A t \in Txns : tx[t].res = "ok" => tx[t].sth = tx[t].newest

(***************************************************************************)
(* A stale snapshot read is a snapshot read (spec 4.7, 5): what a reader  *)
(* read of a subtree at the head its snapshot showed is what a read at    *)
(* that revision returns now, however many writers committed since its    *)
(* timestamp.  A write at or below a revision a reader already resolved,  *)
(* or a getSubtree that skips the row at the revision asked for, breaks it. *)
(***************************************************************************)
SnapshotReadsRepeatable ==
    \A r \in Readers, s \in Subtrees :
        rd[r].got[s] # Absent => rd[r].got[s] = VisibleAt(rows, s, rd[r].sth)

\* The abstract store: revision r of subtree s is what a read at r returns.
Versioned == INSTANCE VersionedStore WITH
    versions <- [i \in 1..(TopRev(heads) + 1) |-> [s \in Subtrees |-> VisibleAt(rows, s, i - 1)]]

(***************************************************************************)
(* The tree storage implements VersionedStore: every successful Commit     *)
(* adds exactly one revision, the previous one plus its own writes, and   *)
(* the subtrees a read at an existing revision returns never change.       *)
(***************************************************************************)
RefinesVersionedStore == Versioned!Spec
====
