------------------------------ MODULE TreeTX ------------------------------
(***************************************************************************)
(* One treeTX of storage/cloudspanner/tree_storage.go, shared by several   *)
(* goroutines (Callers), over the SubtreeData rows of one tree.            *)
(*                                                                         *)
(* A NodeID is abstracted to the subtree that owns it (subtreeKey is       *)
(* modelled in SubtreeKey.tla) plus a slot inside that subtree; a subtree  *)
(* blob is a function from slots to hashes.  A row written at revision r  *)
(* by an earlier transaction holds the hash r in every slot, so a read     *)
(* tells which revision it came from.                                      *)
(***************************************************************************)
EXTENDS Naturals, FiniteSets, Sequences, SequencesExt

CONSTANTS
    Callers,      \* goroutines that call methods of the same treeTX
    Subtrees,     \* subtree prefixes of the tree
    Slots,        \* node positions inside one subtree
    NewHash,      \* the hash SetMerkleNodes stores
    Empty,        \* the hash of a node of a never-written subtree
    Absent,       \* what the cache holds for a subtree it has not loaded
    Err,          \* an error returned by a Spanner read
    NoHead,       \* latestSTH found no row in TreeHeads
    TxKind,       \* dynamic type of t.stx: "ro" or "rw"
    HeadRev,         \* revision of the newest tree head, or NoHead
    InitRows,     \* <<subtree, revision>> of the SubtreeData rows at the start
    GetRevs,      \* revisions callers pass to GetMerkleNodes
    Ops,          \* methods the callers invoke
    MaxCalls,     \* bound on the calls each caller makes
    BackendFails, \* whether a Spanner read or the flush may fail
    Canceled,     \* the error of a Spanner call made with a cancelled context
    Cancellable   \* whether a caller's context may be cancelled

ASSUME TxKind \in {"ro", "rw"}
ASSUME MaxCalls \in Nat /\ BackendFails \in BOOLEAN /\ Cancellable \in BOOLEAN
\* Rows are written together with their tree head: none is newer than it.
ASSUME \A p \in InitRows : p[1] \in Subtrees /\ HeadRev \in Nat /\ p[2] \in 0..HeadRev

VARIABLES
    stx,        \* t.stx: TxKind while open, "nil" after Commit/Rollback
    readers,    \* t.mu: goroutines holding the read lock
    waiting,    \* t.mu: goroutines blocked in Lock()
    once,       \* t.getLatestRootOnce: "idle", "running" or "done"
    onceRunner, \* the goroutine executing the once function
    sthRev,     \* t._currentSTH.TreeRevision, or NoHead
    sthErr,     \* t._currentSTHErr: "none", "needsInit" or "err"
    writeRev,   \* t._writeRev
    cache,      \* t.cache: subtree -> blob, or Absent
    dirty,      \* subtrees the cache will hand to Flush
    head,       \* revision of the newest TreeHeads row, or NoHead
    store,      \* SubtreeData rows [st, rev, val]
    store0,     \* SubtreeData as it was when the transaction began
    pc,         \* per caller: "idle" or the step it is blocked at
    arg,        \* per caller: arguments and locals of the current call
    calls,      \* per caller: number of calls made
    fetch,      \* fetch goroutines spawned by GetMerkleNodes
    chan,       \* per GetMerkleNodes call: its c and errc channels
    crashed,    \* "no", or the cause of a panic that ended the process
    outcomes,   \* history: what every call returned
    served,     \* history: [st, rev, val] returned by GetMerkleNodes
    written,    \* history: <<st, slot>> set by a successful SetMerkleNodes
    ctx         \* per caller: its request context, "live" or "cancelled"

vars == <<stx, readers, waiting, once, onceRunner, sthRev, sthErr, writeRev,
          cache, dirty, head, store, store0, pc, arg, calls, fetch, chan,
          crashed, outcomes, served, written, ctx>>
txVars   == <<stx, once, onceRunner, sthRev, sthErr, writeRev, head, store0>>
histVars == <<outcomes, served, written>>

Revs        == 0..(MaxCalls + 3)
Blob        == [Slots -> Revs \cup {NewHash, Empty}]
EmptyBlob   == [n \in Slots |-> Empty]
Row(s, r)   == [st |-> s, rev |-> r, val |-> [n \in Slots |-> r]]
FetchIds    == Callers \X (1..MaxCalls) \X Subtrees
CallIds     == Callers \X (1..MaxCalls)
Arg0        == [op |-> "none", ids |-> {}, rev |-> 0, st |-> "none",
                slot |-> "none", missing |-> {}, recv |-> 0, acc |-> {}]

(***************************************************************************)
(* Plausible bugs in the definitions below; each one breaks a property     *)
(* the runs check (see PROJECT.json "mutants").                            *)
(***************************************************************************)
TooNewInclusive(rRev, rev) == rRev >= rev        \* skips the row at rev itself
TooNewNever(rRev, rev)     == FALSE              \* the skip of newer rows dropped
ChanCapUnbuffered(n)       == 0                  \* make(chan ...) without len(ids)
WriteRevSame(r)            == r                  \* "+ 1" forgotten
WriteRevBehind(r)          == r - 2              \* revision arithmetic off by two
LockFreeIgnoringReaders    == TRUE               \* Commit/Rollback take only RLock
CloseResultRaw(rb)         == rb                 \* Close forwards ErrTransactionClosed
\* A cache merge that stores every fetched subtree, loaded meanwhile or not.
CacheMergeOverwrite(cch, acc) ==
    [s \in Subtrees |-> IF \E a \in acc : a[1] = s THEN (CHOOSE a \in acc : a[1] = s)[2] ELSE cch[s]]

(***************************************************************************)
(* getSubtree (lines 362-407): a prefix read of (treeID, stID) returns    *)
(* the rows of the subtree in key order; the scan skips rows newer than    *)
(* rev and stops at the first other one.  A missing row yields nil, which  *)
(* the cache turns into an empty subtree.                                  *)
(***************************************************************************)
TooNew(rRev, rev) == rRev > rev

\* The primary key of SubtreeData, (TreeID, SubtreeID, Revision DESC),
\* returns the revisions of one subtree newest first.
KeyOrder(a, b) == a > b

RowRevs(rows, s) == SetToSortSeq({r.rev : r \in {x \in rows : x.st = s}}, KeyOrder)

GetSubtree(rows, rev, s) ==
    LET revs == RowRevs(rows, s)
        i    == SelectInSeq(revs, LAMBDA r : ~TooNew(r, rev))
    IN  IF i = 0 THEN EmptyBlob
        ELSE (CHOOSE x \in rows : x.st = s /\ x.rev = revs[i]).val

\* What one Spanner read of a subtree can produce; a read made with a
\* cancelled context fails.
ReadOutcomes(live, rev, s) ==
    IF ~live THEN {Err}
    ELSE {GetSubtree(store, rev, s)} \cup (IF BackendFails THEN {Err} ELSE {})

\* The reference: the blob of the highest revision <= rev.
VisibleAt(rows, s, rev) ==
    LET mine == {x \in rows : x.st = s /\ x.rev <= rev}
    IN  IF mine = {} THEN EmptyBlob
        ELSE (CHOOSE x \in mine : \A y \in mine : y.rev <= x.rev).val

\* make(chan ..., len(ids)) for both channels (lines 422, 426).
ChanCap(n) == n

\* latestSTH (lines 102-142) and the assignment of getLatestRoot (185).
WriteRevOf(r) == r + 1

\* The loader SetMerkleNodes gives the cache reads at writeRev-1 (line 477).
LoaderRev(wr) == wr - 1

\* Close (lines 309-317) hides the ErrTransactionClosed of a lost race.
CloseResult(rb) == IF rb # "ok" /\ rb # "closed" THEN rb ELSE "ok"

Alive       == crashed = "no"
RLockFree   == waiting = {}          \* RWMutex: a blocked writer stops new readers
LockFree    == readers = {}
ReceiverWaiting(ch) == pc[ch[1]] = "g_collect" /\ calls[ch[1]] = ch[2]

Invoke(c, op) ==
    /\ Alive /\ pc[c] = "idle" /\ calls[c] < MaxCalls /\ op \in Ops
    /\ calls' = [calls EXCEPT ![c] = @ + 1]

\* A call returns: the caller is idle again and its locals are gone.
Return(c, op, ret) ==
    /\ pc' = [pc EXCEPT ![c] = "idle"]
    /\ arg' = [arg EXCEPT ![c] = Arg0]
    /\ outcomes' = outcomes \cup {[c |-> c, op |-> op, ret |-> ret]}

Init ==
    /\ head = HeadRev
    /\ store = {Row(p[1], p[2]) : p \in InitRows}
    /\ store0 = store
    /\ stx = TxKind
    /\ readers = {} /\ waiting = {}
    /\ once = "idle" /\ onceRunner = "none"
    /\ sthRev = NoHead /\ sthErr = "none" /\ writeRev = 0
    /\ cache = [s \in Subtrees |-> Absent] /\ dirty = {}
    /\ pc = [c \in Callers |-> "idle"]
    /\ arg = [c \in Callers |-> Arg0]
    /\ calls = [c \in Callers |-> 0]
    /\ fetch = [f \in FetchIds |-> [state |-> "none", rev |-> 0, res |-> Err]]
    /\ chan = [ch \in CallIds |-> [ok |-> {}, err |-> 0, cap |-> 0, rev |-> 0]]
    /\ crashed = "no"
    /\ outcomes = {} /\ served = {} /\ written = {}
    /\ ctx = [c \in Callers |-> "live"]

(***************************************************************************)
(* GetMerkleNodes (lines 411-456).  Under the read lock it checks t.stx,   *)
(* then cache.GetNodes finds the subtrees it does not hold and calls the   *)
(* miss handler, which spawns one goroutine per subtree and collects       *)
(* len(ids) results, returning at the first error it receives.            *)
(***************************************************************************)
GetBegin(c, ids, rev) ==
    /\ Invoke(c, "get") /\ RLockFree
    /\ IF stx = "nil"
       THEN Return(c, "get", "closed") /\ UNCHANGED readers
       ELSE /\ readers' = readers \cup {c}
            /\ arg' = [arg EXCEPT ![c] = [Arg0 EXCEPT !.op = "get", !.ids = ids, !.rev = rev]]
            /\ pc' = [pc EXCEPT ![c] = "g_nodes"] /\ UNCHANGED outcomes
    /\ UNCHANGED <<txVars, waiting, cache, dirty, store, fetch, chan, crashed, served, written, ctx>>

\* Nodes handed back to the caller: its subtrees as the cache now holds them.
Serve(c, cch) == served' = served \cup
    {[st |-> s, rev |-> arg[c].rev, val |-> cch[s]] : s \in arg[c].ids}

\* The cache merges the subtrees the miss handler returned, keeping any it
\* loaded meanwhile (a concurrent SetMerkleNodes may have changed it).
CacheMerge(cch, acc) ==
    [s \in Subtrees |-> IF cch[s] = Absent /\ \E a \in acc : a[1] = s
                        THEN (CHOOSE a \in acc : a[1] = s)[2]
                        ELSE cch[s]]

GetNodes(c) ==
    /\ Alive /\ pc[c] = "g_nodes"
    /\ LET missing == {s \in arg[c].ids : cache[s] = Absent}
           k       == calls[c]
       IN  IF missing = {}
           THEN /\ readers' = readers \ {c} /\ Return(c, "get", "ok")
                /\ Serve(c, cache)
                /\ UNCHANGED <<fetch, chan>>
           ELSE /\ fetch' = [f \in FetchIds |->
                       IF f[1] = c /\ f[2] = k /\ f[3] \in missing
                       THEN [state |-> "run", rev |-> arg[c].rev, res |-> Err]
                       ELSE fetch[f]]
                /\ chan' = [chan EXCEPT ![<<c, k>>] =
                       [ok |-> {}, err |-> 0, cap |-> ChanCap(Cardinality(missing)),
                        rev |-> arg[c].rev]]
                /\ arg' = [arg EXCEPT ![c].missing = missing]
                /\ pc' = [pc EXCEPT ![c] = "g_collect"]
                /\ UNCHANGED <<readers, outcomes, served>>
    /\ UNCHANGED <<txVars, waiting, cache, dirty, store, calls, crashed, written, ctx>>

\* The select of lines 444-453: one received subtree, or the first error.
GetRecv(c) ==
    /\ Alive /\ pc[c] = "g_collect"
    /\ LET ch == <<c, calls[c]>> IN
       \/ /\ chan[ch].err > 0
          /\ chan' = [chan EXCEPT ![ch].err = @ - 1]
          /\ readers' = readers \ {c} /\ Return(c, "get", "err")
          /\ UNCHANGED <<cache, served>>
       \/ \E item \in chan[ch].ok :
          /\ chan' = [chan EXCEPT ![ch].ok = @ \ {item}]
          /\ LET acc == arg[c].acc \cup {item} IN
             IF arg[c].recv + 1 < Cardinality(arg[c].missing)
             THEN /\ arg' = [arg EXCEPT ![c].recv = @ + 1, ![c].acc = acc]
                  /\ UNCHANGED <<readers, pc, outcomes, cache, served>>
             ELSE LET cch == CacheMerge(cache, acc)
                  IN /\ cache' = cch /\ Serve(c, cch)
                     /\ readers' = readers \ {c} /\ Return(c, "get", "ok")
    /\ UNCHANGED <<txVars, waiting, dirty, store, calls, fetch, crashed, written, ctx>>

(***************************************************************************)
(* A fetch goroutine (lines 431-438).  getSubtree reads t.stx without      *)
(* holding t.mu: after the collector returned at an error the caller may   *)
(* have closed the transaction, and the unsynchronised read sees either   *)
(* the nil stored by Commit/Rollback (a nil-interface call: panic) or the *)
(* stale value, whose finished Spanner transaction fails the read.        *)
(***************************************************************************)
\* Its result goes to c or errc, which take it when the buffer has room or
\* the collector is waiting.
CanSend(f, isErr) ==
    LET ch == <<f[1], f[2]>> IN
    \/ IF isErr THEN chan[ch].err < chan[ch].cap ELSE Cardinality(chan[ch].ok) < chan[ch].cap
    \/ ReceiverWaiting(ch)

Send(f, res) ==
    LET ch == <<f[1], f[2]>> IN
    /\ CanSend(f, res = Err)
    /\ chan' = IF res = Err THEN [chan EXCEPT ![ch].err = @ + 1]
               ELSE [chan EXCEPT ![ch].ok = @ \cup {<<f[3], res>>}]
    /\ fetch' = [fetch EXCEPT ![f] = [state |-> "exited", rev |-> 0, res |-> Err]]

Fetch(f) ==
    /\ Alive /\ fetch[f].state = "run"
    /\ \/ /\ stx = "nil"
          /\ crashed' = "nilstx" /\ UNCHANGED <<fetch, chan>>
       \/ /\ stx = "nil"
          /\ Send(f, Err) /\ UNCHANGED crashed
       \/ /\ stx # "nil"
          /\ \E res \in ReadOutcomes(ctx[f[1]] = "live", fetch[f].rev, f[3]) : Send(f, res)
          /\ UNCHANGED crashed
    /\ UNCHANGED <<txVars, readers, waiting, cache, dirty, store, pc, arg, calls, histVars, ctx>>

(***************************************************************************)
(* getLatestRoot (lines 181-190): the first goroutine to reach the once    *)
(* runs latestSTH through t.stx; the others block until it is done and    *)
(* then all see the memoised head, or the memoised error.  ReadRevision   *)
(* and WriteRevision reach it without t.mu, so their read of t.stx races  *)
(* with Commit/Rollback like the fetch goroutines' read.                   *)
(***************************************************************************)
OncePcs == {"s_rev", "rev"}

\* sync.Once.Do (line 182) runs the function for the first caller only.
OnceStart(c) ==
    /\ Alive /\ pc[c] \in OncePcs /\ once = "idle"
    /\ once' = "running" /\ onceRunner' = c
    /\ UNCHANGED <<stx, sthRev, sthErr, writeRev, head, store0, readers, waiting,
                   cache, dirty, store, pc, arg, calls, fetch, chan, crashed, histVars, ctx>>

\* The context the once function runs with is its runner's: ReadRevision
\* and WriteRevision pass context.TODO(), which is never cancelled.
CtxLive(c) == ctx[c] = "live" \/ arg[c].op \in {"readrev", "writerev"}

\* latestSTH: no TreeHeads row is ErrTreeNeedsInit; a failed query an error;
\* a query with a cancelled context fails with its cancellation.
LatestSTHOutcomes(live) ==
    IF ~live THEN {Canceled}
    ELSE {IF head = NoHead THEN "needsInit" ELSE "none"}
         \cup (IF BackendFails THEN {Err} ELSE {})

OnceFinish(c) ==
    /\ Alive /\ once = "running" /\ onceRunner = c
    /\ \/ /\ stx = "nil"
          /\ crashed' = "nilstx"
          /\ UNCHANGED <<once, sthRev, sthErr, writeRev>>
       \/ /\ stx = "nil"
          /\ once' = "done" /\ sthErr' = Err
          /\ UNCHANGED <<sthRev, writeRev, crashed>>
       \/ /\ stx # "nil"
          /\ \E e \in LatestSTHOutcomes(CtxLive(c)) :
                /\ once' = "done" /\ sthErr' = e
                /\ sthRev'   = IF e = "none" THEN head ELSE NoHead
                /\ writeRev' = IF e = "none" THEN WriteRevOf(head) ELSE writeRev
          /\ UNCHANGED crashed
    /\ UNCHANGED <<stx, onceRunner, head, store0, readers, waiting, cache, dirty,
                   store, pc, arg, calls, fetch, chan, histVars, ctx>>

(***************************************************************************)
(* SetMerkleNodes (lines 460-484) of one node: under the read lock, check  *)
(* t.stx, resolve writeRev, then cache.SetNodeHash, whose loader reads the *)
(* subtree at writeRev-1 when the cache does not hold it.                  *)
(***************************************************************************)
SetBegin(c, s, n) ==
    /\ Invoke(c, "set") /\ RLockFree
    /\ IF stx = "nil"
       THEN Return(c, "set", "closed") /\ UNCHANGED readers
       ELSE /\ readers' = readers \cup {c}
            /\ arg' = [arg EXCEPT ![c] = [Arg0 EXCEPT !.op = "set", !.st = s, !.slot = n]]
            /\ pc' = [pc EXCEPT ![c] = "s_rev"] /\ UNCHANGED outcomes
    /\ UNCHANGED <<txVars, waiting, cache, dirty, store, fetch, chan, crashed, served, written, ctx>>

SetRev(c) ==
    /\ Alive /\ pc[c] = "s_rev" /\ once = "done"
    /\ IF sthErr # "none"
       THEN readers' = readers \ {c} /\ Return(c, "set", "err")
       ELSE pc' = [pc EXCEPT ![c] = "s_hash"] /\ UNCHANGED <<readers, outcomes, arg>>
    /\ UNCHANGED <<txVars, waiting, cache, dirty, store, calls, fetch, chan,
                   crashed, served, written, ctx>>

SetHash(c) ==
    /\ Alive /\ pc[c] = "s_hash"
    /\ LET s == arg[c].st
           n == arg[c].slot
           Store(blob) == /\ cache' = [cache EXCEPT ![s] = [blob EXCEPT ![n] = NewHash]]
                          /\ dirty' = dirty \cup {s}
                          /\ written' = written \cup {<<s, n>>}
                          /\ Return(c, "set", "ok")
       IN  \/ /\ cache[s] # Absent /\ Store(cache[s])
           \/ /\ cache[s] = Absent
              /\ \E res \in ReadOutcomes(ctx[c] = "live", LoaderRev(writeRev), s) :
                    IF res = Err
                    THEN Return(c, "set", "err") /\ UNCHANGED <<cache, dirty, written>>
                    ELSE Store(res)
    /\ readers' = readers \ {c}
    /\ UNCHANGED <<txVars, waiting, store, calls, fetch, chan, crashed, served, ctx>>

(***************************************************************************)
(* Commit (lines 238-291) and Rollback (296-307) run under the write lock  *)
(* and leave t.stx nil whatever they return.  Commit of a read-write      *)
(* transaction returns what flushSubtrees returns: storeSubtrees buffers   *)
(* an Insert at t._writeRev for every dirty subtree, and a Marshal or      *)
(* BufferWrite error ends it.  The caller's ReadWriteTransaction applies   *)
(* the buffered Inserts when Commit succeeded and is aborted when it      *)
(* failed (spec 4.6); no other transaction writes here, so none conflicts. *)
(***************************************************************************)
FlushRows == {[st |-> s, rev |-> writeRev, val |-> cache[s]] : s \in dirty}

\* storeSubtrees (238-260): with nothing to store it cannot fail.
FlushOutcomes == IF BackendFails /\ dirty # {} THEN {"ok", "err"} ELSE {"ok"}

LockWant(c, op) ==
    /\ Invoke(c, op)
    /\ waiting' = waiting \cup {c}
    /\ arg' = [arg EXCEPT ![c] = [Arg0 EXCEPT !.op = op]]
    /\ pc' = [pc EXCEPT ![c] = "lock"]
    /\ UNCHANGED <<txVars, readers, cache, dirty, store, fetch, chan, crashed, histVars, ctx>>

CommitLocked(c) ==
    /\ Alive /\ pc[c] = "lock" /\ arg[c].op = "commit" /\ LockFree
    /\ waiting' = waiting \ {c}
    /\ stx' = "nil"
    /\ CASE stx = "nil" -> Return(c, "commit", "closed") /\ UNCHANGED <<store, dirty>>
         [] stx = "ro"  -> Return(c, "commit", "ok") /\ UNCHANGED <<store, dirty>>
         [] stx = "rw"  ->
              /\ dirty' = {}
              /\ \E res \in FlushOutcomes :
                    /\ Return(c, "commit", res)
                    /\ store' = IF res = "ok" THEN store \cup FlushRows ELSE store
    /\ UNCHANGED <<once, onceRunner, sthRev, sthErr, writeRev, head, store0, readers,
                   cache, calls, fetch, chan, crashed, served, written, ctx>>

RollbackOf(s) == IF s = "nil" THEN "closed" ELSE "ok"

RollbackLocked(c) ==
    /\ Alive /\ pc[c] = "lock" /\ arg[c].op \in {"rollback", "close"} /\ LockFree
    /\ waiting' = waiting \ {c}
    /\ stx' = "nil"
    /\ IF arg[c].op = "rollback"
       THEN Return(c, "rollback", RollbackOf(stx))
       ELSE Return(c, "close", CloseResult(RollbackOf(stx)))
    /\ UNCHANGED <<once, onceRunner, sthRev, sthErr, writeRev, head, store0, readers,
                   cache, dirty, store, calls, fetch, chan, crashed, served, written, ctx>>

\* Close: IsOpen under the read lock, then Rollback if it was open.
CloseBegin(c) ==
    /\ Invoke(c, "close") /\ RLockFree
    /\ IF stx = "nil"
       THEN Return(c, "close", "ok") /\ UNCHANGED waiting
       ELSE /\ waiting' = waiting \cup {c} /\ pc' = [pc EXCEPT ![c] = "lock"]
            /\ arg' = [arg EXCEPT ![c] = [Arg0 EXCEPT !.op = "close"]]
            /\ UNCHANGED outcomes
    /\ UNCHANGED <<txVars, readers, cache, dirty, store, fetch, chan, crashed, served, written, ctx>>

\* ReadRevision / WriteRevision (lines 330-346): panic on a resolution error.
RevBegin(c, op) ==
    /\ Invoke(c, op)
    /\ arg' = [arg EXCEPT ![c] = [Arg0 EXCEPT !.op = op]]
    /\ pc' = [pc EXCEPT ![c] = "rev"]
    /\ UNCHANGED <<txVars, readers, waiting, cache, dirty, store, fetch, chan, crashed, histVars, ctx>>

RevEnd(c) ==
    /\ Alive /\ pc[c] = "rev" /\ once = "done"
    /\ IF sthErr # "none"
       THEN crashed' = "panic" /\ UNCHANGED <<pc, arg, outcomes>>
       ELSE /\ Return(c, arg[c].op, IF arg[c].op = "readrev" THEN sthRev ELSE writeRev)
            /\ UNCHANGED crashed
    /\ UNCHANGED <<txVars, readers, waiting, cache, dirty, store, calls, fetch,
                   chan, served, written, ctx>>

\* A caller's request context is cancelled (its deadline passed, or its
\* client went away); the fetch goroutines its calls spawned share it.
Cancel(c) ==
    /\ Alive /\ Cancellable /\ ctx[c] = "live"
    /\ ctx' = [ctx EXCEPT ![c] = "cancelled"]
    /\ UNCHANGED <<txVars, readers, waiting, cache, dirty, store, pc, arg, calls,
                   fetch, chan, crashed, histVars>>

Invoked(c) ==
    \/ \E ids \in SUBSET Subtrees \ {{}}, r \in GetRevs : GetBegin(c, ids, r)
    \/ \E s \in Subtrees, n \in Slots : SetBegin(c, s, n)
    \/ LockWant(c, "commit") \/ LockWant(c, "rollback")
    \/ CloseBegin(c)
    \/ RevBegin(c, "readrev") \/ RevBegin(c, "writerev")

Step(c) ==
    \/ GetNodes(c) \/ GetRecv(c)
    \/ OnceStart(c) \/ OnceFinish(c)
    \/ SetRev(c) \/ SetHash(c)
    \/ CommitLocked(c) \/ RollbackLocked(c)
    \/ RevEnd(c)

Next ==
    \/ \E c \in Callers : Invoked(c) \/ Step(c) \/ Cancel(c)
    \/ \E f \in FetchIds : Fetch(f)

\* The Go scheduler runs every runnable goroutine; callers need not call.
Fairness ==
    /\ \A c \in Callers : WF_vars(Step(c))
    /\ \A f \in FetchIds : WF_vars(Fetch(f))

Spec == Init /\ [][Next]_vars /\ Fairness

-----------------------------------------------------------------------------
(***************************************************************************)
(* Properties                                                              *)
(***************************************************************************)
TypeOK ==
    /\ stx \in {"ro", "rw", "nil"}
    /\ readers \subseteq Callers /\ waiting \subseteq Callers
    /\ once \in {"idle", "running", "done"} /\ onceRunner \in Callers \cup {"none"}
    /\ sthErr \in {"none", "needsInit", Err, Canceled} /\ writeRev \in Revs
    /\ cache \in [Subtrees -> Blob \cup {Absent}] /\ dirty \subseteq Subtrees
    /\ store \subseteq [st : Subtrees, rev : Revs, val : Blob]
    /\ pc \in [Callers -> {"idle", "g_nodes", "g_collect", "s_rev", "s_hash", "lock", "rev"}]
    /\ calls \in [Callers -> 0..MaxCalls]
    /\ fetch \in [FetchIds -> [state : {"none", "run", "exited"},
                               rev : Revs, res : Blob \cup {Err}]]
    /\ crashed \in {"no", "nilstx", "panic"}
    /\ ctx \in [Callers -> {"live", "cancelled"}]

(***************************************************************************)
(* Snapshot reads: every subtree a fetch goroutine sent on c after reading *)
(* it through getSubtree (a prefix read, skipping rows newer than rev,    *)
(* stopping at the first match) is the subtree's row with the highest     *)
(* revision <= rev, or the empty subtree when there is none.              *)
(***************************************************************************)
FetchReturnsLatestVisible ==
    \A ch \in CallIds : \A item \in chan[ch].ok :
        item[2] = VisibleAt(store0, item[1], chan[ch].rev)

(***************************************************************************)
(* A successful Commit publishes exactly this transaction's writes at the *)
(* head revision + 1: the snapshot at the head revision is unchanged, and  *)
(* at head + 1 every node SetMerkleNodes set holds the new hash while every *)
(* other node of the subtree keeps its hash at the head revision (the      *)
(* loader read at writeRev-1, the flush wrote at t._writeRev).             *)
(***************************************************************************)
CommitPublishesAtWriteRev ==
    (\E o \in outcomes : o.op = "commit" /\ o.ret = "ok") /\ head \in Nat =>
        /\ \A s \in Subtrees : VisibleAt(store, s, head) = VisibleAt(store0, s, head)
        /\ \A s \in Subtrees, n \in Slots :
              VisibleAt(store, s, head + 1)[n] =
                  IF <<s, n>> \in written /\ TxKind = "rw" THEN NewHash
                  ELSE VisibleAt(store0, s, head)[n]

(***************************************************************************)
(* Every call returns and every fetch goroutine exits (the channels are    *)
(* buffered for all results, so orphans of an early error return do not   *)
(* block), unless the process panicked.                                    *)
(***************************************************************************)
Progress ==
    /\ \A c \in Callers : pc[c] # "idle" ~> (pc[c] = "idle" \/ crashed # "no")
    /\ \A f \in FetchIds :
          fetch[f].state = "run" ~> (fetch[f].state = "exited" \/ crashed # "no")

(***************************************************************************)
(* No goroutine dereferences the nil t.stx: an operation that uses the     *)
(* Spanner transaction never runs after Commit/Rollback cleared it.       *)
(***************************************************************************)
NoNilStxDeref == crashed # "nilstx"

ServedAtRevision == \A x \in served : x.val = VisibleAt(store0, x.st, x.rev)

(***************************************************************************)
(* SetMerkleNodes on a read-only transaction fails (spec 4.6 and 8:        *)
(* WrongTransactionType) instead of buffering writes Commit will drop.     *)
(***************************************************************************)
SetOnReadOnlyRejected ==
    TxKind = "ro" => \A o \in outcomes : o.op = "set" => o.ret # "ok"

\* The abstract transaction: open while t.stx is not nil, and the calls of
\* GetMerkleNodes, SetMerkleNodes, Commit, Rollback and Close that returned.
Lifecycle == INSTANCE TxLifecycle WITH
    open              <- stx # "nil",
    results           <- {o \in outcomes : o.op \in {"get", "set", "commit", "rollback", "close"}},
    CommitResults     <- {"ok", "err"},
    ClosedCloseResult <- "ok"

(***************************************************************************)
(* treeTX implements TxLifecycle: t.stx goes from open to nil once, by the *)
(* Commit, Rollback or Close that holds the write lock first; a later      *)
(* Commit or Rollback returns ErrTransactionClosed while Close returns nil; *)
(* and because GetMerkleNodes and SetMerkleNodes hold the read lock until  *)
(* they return, none of them returns a result after the transaction closed. *)
(***************************************************************************)
RefinesTxLifecycle == Lifecycle!Spec
====
