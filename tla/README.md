# TLA+ models of the Cloud Spanner tree storage

These modules model the tree transaction layer in
`src/storage/cloudspanner/tree_storage.go`. That layer maps per-node Merkle
reads and writes onto subtree rows of Spanner, at tree revisions. A further
module models the PEM signer factory of `src/crypto/keys/pem_signer_factory.go`.
TLC checks the models.

| Module | Models | Kind |
|---|---|---|
| `TreeTX` | one `treeTX` shared by goroutines | detailed |
| `SnapshotTX` | one `snapshotTX` shared by goroutines | detailed |
| `TxLifecycle` | what any transaction promises about closing | abstract |
| `TreeStorage` | several read-write transactions and stale readers over one tree | detailed, composition |
| `VersionedStore` | a tree as an append-only sequence of revisions | abstract |
| `SubtreeKey` | `subtreeKey` | pure function |
| `PEMSignerFactory` | `Generate` and `NewSigner` | pure functions, history of calls |

`TreeTX` and `SnapshotTX` implement `TxLifecycle`, and `TreeStorage`
implements `VersionedStore`. Each of these is checked as a PROPERTY
(`INSTANCE ... WITH` a refinement mapping).

## Inventory

| Component | Code | State | Operations |
|---|---|---|---|
| Tree transaction `treeTX` | tree_storage.go 192-484 | `stx` (the Spanner txn; nil = closed), `mu` (RWMutex), `_currentSTH`/`_currentSTHErr`/`_writeRev` and `getLatestRootOnce`, `cache` | `Commit`, `Rollback`, `Close`, `IsOpen`, `ReadRevision`, `WriteRevision`, `GetMerkleNodes`, `SetMerkleNodes` |
| Revision resolution | `getLatestRoot` 181-190, `latestSTH` 102-142 | memoised head/error | once-only query of `TreeHeads` (newest by timestamp) |
| Subtree fetch | `getSubtree` 362-407, fan-out 418-455 | per-call channels `c`, `errc` (capacity `len(ids)`), one goroutine per missing subtree | prefix read, scan skipping rows newer than `rev`, first-error-wins collection |
| Subtree key | `subtreeKey` 351-357 | none | NodeID -> SubtreeID bytes, error if the prefix is not byte-aligned |
| Flush | `storeSubtrees`/`flushSubtrees` 238-265 | Spanner buffered mutations | Insert `(TreeID, SubtreeID, _writeRev, blob)` per dirty subtree |
| Snapshot transaction `snapshotTX` | 494-526 | `stx`, `mu` | `Commit` = `Rollback` = `Close`; a second Close returns `ErrTransactionClosed` |
| Subtree cache | not under src/ (spec section 2) | subtree -> blob, dirty set | `GetNodes(ids, missHandler)`, `SetNodeHash(id, h, loader)`, `Flush(writer)` |
| Spanner | not under src/ | `SubtreeData`, `TreeHeads` tables | prefix read in key order, atomic commit of buffered Inserts |
| Setup | `getTreeAndConfig` 146-156, `begin` 159-177, `TreeStorageOptions` 80-88 | none kept | tree lookup and cache creation, either of which may fail; read-only snapshots read `ReadOnlyStaleness` in the past |
| PEM signer factory | pem_signer_factory.go 27-65 | none | `Generate`: spec -> key -> DER -> `PrivateKey` in an `any.Any`; `NewSigner`: `any.Any` -> `PEMKeyFile` or `PrivateKey` -> signer |
| Health check, generated protos, CI config | | none relevant | not modelled (see PROJECT.json) |

**How the parts interact.** Callers are goroutines of the log or map server,
and they may share one `treeTX`. `t.mu` guards only `t.stx`. Reads and writes
hold the read lock, and Commit and Rollback take the write lock. Reads go
through the cache. On a miss, the cache calls back into `GetMerkleNodes`'
handler, which spawns fetch goroutines. Those goroutines read `t.stx`
*without* the lock. Writes go through `SetNodeHash`; on a miss, its loader
reads the subtree at `writeRev-1`. Commit hands the dirty subtrees to
`storeSubtrees`, which buffers Inserts. The enclosing Spanner read-write
transaction applies them atomically.

**What is hard about it:**
- concurrent callers of one transaction;
- orphaned fetch goroutines after an early error return;
- a `sync.Once` that runs with the first caller's context, whose
  cancellation it then hands to every caller;
- a fetch that loads a subtree while a concurrent SetMerkleNodes changes it;
- a cache that ignores revisions;
- the write revision read without being resolved at flush time;
- the check-then-act in `Close`.

PROJECT.json lists each hazard at the line where it bites.

**What makes the system correct:**
- a read at `rev` returns the newest row at or below `rev`;
- a successful Commit publishes exactly its writes at `head+1` and leaves
  earlier snapshots intact;
- the transaction closes once, Close never fails, and no read or write
  returns after the close;
- every call returns, and no goroutine leaks;
- no operation uses the Spanner transaction after it was cleared;
- cancelling one caller's context fails only that caller's reads;
- `subtreeKey` is the byte-aligned prefix;
- each tree head shows exactly the writes committed up to it, however the
  transactions of several writers interleave.

## Modules

### `TreeTX.tla`: one treeTX shared by goroutines

- **Data abstraction.**
  - A NodeID becomes the subtree that owns it plus a *slot* inside that
    subtree.
  - A subtree blob is a function from slots to hashes.
  - An initial row at revision `r` holds hash `r` in every slot, so a read
    shows which revision it came from.
  - `SetMerkleNodes` writes `NewHash`.
- **State.**
  - `stx` is `"ro"`, `"rw"` or `"nil"`.
  - `readers` and `waiting` model `t.mu`. A goroutine blocked in `Lock` stops
    new readers (Go's RWMutex); Lock and Unlock happen atomically within one
    action, because the critical section does not block.
  - `once`, `onceRunner`, `sthRev`, `sthErr` and `writeRev` are the memoised
    resolution.
  - `cache` and `dirty` are the subtree cache.
  - `store` is SubtreeData, and `head` is the newest TreeHeads revision.
  - `fetch` holds the fetch goroutines, and `chan` the two channels of each
    GetMerkleNodes call.
  - `crashed` records a panic, which ends the process.
  - `ctx` is each caller's request context, live or cancelled. Its fetch
    goroutines and the once function it runs use it; ReadRevision and
    WriteRevision use `context.TODO()` instead (`CtxLive`).
  - `outcomes`, `served` and `written` are history variables.
- **Actions and code.**

  | Action | Code |
  |---|---|
  | `GetBegin` | `RLock` and the nil check, 411-416 |
  | `GetNodes` | the cache miss and the goroutine spawn, 418-439 |
  | `GetRecv` | one iteration of the `select`, 444-453, plus the merge into the cache |
  | `Fetch` | a goroutine's racy read of `t.stx`, then `getSubtree` and the send, 431-438 |
  | `OnceStart`/`OnceFinish` | `getLatestRoot`; a runner whose context was cancelled memoises `Canceled` |
  | `SetBegin`/`SetRev`/`SetHash` | `SetMerkleNodes` |
  | `LockWant` + `CommitLocked`/`RollbackLocked` | `Commit` and `Rollback`, including the deferred `stx = nil`; Commit of a read-write txn returns the flush's result (`FlushOutcomes`) |
  | `CloseBegin` | `IsOpen` |
  | `RevBegin`/`RevEnd` | `ReadRevision`/`WriteRevision`, which panic on error |
  | `Cancel` | a caller's context is cancelled (its deadline, its client); spec 5 |

  The `Fetch` action's read of `t.stx` is a data race. Its possible outcomes
  are a nil value (panic) or the stale value of a finished Spanner
  transaction (the read fails).

  The caller's `ReadWriteTransaction` applies the buffered Inserts when
  Commit succeeds, and is aborted when it fails. That code is outside
  src/. No other transaction writes in these runs, so no Insert conflicts;
  `TreeStorage` models the conflicts.
- **Constants.**
  - `TxKind`: the type of the Spanner transaction. Rows come back in the
    `Revision DESC` order of the primary key (`KeyOrder`).
  - `HeadRev` and `InitRows`: the starting tables. Rows are never newer than
    the head, because rows and heads commit together.
  - `GetRevs`, `Ops` and `MaxCalls`: what the callers do.
  - `BackendFails`: whether Spanner reads and the flush may fail.
  - `Cancellable`: whether a caller's context may be cancelled.

### `TxLifecycle.tla`: the abstract transaction

- **State.** `open`, and `results`: the `[c, op, ret]` of each returned
  call.
- **Actions.**
  - `Close`: the call that finds the transaction open closes it. A Commit
    may report any of `CommitResults`.
  - `Refuse`: a call made after the close. Commit, Rollback, GetMerkleNodes
    and SetMerkleNodes report `closed`; Close reports `ClosedCloseResult`.
  - `Use`: a read or write returns a result while the transaction is open.
- **Refinement mappings.**
  - `TreeTX`: `open` is `stx # "nil"`, and `results` is the calls of the
    five methods in `outcomes`. `CommitResults` is {ok, err}, and
    `ClosedCloseResult` is `ok`.
  - `SnapshotTX`: the same mapping, with `CommitResults` {ok} and
    `ClosedCloseResult` `closed` (spec 4.7).

### `SnapshotTX.tla`: snapshotTX (lines 494-526)

- **State.**
  - `stx` is `"ro"` (a `spanner.ReadOnlyTransaction`), `"other"` or `"nil"`.
  - `pc`, `op` and `calls` are per goroutine.
  - `released` counts the calls of `stx.Close()`.
  - `outcomes` is a history variable.
- **Actions.**
  - `Call`: Commit, Rollback or Close reaches `Lock()`.
  - `CloseLocked`: the body of Close under the lock. It covers the nil
    check, the release of a read-only transaction and the reset of `t.stx`.
    The body does not block and the deferred Unlock runs on every return,
    so the lock is taken and released within the step.

### `TreeStorage.tla`: several transactions over one tree

- **Data abstraction.**
  - A subtree row holds the set of transactions whose writes it contains.
  - `TreeHeads` rows are `[rev, ts]`.
  - The caller's head Insert at `writeRev` happens in the same Spanner
    transaction as the flush. It is stamped with a clock that only moves
    forward, and it is spec-modelled: that code is not under src/.
- **State.**
  - `tx[t]` holds the transaction's state (idle, open, failed, committed,
    aborted or rolledback), the resolution outcome, the resolved head,
    `writeRev`, and the cache of dirty subtrees.
  - `heads`, `rows` and `clock` are the shared store. A row carries the
    timestamp of the commit that inserted it.
  - `rd[r]` holds a reader's state, its snapshot timestamp, the head it
    resolved and the subtrees its cache loaded.
- **Actions and code.**

  | Action | Code |
  |---|---|
  | `Begin` | `begin` and `getTreeAndConfig`, which may fail |
  | `Resolve` | `getLatestRoot` and `latestSTH` (`NewestByTimestamp`); the tie order is left open |
  | `SetNode` | `SetMerkleNodes` of one node, whose loader reads through `GetSubtree` at `LoaderRev(writeRev)`; a failed load changes nothing |
  | `Commit` | `Commit`, `flushSubtrees` and `storeSubtrees` (see below) |
  | `Rollback` | `Rollback` |
  | `ReaderBegin` | `begin` over a `ReadOnlyTransaction` at a timestamp `T` between 0 and now (`ReadOnlyStaleness`) |
  | `ReaderResolve` | `getLatestRoot` and `latestSTH` in the snapshot: the newest of the heads with `ts <= T` |
  | `ReaderGet` | `GetMerkleNodes` at `ReadRevision`, through `getSubtree` (`TooNew`, first row in `Revision DESC` order) over the rows with `ts <= T` |

  `Commit` has three outcomes:
  - a flush error: the Spanner transaction aborts;
  - an Insert of an existing key: the transaction aborts;
  - otherwise the rows and the head are applied atomically.
- **What is not assumed.** Spanner's lock-based conflict checks. The model is
  therefore more permissive than Spanner, and its safety results are
  conservative.

### `VersionedStore.tla`: the abstract store

`versions` is a sequence of snapshots. `CommitRevision(t, W)` appends the
last snapshot with `t` added to the subtrees in `W`. `TreeStorage` maps
revision `r` to `VisibleAt(rows, s, r)` for each subtree, for every revision
up to the newest head.

### `SubtreeKey.tla`: subtreeKey

The state is one NodeID from the bounded domain: a path is a byte slice,
its backing array of up to 2 bytes over {0, 1, 255} plus its length, and
the prefix has up to 23 bits. `SubtreeKey` translates lines 353-356: the
slice `Path[:k]` panics only when `k` exceeds the capacity, and below that
it reads the backing array. `RefKey` is the
declarative reference: the prefix of the path holding exactly
`PrefixLenBits` bits.

### `PEMSignerFactory.tla`: the PEM signer factory

- **Data abstraction.** A key is `[alg, id]`. DER is a tagged encoding of a
  key, and an `any.Any` is the message type its URL names with an encoded
  message. `Junk` stands
  for bytes that decode as nothing.
- **Collaborators.** `NewFromSpec`, `MarshalPrivateKey`, `NewFromPrivateDER`,
  `NewFromPrivatePEMFile` and `ptypes` are outside this repository. Each is
  an operator that does to the data what it does to the bytes, and fails on
  the inputs it rejects.
- **Code.** `Generate` (lines 51-65) chains `NewFromSpec`,
  `MarshalPrivateKey` and `MarshalAny(WrapDER(der))`, returning the first
  error. `SignerFrom` (lines 35-49) is `NewSigner`: unmarshal, then the type
  switch with its `unsupported` default.
- **State.** The factory keeps none, so the state is the history of
  `Generate` and `NewSigner` results.

## Runs

| Run | Expect | What it shows |
|---|---|---|
| `subtreekey` | pass | The key equals the reference on every well-formed NodeID (816 states). |
| `treetx_rw` | pass | 2 goroutines × 2 calls of get/set/commit/close on a read-write txn, with failing reads and flushes. `CommitPublishesAtWriteRev`: Commit publishes exactly its writes at head+1 without touching revision ≤ head, none lost to a concurrent fetch's cache merge (≈826k states, about 45 s). |
| `treetx_ro` | pass | `FetchReturnsLatestVisible`: read-only txn read at revisions 0 and 1 with the head at 1; the scan skips newer rows and keeps the row at the revision (12k states). |
| `treetx_progress` | pass | `Progress`: all seven methods, one call per goroutine, with failing reads and cancellable contexts; every call returns and every fetch goroutine exits unless the process panicked (23k states). |
| `treetx_cancel` | violation | **Bug:** a SetMerkleNodes whose context is cancelled runs the once; `Canceled` is memoised, and a concurrent ReadRevision, which passes `context.TODO()`, panics on it (line 333). Spec 5 says a cancellation causes errors scoped to the reads it aborts. |
| `treetx_nilstx` | violation | **Bug:** one goroutine runs GetMerkleNodes, a fetch fails, the call returns, and the goroutine's Close sets `t.stx = nil`. The still-running fetch goroutine then calls `Read` on the nil interface and panics (line 370). A first ReadRevision after Close reaches the same nil in `latestSTH` (line 183). |
| `treetx_cacherev` | violation | GetMerkleNodes(rev 1) serves what an earlier read at rev 0 cached (the cache has no revision). |
| `treetx_lifecycle` | pass | `RefinesTxLifecycle`: 2 goroutines × 2 calls of get/set/commit/rollback/close. treeTX implements TxLifecycle: one close, later Commit/Rollback refused, Close always nil, and no read or write returning after the close, because Commit and Rollback wait for the readers (≈898k states, about 1 min). Close forwarding `ErrTransactionClosed` after losing the race with a Commit breaks it. |
| `snapshottx` | pass | `RefinesTxLifecycle`: three goroutines, two calls each; the first call closes the snapshot and returns nil, and every later Commit, Rollback or Close fails, a second Close included, unlike treeTX's (31k states). |
| `treestorage` | pass | Three read-write transactions and a stale reader over one tree, with failing backend calls:<br>• `HeadSnapshotsExact`: every head shows exactly the writes committed up to it;<br>• `LatestSTHIsNewest`: latestSTH always picks the newest revision;<br>• `SnapshotReadsRepeatable`: what the reader read at the head of its stale snapshot is what that revision holds now, whatever committed since;<br>• `RefinesVersionedStore`: the storage implements the abstract versioned store (≈50k states with symmetry, about 20 s). |
| `pem_signer` | pass | `GeneratedKeysLoad`: every `any.Any` a successful `Generate` returns loads in `NewSigner` as the very key generated. NewSigner is also called with PEM files under right and wrong passwords, a missing file, junk bytes, junk DER and a message of another type (9k states). |
| `treetx_setro` | violation | SetMerkleNodes on a read-only txn returns nil, and Commit drops the write. The spec requires WrongTransactionType. |

**Bounds.** The bounds are two subtrees of two slots, the head at revision 1,
and rows s1@0, s1@1 and s2@0. Together these give:
- a subtree with an older and a newer row (the skip and the loader revision
  matter);
- a subtree with only an old row (inserting at a wrong revision is visible);
- two goroutines (every pairwise race of the methods, and one goroutine's
  cancelled context seen by the other);
- a two-subtree read (an orphan after the first error).

`TreeStorage` uses three transactions, one reader, two subtrees (one with a
row at the initial head) and the head at revision 0. This is enough for:
- two writers racing for the same `writeRev`, one of them stalled while the
  other and a third transaction commit revisions 1 and 2;
- a loader that reads at a wrong revision, which drops a write in between;
- a reader whose snapshot is older than one or two commits, reading at
  revision 0 or 1 while later revisions are written.

Readers only read, so one reader covers every reader interleaving; four
writers with a reader, or three writers with two readers, take longer than
5 minutes. Transactions and readers are interchangeable (`SYMMETRY`).
`PEMSignerFactory` uses a specification that generates and encodes, one
whose key has no DER form, one NewFromSpec rejects, two keys per algorithm
(so a signer built from another generated key is told apart) and one PEM
file. `SnapshotTX` uses three
goroutines with two calls each, so three goroutines can contend for the
lock.

Every mutant listed in PROJECT.json is caught under these bounds.

**Fairness.** Each goroutine's internal steps are weakly fair, because the Go
scheduler eventually runs every runnable goroutine. Invoking a new call, and
cancelling a context, are not fair, because callers may stop. `SnapshotTX`,
`TreeStorage` and the abstract modules state safety only.

**Deadlock check.** Runs set `CHECK_DEADLOCK FALSE`. The system really stops
once the bounded calls are done or a panic ends the process. `Progress`
checks that nothing stops earlier.

## Not modelled, and why

- Caller clocks that run behind. `TimestampNanos` comes from the log signer
  (outside src/). With a skewed clock, latestSTH can pick an older head, and
  every later writer collides at its `writeRev`. `TreeStorage` assumes a
  clock that only moves forward, as spec 4.1 does.
- Spanner's own locking of read-write transactions. It only removes
  interleavings.
- The timestamp bound of a read-only transaction is chosen by its caller
  (not under src/). `TreeStorage` lets a reader's snapshot be any time up
  to now, which covers every `ReadOnlyStaleness`.
- The reads that log storage makes through `snapshotTX.ls`. That code is not
  under src/.
- A partly applied flush. Marshal and BufferWrite failures are modelled as a
  failed Commit whose Spanner transaction the caller aborts. The abort is
  outside src/.
- Corrupt rows. A row that does not unmarshal fails `getSubtree` even when it
  is newer than the revision read (line 378); the model draws read failures
  nondeterministically and does not tell this case apart.
- NodeIDs whose `PrefixLenBits` exceed their path. `SubtreeKey` gives their
  outcome (a panic, or a key holding bytes beyond the path), but the NodeID
  constructors are outside src/, so no property is stated for them.
- The `default` case of `treeTX.Commit` (lines 288-289). `t.stx` is always a
  `ReadOnlyTransaction` or a `ReadWriteTransaction`.
- The contents of the tree config, proto codecs and the CI config. The key
  generation, DER and `ptypes` helpers that `PEMSignerFactory` calls are
  outside this repository; they are modelled by what they do to the data,
  not byte by byte.
- The cache is modelled from the spec. Its merge (`CacheMerge`) keeps a
  subtree it loaded while the fetch ran; a merge that overwrote it would
  lose a concurrent SetMerkleNodes, which `treetx_rw` catches
  (`CommitPublishesAtWriteRev`).
- `ReadRevision` and `WriteRevision` take no lock and do not check `t.stx`:
  after Commit they still return the memoised revision, and before the
  first resolution they race Commit (the nil `t.stx` hazard). The model
  has this behaviour; the spec states no contract for it to be checked
  against.
- Three goroutines sharing one `TreeTX`. Two goroutines already give every
  pairwise race of the methods, and the two-goroutine runs take about a
  minute; a third would multiply the state space, and was not attempted
  within the 5-minute bound of a run.

## Plan

1. Done:
   - `TreeTX`: lifecycle, fetch fan-out, once, flush;
   - `SubtreeKey`;
   - `SnapshotTX`;
   - `TxLifecycle`, with the refinement by TreeTX and SnapshotTX;
   - `TreeStorage`, with the refinement of `VersionedStore`;
   - stale read-only readers in `TreeStorage`;
   - `PEMSignerFactory`;
   - the cache merge racing SetMerkleNodes;
   - request contexts, and the memoised cancellation.
2. Left out, with the reasons under "Not modelled": a contract for the
   revision accessors after close, and three goroutines in `TreeTX`.
