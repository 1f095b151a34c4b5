# TLA+ models of the dcrd block-chain core

These modules model `src/blockchain/chain.go`: the tip engine that moves the
best chain between branches while keeping the durable store in step, the
block-index status and flush discipline it depends on, the main-chain block
cache, and the orphan pool. `spec.md` describes the same system. Where code the
engine calls lives outside `src/` (block index, chain view, `maybeAcceptBlock`,
`processOrphans`), it is modelled from the spec and marked `spec_modelled` in
`PROJECT.json`.

## The system and how its parts interact

| Part (spec) | Code | Model |
|---|---|---|
| C1/C2 block index | `blockIndex.SetStatusFlags`, `flushBlockIndex` (1563), `flushBlockIndexWarnOnly` (1583) | `BlockChain`: `status`, `modified`, `dbStatus`, `Flushed`, `FlushWarnOnly` |
| C3 chain view | `bestChain.Tip/SetTip/FindFork/NodeByHeight/Next` | `BlockChain`: `tip`, `MainChainOf`, `FindFork`, `NodeByHeight`, `ChainNext` |
| C4 orphan pool | `addOrphanBlock` (474), `removeOrphanBlock` (435), `GetOrphanRoot` (411) | `OrphanPool` |
| C5 main-chain block cache | `pushMainChainBlockCache` (743), `dropMainChainBlockCache` (942) | `BlockChain`: `cache` |
| C6 UTXO view | `UtxoViewpoint`, `connectTransactions`, `disconnectTransactions` | `BlockChain`: `view[w]`, `db.utxo`: the set of blocks whose effects are applied |
| C7 best state | `stateSnapshot`, `dbPutBestState` | `BlockChain`: `snapshot`, `db.best/work/totalTxns` |
| C8 tip engine | `connectBestChain` (1605), `getReorganizeNodes` (690), `reorganizeChain` (1126), `connectBlock` (767), `disconnectBlock` (953), `forceHeadReorganization` (1450) | `BlockChain`: one action per stretch of code between two acquisitions of `chainLock` |
| C9 pruner | `pruneStakeNodes` (603), the checkpoint drop in `connectBlock` (928), `fetchStakeNode` calls (794, 970, 974) | `BlockChain`: `stakeNodes`, `PruneStakeNodes`, `DropParentStakeNode`, `FetchStakeNode` |
| C10 queries | `HeightRange` (1934), `locateInventory` (1993), `locateBlocks` (2047), `locateHeaders` (2092), `GetStakeVersions` (254), `isMajorityVersion` (660) | `BlockChain`: readers `rpc`, `rng`, `result`; `LocateInventory`, `LocateBlocks`, `LocateHeaders`, `GetStakeVersions`, `IsMajorityVersion` |
| Durable store (spec 4.6.4–4.6.5) | `db.Update` in `connectBlock` / `disconnectBlock` | `ChainStore` (abstract), refined by `BlockChain` |

A writer (the goroutine calling `ProcessBlock` or `ForceHeadReorganization`)
holds `chainLock` for the whole of `connectBestChain`. The exception is every
`sendNotification`: the lock is released and re-acquired around each one.
These are BlockConnected (chain.go:893), BlockDisconnected (1069),
Reorganization and ChainReorgStarted (1328, 1333) and the deferred
ChainReorgDone (1339). Those windows are the only points where two writers
interleave. Readers such as `HeightRange` take no lock at all and read the
chain view between any two writer steps; `LocateBlocks` / `LocateHeaders`
take `chainLock` for reading. The orphan pool has its own `orphanLock`, but all of its writes
come from `ProcessBlock` under `chainLock`.

## Modules

### `BlockChain.tla` — tip engine, index status, durable state, cache

Blocks are model values in a fixed tree (`Parent`), with per-block `Work` and
`TxCount`. `Bad` is the set of blocks `checkConnectBlock` rejects with a
RuleError. Variables:

- `index`, `status`, `modified`, `dbStatus`: the block index, the in-memory
  status flags, the dirty set and what was last flushed.
- `tip`, `snapshot`: `bestChain.Tip()` and `stateSnapshot`.
- `db`: the persisted best-state record (best hash, work sum, TotalTxns), the
  UTXO set and the spend journal. These are written together by one
  `db.Update`.
- `cache`: the main-chain block cache.
- `lock`, `pc`, `cur`, `mode`, `detach`, `attach`, `view`: `chainLock` and
  each writer's position and locals. `pc` labels are the lock-release points.
- `stakeNodes`: the blocks whose `node.stakeNode` is in memory (the other
  transient fields are cleared with it).
- `subTip`: the tip as seen by a subscriber that follows
  BlockConnected / BlockDisconnected.

Actions, in code order:

- `AcceptBlock`: `maybeAcceptBlock` (spec-modelled), including the
  `pruneStakeNodes` it runs before creating the node (spec §4.7).
- `ConnectBestChain`: four disjuncts.
  - The extend case when `checkConnectBlock` fails.
  - The extend case when it passes.
  - An inert side chain.
  - A reorganization.
- `StartReorganize`: `getReorganizeNodes` plus phase 1 of `reorganizeChain`,
  up to the first unlock. Phase 1 is the check run over the attach list, in
  `Phase1`.
- `ForceHeadReorganization`: three disjuncts (rejected, validation fails,
  proceeds).
- `DetachStep`, `AttachStep`, `ReorgDone`: the phase 2 loops.
- `ConnectBlock`, `DisconnectBlock`: three disjuncts each.
  - The index flush fails.
  - `db.Update` fails.
  - Commit: `db.Update`, `view.commit`, `SetTip`, the snapshot swap, and the
    unlock.
  - After a successful flush, `fetchStakeNode` of the node (and, in
    `disconnectBlock`, of its parent) puts their stake nodes in memory,
    also when `db.Update` then fails. `fetchStakeNode` never fails.
- `SendNotification`: the window with the lock released.
- `AfterConnected`, `AfterDisconnected`, `AfterReorg`, `AfterReorgDone`: the
  rest of each function after it re-locks. `AfterConnected` includes the
  stake notifications (which read `node.stakeNode`) and, below
  `CheckpointHeight`, the drop of `bestChain.Tip().parent`'s stake node.

The two back-to-back unlock windows of Reorganization and ChainReorgStarted
are merged into one, because the writer changes nothing between them.
`ReturnError` is the error return. On the extend path the writer returns; in a
reorganization the deferred ChainReorgDone still runs. Each action includes
the `flushBlockIndexWarnOnly` the caller runs after it.

Readers (`Readers`, empty except in the reader runs):

- `HeightRangeStart`: `HeightRange` up to `NodeByHeight`, i.e. the argument
  checks, the early returns, the read of `bestChain.Tip().height` and the
  clamping of `endHeight`.
- `HeightRangeWalk`: `NodeByHeight(endHeight - 1)` and the loop
  (`HeightRangeHashes`), or the panic on a nil node. Parent pointers never
  change, so the loop needs no interleaving of its own.

`LocateInventory`, `LocateBlocks` and `LocateHeaders` are operators on the
current chain view (run under the read lock, so at states where no writer
holds `chainLock`). `LocateBlocksSpec` states the documented result by
heights; `LocateBlocksCorrect` compares them for every locator of up to two
hashes, every stop hash (known or not) and every maximum in 0..3.

`IsMajorityVersion` (its loop is `MajorityVersionLoop`) and
`GetStakeVersions` (its loop is `StakeVersionsWalk`) are translated loop for
loop, with the early exits and the count checks. Each is compared with a
reference that states the documented result as a set or a sequence of
heights: `MajorityVersionSpec` counts the versions in the window of
`BlockUpgradeNumToCheck` blocks, and `StakeVersionsSpec` lists the
`min(count, height + 1)` blocks ending at the start. `GetStakeVersions`
takes no `chainLock`. It reads the status once, through the index, and
parent links never change, so it is evaluated at a single state.

`MC_BlockChain.tla` and `MC_BlockChainWalk.tla` instantiate the module on
two block trees (see Bounds).

### `ChainStore.tla` — what the durable store promises

The abstract store has the persisted best block, the UTXO set and the spend
journal, and two steps: connect a valid child of the best block, adding its
effects and its journal entry, or disconnect the best block, removing them.
`BlockChain` instantiates it with `best <- db.best, utxo <- db.utxo,
journal <- db.journal` (`Store`) and checks `StoreRefinement == Store!Spec`.
Every committed `db.Update` must be one abstract step and all other steps
(phase 1, notifications, flushes, failed transactions) stutter.

### `OrphanPool.tla` — orphan pool

Variables:

- `orphans`: hash ↦ expiration.
- `prevOrphans`: parent ↦ sequence of `[hash, exp]` records.
- `oldestOrphan`: a record or `NoOrphan`.
- `now`: a clock.
- `known`: blocks in the index.

Actions:

- `AddOrphanBlock`: all of `addOrphanBlock`.
  - The expiry loop: `RemoveAll`, plus `OldestAfterLoop`. Because Go's map
    iteration order is random, any of several equally old orphans may become
    `oldestOrphan`.
  - The capacity test and eviction: `AtCapacity`, `OldestAfterAdd`.
  - The insert.
- `AcceptBlock`: a block whose parent is known is accepted. `processOrphans`
  (spec-modelled) then promotes every orphan building on it and calls
  `removeOrphanBlock` on each one.
- `Tick`: time passes.
- `GetOrphanRoot`: a recursive operator checked against a set-based
  definition of the root.

## Runs

| Run | Config | Expect | What it shows |
|---|---|---|---|
| select | `MC_select.cfg` | pass | One writer processes every block of a two-branch tree that holds two invalid blocks (B2, C2), with no store failures. The durable record always describes the tip's chain, status marks are sound, the tip has the most work among blocks not known invalid, notifications come in chain order, the cache window holds, and no panicf fires. The durable store refines `ChainStore`, every call returns with the lock released (`CallsReturn`), and `locateBlocks`/`locateHeaders` match their documented result. When idle, the tip's stake node is in memory (`StakeTipInMemory`); here `CheckpointHeight` is 1, so only `pruneStakeNodes` clears stake nodes. In every reachable state, `isMajorityVersion` and `GetStakeVersions` give their documented result for every block, version, required count and count (`MajorityVersionCorrect`, `StakeVersionsCorrect`). |
| faults | `MC_faults.cfg` | pass | The same checks with failing flushes and `db.Update` calls and with forced head reorganizations. Every failure, including one in the middle of phase 2, leaves the durable record, the flushed statuses and the subscriber consistent with the tip; a failed transaction is a stuttering step of `ChainStore`, and every error path still ends with ChainReorgDone and the lock released. |
| numtxns | `MC_numtxns.cfg` | violation | `disconnectBlock` publishes a BestState with the disconnected block's NumTxns. |
| dbwork | `MC_dbwork.cfg` | violation | `disconnectBlock` writes the disconnected block's workSum next to its parent's hash. |
| writers | `MC_writers.cfg` | violation | Two writers. One writer's reorganization releases the lock for its notifications. The second writer then computes detach/attach lists from the old tip, and after the first writer disconnects that tip, the second writer's `disconnectBlock` panics. |
| stakenode | `MC_stakenode.cfg` | violation | Two writers. W1 connects A1 and releases the lock for BlockConnected. W2 connects A2; its checkpoint drop clears `bestChain.Tip().parent`, which is A1. W1 re-locks and its stake notifications read A1's nil stake node. |
| stakeband | `MC_stakeband.cfg` | violation | One writer. The reorganization B1 → A1, A2 re-fetches G's stake node in `disconnectBlock`. The tip then rises to height 2 = `minMemoryNodes` above G, below the band `pruneStakeNodes` clears, so G keeps its stake node. |
| readers | `MC_readers.cfg` | pass | One `HeightRange` caller without `chainLock` races a writer that extends and reorganizes (B1 → A1, A2). Together with select it fires every reader step, including the walk on a moved tip and the nil `NodeByHeight` that the heightrange run shows to panic. |
| walk | `MC_walk.cfg` (`MC_BlockChainWalk`) | pass | A failed reorganization (to Z) marks X2 and Z but leaves Y, X2's other child, unmarked; W accepted on Y is stopped by the known-invalid walk of `getReorganizeNodes`, which marks W and Y and nothing else. Forced reorganizations between A1 and X1 move the tip onto the side branch and back with the durable state in step. |
| heightrange | `MC_heightrange.cfg` | violation | The reader clamps `endHeight` to the tip height it read (B1, height 1). The reorganization's `disconnectBlock` moves the tip to G, `NodeByHeight(1)` is nil and `iterNode.hash` panics. |
| orphans | `MC_orphans.cfg` | pass | Orphans arrive, expire, are re-sent and are promoted. `prevOrphans` matches `orphans` with no empty bucket, the pool exceeds `maxOrphanBlocks` by at most one, and `GetOrphanRoot` returns the root. |
| orphanbound | `MC_orphanbound.cfg` | violation | An orphan expires while `oldestOrphan` points at it, so the pointer goes stale. When the same block is sent again at capacity, the eviction removes nothing and the pool holds `maxOrphanBlocks + 1` orphans. |

Every property of a passing run has a mutant in `PROJECT.json`: a variant of
one mapped definition, of the kind a plausible bug would produce, under which
TLC finds that property violated.

### Findings

- **NumTxns after a disconnect** (chain.go:997): NumTxns is counted from the
  disconnected block. Spec §8 expects connect followed by disconnect to
  restore the BestState.
- **Work sum after a disconnect** (chain.go:1005): the persisted best-state
  record pairs the parent's hash with the child's workSum.
- **Unlocked notification windows** (chain.go:893, 1069, 1328–1342): these
  windows break the "single writer" serialization the spec states (§4.6). A
  second writer can then hit the panicf at chain.go:956.
- **HeightRange panics under a concurrent reorganization** (chain.go:1954,
  1966, 1971): `HeightRange` is documented "safe for concurrent access" but
  reads the tip height and `NodeByHeight` without `chainLock`; a
  `disconnectBlock` between the two reads makes `iterNode` nil.
- **Stake node freed under another writer** (chain.go:909–910, 929): after
  the BlockConnected window `connectBestChain` re-acquires `chainLock` and
  reads `node.stakeNode` for the stake notifications without fetching it
  again. In the trace W1 connects A1 and waits in the window; W2 connects A2,
  and its checkpoint drop frees the stake node of A2's parent, A1 (A1 is both
  `Tip().parent` and W2's `node.parent`, so a drop written as spec §4.6.4
  says would do the same). W1 then calls `SpentByBlock` on A1's nil stake
  node. The state W1 read before the unlock is stale after it.
- **Stake nodes outside the retention band** (chain.go:974, 632): spec §4.7
  says nodes older than the band keep nil stake fields. `disconnectBlock`
  re-fetches the fork block's stake node, and `pruneStakeNodes` skips heights
  at or below `tip.height - minMemoryNodes`. A reorganization that lifts the
  tip that far above the fork therefore leaves that stake node in memory for
  good. With the real constants it takes a reorganization of 2880 blocks.
  The model scales `minMemoryNodes` down to 2.
- **Orphan pool overshoot** (chain.go:484–495): a stale `oldestOrphan` lets
  the pool exceed `maxOrphanBlocks`. The comment and spec §4.3 say it is
  bounded.

## Bounds and why they are enough

- **`MC_BlockChain` tree.** Genesis `G` has two branches: `A1–A2`, with a
  side child `C2` of `A1`, and `B1–B2`.
  - `B2` and `C2` are invalid and are the heavier tips (work 2).
  - With this tree the model reaches: extending the tip, inert side blocks at
    equal work, reorganizations in both directions, a reorganization whose
    check phase fails at the second attach block, a failure on the extend
    path, and forced reorganizations between siblings (both validation
    outcomes).
  - `CacheSize = 1`, so eviction happens at every connect.
  - Stake constants scaled down: `StakeEnabledHeight` 1,
    `MinMemoryStakeNodes` 1, `MinMemoryNodes` 2, and `CheckpointHeight` 1
    (select, stakeband: the drop never fires), 2 (the other runs) or 3
    (stakenode: the drop fires at A2). With a window of one block,
    `pruneStakeNodes` clears the tip's parent at every accept. That makes an
    off-by-one in its start node visible at height 1.
  - `BlockVersion`: 2 on A1, A2 and B2, 1 elsewhere. `BlockUpgradeNumToCheck`
    is 2, so a window reaches genesis from height 1 and is cut short at
    height 2. `numRequired` ranges over 0..3 (zero, and more than the window
    holds), and counts over -1..3 (negative, zero, and beyond genesis).
  - One writer for the single-writer runs; two writers, with only `B2`
    invalid, for `writers`.
- **`MC_BlockChainWalk` tree.** `G–A1` (work 3) against `G–X1–X2` with
  two children `Y`, `Z` of the invalid `X2` and `W` on `Y`. It reaches the
  branch of `getReorganizeNodes` that finds a known-invalid block in the
  middle of the walk, which the first tree cannot: the mutant that also
  marks the invalid block is caught here and not on `MC_select`. The branch
  for a known-invalid parent stays unreachable, because `maybeAcceptBlock`
  rejects such a block and `connectBestChain` runs under the same lock.
- **Readers.** One reader with heights 0..3 (start and end below, at and
  above the tallest tip, height 2). The select tree's reorganization
  B1 → A1, A2 lowers the tip to G between its disconnect and connects, which
  is the window that matters.
- **Orphan pool.**
  - Six blocks.
  - Four of them can be orphans at the same time, waiting for two different
    parents.
  - Capacity 2.
  - Lifetime 2 ticks.
  - The clock runs to 4.
  - This reaches expiry during the loop, re-sent expired blocks, promotion of
    a two-orphan chain, ties on expiration, and eviction at capacity.

## Fairness

`FairSpec` adds weak fairness to `WriterStep(w)`: every step of a call
that is under way (not `AcceptBlock` or `ForceHeadReorganization`, which
start new calls and are never forced). The code justifies it for one writer.
A goroutine inside `ProcessBlock` runs until it blocks on `chainLock`, and
with a single writer the lock is free whenever it wants it back, so each of
its steps stays enabled until taken. `CallsReturn` then checks that every
call returns with the lock released, on every error path too, and that
every reorganization reaches its deferred ChainReorgDone. With several
writers, re-acquiring the lock after a notification needs strong fairness
(Go's mutex starvation mode), which is why `CallsReturn` is only checked with
one writer. Readers get no fairness; no liveness property is about them.

`Terminating` lets each spec stutter once nothing is left to do, which is
every block processed, or every block known with the clock at its bound.
That keeps deadlock checking meaningful everywhere else.

## Not modelled, and why

- UTXO entries, stxos, subsidy, median time, and the contents of stake
  nodes (tickets, lottery state). The properties only need which blocks'
  effects are applied and which stake nodes are in memory. `fetchStakeNode`
  always succeeds (the stake database is external).
- The stake nodes of blocks detached by a reorganization. `pruneStakeNodes`
  only walks the tip's ancestors, so they are never cleared. The spec
  promises nothing for side-chain nodes, so no property covers them (see the
  hazards).
- The window between `SetTip` and the snapshot swap (chain.go:876–885). Both
  happen in one writer step, because no function in `chain.go` reads both
  `BestSnapshot` and the chain view without `chainLock`.
- `BlockLocator`, `TipGeneration` (`index.chainTips` is not modelled),
  `GetStakeVersions`, `GetVoteInfo`, and the queries that look up one entry.
- `BlockLocator` (chainview.go, not under src/). On the trees checked here
  a locator is the whole path to genesis. `LocateBlocksCorrect` already
  covers the use of a locator: the first main-chain entry, with unknown and
  side-chain entries before it. Reading the code shows one disagreement
  with the spec. Spec §8 says resolving `block_locator(tip)` with
  `hashStop = tip` returns the tip with total 1. `locateInventory` instead
  steps to `Next(tip)`, which is nil, and returns `(nil, 0)`
  (chain.go:2018–2023). `LocateBlocksSpec` follows the code's doc comment
  ("the blocks after the first known block").
- `TipGeneration`: it returns `index.chainTips[tip.height]`, which
  blockindex.go (not under src/) maintains. Its comment says "the generation
  stemming from the parent of the current tip". Spec §3 says chainTips holds
  every entry at that height, so the result would include cousins of the
  tip. Spec scenario 2 even expects a block of another height. The
  disagreement is in code outside src/.
- `GetVoteInfo` and `maxBlockSize` (threshold states of the voting agendas,
  whose code is outside src/), `isCurrent` (the clock), and the single
  lookups (`HeaderByHash`, `BlockByHeight`, `MainChainHasBlock`, ...). Each
  lookup is one read of the index or of the chain view, so the chain view
  model already says all there is to say about it.
- Crash and restart. `initChainState` is not under src/. The durable part of
  the state (`db`, `dbStatus`) is checked in every state, and that covers
  every point a crash could stop at.
- The fast-add flag.
- Script validation.

## Possible extensions

1. `BlockLocator` (chain view, spec-modelled), as an operator checked
   against its definition and fed back into `LocateBlocks`.
2. An abstract best-chain specification (the tip moves to the heaviest
   not-invalid block), refined by `BlockChain` with one writer.
