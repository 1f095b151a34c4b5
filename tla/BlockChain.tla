----------------------------- MODULE BlockChain -----------------------------
(***************************************************************************)
(* The tip engine of src/blockchain/chain.go: connectBestChain (extend,    *)
(* inert side chain, reorganize), getReorganizeNodes, the two-phase        *)
(* reorganizeChain, connectBlock, disconnectBlock and                      *)
(* forceHeadReorganization, together with the parts of the block index,   *)
(* the durable store and the main-chain block cache that they change.     *)
(*                                                                         *)
(* Blocks are model values arranged in a fixed tree by Parent.  A block   *)
(* enters the index when a writer processes it (maybeAcceptBlock, which   *)
(* lives outside chain.go and is modelled from the spec).  Whether        *)
(* checkConnectBlock rejects a block is a property of the block: Bad.     *)
(* The UTXO set and a UTXO view are abstracted to the set of blocks whose *)
(* effects they contain; the spend journal to the set of blocks that have *)
(* an entry.  Every chainLock release around sendNotification is a point  *)
(* where another writer may run.                                          *)
(***************************************************************************)
EXTENDS Naturals, Sequences, SequencesExt, FiniteSets

CONSTANTS
    Blocks,       \* block hashes (model values)
    Genesis,      \* the genesis block, the only block without a parent
    NoBlock,      \* nil parent of Genesis
    Parent,       \* Parent[b]: header.PrevBlock of b
    Work,         \* proof of work of a single block
    TxCount,      \* countNumberOfTransactions(block, parent) of each block
    Bad,          \* blocks for which checkConnectBlock returns a RuleError
    Writers,      \* goroutines that call ProcessBlock / ForceHeadReorganization
    NoWriter,     \* chainLock is free
    CacheSize,    \* mainchainBlockCacheSize
    StoreFaults,  \* may flushes and db.Update transactions fail?
    ForceReorgs,  \* is ForceHeadReorganization called?
    Readers,      \* goroutines calling HeightRange (no chainLock)
    QueryHeights, \* heights passed to HeightRange
    StakeEnabledHeight,  \* chainParams.StakeEnabledHeight
    CheckpointHeight,    \* chainParams.LatestCheckpointHeight()
    MinMemoryStakeNodes, \* minMemoryStakeNodes (288)
    MinMemoryNodes,      \* minMemoryNodes (2880)
    BlockVersion,        \* header.Version of each block
    BlockUpgradeNumToCheck \* chainParams.BlockUpgradeNumToCheck

ASSUME /\ Genesis \in Blocks /\ Parent[Genesis] = NoBlock
       /\ \A b \in Blocks \ {Genesis} : Parent[b] \in Blocks
       /\ Genesis \notin Bad
       /\ CacheSize \in Nat \ {0}

VARIABLES
    index,     \* blocks present in the block index
    status,    \* in-memory blockStatus of every block
    modified,  \* blockIndex.modified: nodes whose status is not yet flushed
    dbStatus,  \* block-index entries as last flushed to the database
    tip,       \* bestChain.Tip()
    snapshot,  \* stateSnapshot (BestState): hash, NumTxns, TotalTxns
    db,        \* best-state record, utxo set, spend journal (one db.Update)
    cache,     \* mainchainBlockCache
    lock,      \* holder of chainLock (for writes)
    pc,        \* program counter of each writer
    cur,       \* node the writer is processing / connecting / disconnecting
    mode,      \* "extend" (connectBestChain fast path) or "reorg"
    detach,    \* detachNodes still to disconnect in phase 2
    attach,    \* attachNodes still to connect in phase 2
    view,      \* the writer's UtxoViewpoint
    stakeNodes, \* blocks whose node.stakeNode is held in memory
    subTip,    \* the chain tip as seen by a notification subscriber
    rpc,       \* program counter of each reader
    rng,       \* the reader's [start, end) after clamping endHeight
    result     \* the hashes the reader's last HeightRange returned

chainVars  == <<index, tip, snapshot, db, cache, stakeNodes>>
statusVars == <<status, modified, dbStatus>>
writerVars == <<lock, pc, cur, mode, detach, attach, view>>
readerVars == <<rpc, rng, result>>
vars == <<chainVars, statusVars, writerVars, subTip, readerVars>>

Flags == {"haveData", "valid", "validateFailed", "invalidAncestor"}

PCs == {"idle", "connectBest", "connectBlock", "disconnectBlock", "reorgStep",
        "ntfyConnected", "afterConnected", "ntfyDisconnected",
        "afterDisconnected", "ntfyReorg", "afterReorg", "ntfyReorgDone",
        "afterReorgDone"}

-----------------------------------------------------------------------------
(* Derived block data: height, workSum and the ancestor chain.             *)

RECURSIVE Height(_)
Height(b) == IF Parent[b] = NoBlock THEN 0 ELSE 1 + Height(Parent[b])

RECURSIVE WorkSum(_)
WorkSum(b) == IF Parent[b] = NoBlock THEN Work[b] ELSE Work[b] + WorkSum(Parent[b])

RECURSIVE AncestorsOrSelf(_)
AncestorsOrSelf(b) ==
    IF b = NoBlock THEN {} ELSE {b} \cup AncestorsOrSelf(Parent[b])

\* The blocks of the chain view whose tip is t.
MainChainOf(t) == AncestorsOrSelf(t)

\* chainView.FindFork: the highest ancestor of n that is in the view.
FindFork(n) ==
    LET common == AncestorsOrSelf(n) \cap MainChainOf(tip)
    IN CHOOSE f \in common : \A g \in common : Height(g) <= Height(f)

\* The nodes met walking from n up to (excluding) f, n first.
RECURSIVE UpPath(_, _)
UpPath(n, f) == IF n = f THEN <<>> ELSE <<n>> \o UpPath(Parent[n], f)

-----------------------------------------------------------------------------
(* Block index status (blockIndex.SetStatusFlags, NodeStatus, flush).      *)

KnownValid(st, b)   == "valid" \in st[b]
KnownInvalid(st, b) == st[b] \cap {"validateFailed", "invalidAncestor"} # {}

\* SetStatusFlags on every node of ns: OR the flag in, mark the node dirty.
SetStatusFlags(st, ns, flag) ==
    [b \in Blocks |-> IF b \in ns THEN st[b] \cup {flag} ELSE st[b]]

\* Outcomes of a flush: nothing to write never fails.
FlushChoices(mod) == IF mod = {} \/ ~StoreFaults THEN {TRUE} ELSE BOOLEAN

\* blockIndex.flush: write every modified node's status.
Flushed(st, mod) == [b \in Blocks |-> IF b \in mod THEN st[b] ELSE dbStatus[b]]

\* flushBlockIndexWarnOnly applied to the status st and dirty set mod.
FlushWarnOnly(st, mod) ==
    \E ok \in FlushChoices(mod) :
        /\ status' = st
        /\ dbStatus' = IF ok THEN Flushed(st, mod) ELSE dbStatus
        /\ modified' = IF ok THEN {} ELSE mod

-----------------------------------------------------------------------------
(* Main-chain block cache.                                                 *)

\* Variant of pushMainChainBlockCache with < for <= in the eviction test.
PushMainChainBlockCacheLt(c, b) ==
    {x \in c \cup {b} : ~(Height(x) < Height(b) - CacheSize)}

\* pushMainChainBlockCache: insert b, evict heights <= height(b) - size.
PushMainChainBlockCache(c, b) ==
    {x \in c \cup {b} : ~(Height(x) <= Height(b) - CacheSize)}

\* dropMainChainBlockCache.
DropMainChainBlockCache(c, b) == c \ {b}

-----------------------------------------------------------------------------
(* Variants of getReorganizeNodes: the attach list in walk order (not     *)
(* pushed to the front), and the detach walk running one node past the    *)
(* fork.                                                                   *)
GetReorganizeNodesUnreversed(node, st) ==
    LET fork == FindFork(node)
    IN [detach |-> UpPath(tip, fork), attach |-> UpPath(node, fork), marked |-> {}]

GetReorganizeNodesPastFork(node, st) ==
    LET fork == FindFork(node)
    IN [detach |-> UpPath(tip, Parent[fork]), attach |-> Reverse(UpPath(node, fork)),
        marked |-> {}]

\* Variant whose invalid-block walk also marks the known-invalid block.
GetReorganizeNodesMarkFailed(node, st) ==
    IF KnownInvalid(st, Parent[node])
    THEN [detach |-> <<>>, attach |-> <<>>, marked |-> {node}]
    ELSE LET fork == FindFork(node)
             up   == UpPath(node, fork)
             k    == SelectInSeq(up, LAMBDA n : KnownInvalid(st, n))
         IN IF k # 0
            THEN [detach |-> <<>>, attach |-> <<>>,
                  marked |-> {up[i] : i \in 1..k}]
            ELSE [detach |-> UpPath(tip, fork), attach |-> Reverse(up),
                  marked |-> {}]

(* getReorganizeNodes(node) with the status st: the detach and attach     *)
(* lists, and the nodes it marks statusInvalidAncestor.                    *)
GetReorganizeNodes(node, st) ==
    IF KnownInvalid(st, Parent[node])
    THEN [detach |-> <<>>, attach |-> <<>>, marked |-> {node}]
    ELSE LET fork == FindFork(node)
             up   == UpPath(node, fork)
             k    == SelectInSeq(up, LAMBDA n : KnownInvalid(st, n))
         IN IF k # 0
            THEN [detach |-> <<>>, attach |-> <<>>,
                  marked |-> {up[i] : i \in 1..(k - 1)}]
            ELSE [detach |-> UpPath(tip, fork), attach |-> Reverse(up),
                  marked |-> {}]

\* Variant of the check phase that takes statusDataStored for statusValid.
Phase1HaveDataAsValid(att, st) ==
    LET k         == SelectInSeq(att, LAMBDA n : ~("haveData" \in st[n]) /\ n \in Bad)
        last      == IF k = 0 THEN Len(att) ELSE k - 1
        validated == {att[i] : i \in 1..last} \ {n \in Blocks : KnownValid(st, n)}
        failed    == IF k = 0 THEN {} ELSE {att[k]}
        rest      == IF k = 0 THEN {} ELSE {att[i] : i \in (k + 1)..Len(att)}
    IN [ok    |-> k = 0,
        st    |-> SetStatusFlags(SetStatusFlags(SetStatusFlags(st,
                     validated, "valid"), failed, "validateFailed"),
                     rest, "invalidAncestor"),
        dirty |-> validated \cup failed \cup rest]

\* Variants of the check phase: validated nodes not added to the dirty set;
\* statusInvalidAncestor marking starting at the failed node itself.
Phase1NotDirty(att, st) ==
    LET k         == SelectInSeq(att, LAMBDA n : ~KnownValid(st, n) /\ n \in Bad)
        last      == IF k = 0 THEN Len(att) ELSE k - 1
        validated == {att[i] : i \in 1..last} \ {n \in Blocks : KnownValid(st, n)}
        failed    == IF k = 0 THEN {} ELSE {att[k]}
        rest      == IF k = 0 THEN {} ELSE {att[i] : i \in (k + 1)..Len(att)}
    IN [ok    |-> k = 0,
        st    |-> SetStatusFlags(SetStatusFlags(SetStatusFlags(st,
                     validated, "valid"), failed, "validateFailed"),
                     rest, "invalidAncestor"),
        dirty |-> failed \cup rest]

Phase1RestFromFailed(att, st) ==
    LET k         == SelectInSeq(att, LAMBDA n : ~KnownValid(st, n) /\ n \in Bad)
        last      == IF k = 0 THEN Len(att) ELSE k - 1
        validated == {att[i] : i \in 1..last} \ {n \in Blocks : KnownValid(st, n)}
        failed    == IF k = 0 THEN {} ELSE {att[k]}
        rest      == IF k = 0 THEN {} ELSE {att[i] : i \in k..Len(att)}
    IN [ok    |-> k = 0,
        st    |-> SetStatusFlags(SetStatusFlags(SetStatusFlags(st,
                     validated, "valid"), failed, "validateFailed"),
                     rest, "invalidAncestor"),
        dirty |-> validated \cup failed \cup rest]

\* The check phase of reorganizeChain over the attach list: nodes not known
\* valid are run through checkConnectBlock; the first failure is marked
\* statusValidateFailed and every later attach node statusInvalidAncestor.
Phase1(att, st) ==
    LET k         == SelectInSeq(att, LAMBDA n : ~KnownValid(st, n) /\ n \in Bad)
        last      == IF k = 0 THEN Len(att) ELSE k - 1
        validated == {att[i] : i \in 1..last} \ {n \in Blocks : KnownValid(st, n)}
        failed    == IF k = 0 THEN {} ELSE {att[k]}
        rest      == IF k = 0 THEN {} ELSE {att[i] : i \in (k + 1)..Len(att)}
    IN [ok    |-> k = 0,
        st    |-> SetStatusFlags(SetStatusFlags(SetStatusFlags(st,
                     validated, "valid"), failed, "validateFailed"),
                     rest, "invalidAncestor"),
        dirty |-> validated \cup failed \cup rest]

\* Variant of the side-chain test comparing the blocks' own work.
HasMoreWorkOwn(a, b) == Work[a] > Work[b]

\* node.workSum.Cmp(tip.workSum) > 0: the side chain has more work.
HasMoreWork(a, b) == WorkSum(a) > WorkSum(b)

\* Variant of the TotalTxns update of connectBlock that omits the block.
ConnectTotalOmitted(n) == snapshot.totalTxns

\* TotalTxns of the state connectBlock builds: the tip's plus n's.
ConnectTotal(n) == snapshot.totalTxns + TxCount[n]

-----------------------------------------------------------------------------
(* Stake nodes in memory.                                                  *)

\* fetchStakeNode(n): materialize n's stake node (from its parent's).
FetchStakeNode(s, n) == s \cup {n}

\* Variant of pruneStakeNodes that starts deleting at pruneToNode itself.
PruneStakeNodesFromPruneTo(s) ==
    LET pruneTo == IF Height(tip) >= MinMemoryStakeNodes - 1
                   THEN CHOOSE b \in MainChainOf(tip) :
                            Height(b) = Height(tip) - (MinMemoryStakeNodes - 1)
                   ELSE NoBlock
    IN IF pruneTo = NoBlock \/ Parent[pruneTo] = NoBlock THEN s
       ELSE s \ {n \in AncestorsOrSelf(pruneTo) :
                   Height(n) > Height(tip) - MinMemoryNodes}

\* pruneStakeNodes: pruneToNode is minMemoryStakeNodes-1 blocks below the
\* tip; the stake nodes of its parent and every older ancestor still above
\* tip.height - minMemoryNodes are dropped.
PruneStakeNodes(s) ==
    LET pruneTo == IF Height(tip) >= MinMemoryStakeNodes - 1
                   THEN CHOOSE b \in MainChainOf(tip) :
                            Height(b) = Height(tip) - (MinMemoryStakeNodes - 1)
                   ELSE NoBlock
    IN IF pruneTo = NoBlock \/ Parent[pruneTo] = NoBlock THEN s
       ELSE s \ {n \in AncestorsOrSelf(Parent[pruneTo]) :
                   Height(n) > Height(tip) - MinMemoryNodes}

\* Below the latest checkpoint connectBlock drops the stake node of
\* bestChain.Tip().parent, read after re-acquiring chainLock.
DropParentStakeNode(s, n) ==
    IF Height(n) < CheckpointHeight THEN s \ {Parent[tip]} ELSE s

-----------------------------------------------------------------------------
Init ==
    /\ index = {Genesis}
    /\ status = [b \in Blocks |-> IF b = Genesis THEN {"haveData", "valid"} ELSE {}]
    /\ modified = {}
    /\ dbStatus = status
    /\ tip = Genesis
    /\ snapshot = [hash |-> Genesis, numTxns |-> TxCount[Genesis],
                   totalTxns |-> TxCount[Genesis]]
    /\ db = [best |-> Genesis, utxo |-> {Genesis}, journal |-> {},
             work |-> WorkSum(Genesis), totalTxns |-> TxCount[Genesis]]
    /\ cache = {}
    /\ stakeNodes = {Genesis}
    /\ lock = NoWriter
    /\ pc = [w \in Writers |-> "idle"]
    /\ cur = [w \in Writers |-> Genesis]
    /\ mode = [w \in Writers |-> "extend"]
    /\ detach = [w \in Writers |-> <<>>]
    /\ attach = [w \in Writers |-> <<>>]
    /\ view = [w \in Writers |-> {}]
    /\ subTip = Genesis
    /\ rpc = [r \in Readers |-> "idle"]
    /\ rng = [r \in Readers |-> [start |-> 0, end |-> 0]]
    /\ result = [r \in Readers |-> <<>>]

-----------------------------------------------------------------------------
(* Writer steps.  Each action is one stretch of code run under chainLock,  *)
(* from acquiring (or re-acquiring) it to the next release.               *)

Release(w) == lock' = NoWriter /\ pc' = [pc EXCEPT ![w] = "idle"]

\* ProcessBlock -> maybeAcceptBlock: a block whose parent is known and not
\* known invalid is added to the index with its data, then connectBestChain
\* runs on it under the same lock.  pruneStakeNodes runs just before the
\* new node is created.
AcceptBlock(w, b) ==
    /\ pc[w] = "idle"
    /\ lock = NoWriter
    /\ b \notin index
    /\ Parent[b] \in index
    /\ ~KnownInvalid(status, Parent[b])
    /\ index' = index \cup {b}
    /\ status' = [status EXCEPT ![b] = {"haveData"}]
    /\ modified' = modified \cup {b}
    /\ lock' = w
    /\ pc' = [pc EXCEPT ![w] = "connectBest"]
    /\ cur' = [cur EXCEPT ![w] = b]
    /\ stakeNodes' = PruneStakeNodes(stakeNodes)
    /\ UNCHANGED <<dbStatus, tip, snapshot, db, cache, mode, detach, attach,
                   view, subTip>>

\* getReorganizeNodes followed by the check phase of reorganizeChain.  When
\* there is nothing to do or a block fails, reorganizeChain returns before
\* any notification and the caller flushes with flushBlockIndexWarnOnly and
\* returns; otherwise the Reorganization and ChainReorgStarted
\* notifications are sent with the lock released.  (r and p are bound by
\* \E over a singleton so that TLC computes them once, also under ENABLED.)
StartReorganize(w, node, st0, mod0) ==
    \E r \in {GetReorganizeNodes(node, st0)} :
    LET st1  == SetStatusFlags(st0, r.marked, "invalidAncestor")
        mod1 == mod0 \cup r.marked
    IN \E p \in {Phase1(r.attach, st1)} :
       IF (r.detach = <<>> /\ r.attach = <<>>) \/ ~p.ok
       THEN /\ FlushWarnOnly(p.st, mod1 \cup p.dirty)
            /\ Release(w)
            /\ UNCHANGED <<cur, mode, detach, attach, view>>
       ELSE /\ status' = p.st
            /\ modified' = mod1 \cup p.dirty
            /\ UNCHANGED dbStatus
            /\ lock' = NoWriter
            /\ pc' = [pc EXCEPT ![w] = "ntfyReorg"]
            /\ mode' = [mode EXCEPT ![w] = "reorg"]
            /\ cur' = [cur EXCEPT ![w] = Last(r.attach)]
            /\ detach' = [detach EXCEPT ![w] = r.detach]
            /\ attach' = [attach EXCEPT ![w] = r.attach]
            \* the check phase leaves the view at the new tip
            /\ view' = [view EXCEPT ![w] =
                          (MainChainOf(tip) \ ToSet(r.detach)) \cup ToSet(r.attach)]

\* connectBestChain: extend the tip, record an inert side-chain block, or
\* reorganize to a heavier side chain.
ConnectBestChain(w) ==
    LET node  == cur[w]
        known == KnownValid(status, node)
    IN
    /\ pc[w] = "connectBest"
    /\ UNCHANGED <<chainVars, subTip>>
    /\ \/ /\ Parent[node] = tip
          /\ ~known
          /\ node \in Bad
          /\ FlushWarnOnly(SetStatusFlags(status, {node}, "validateFailed"),
                           modified \cup {node})
          /\ Release(w)
          /\ UNCHANGED <<cur, mode, detach, attach, view>>
       \/ /\ Parent[node] = tip
          /\ known \/ node \notin Bad
          /\ IF known THEN UNCHANGED statusVars
             ELSE FlushWarnOnly(SetStatusFlags(status, {node}, "valid"),
                                modified \cup {node})
          /\ pc' = [pc EXCEPT ![w] = "connectBlock"]
          /\ mode' = [mode EXCEPT ![w] = "extend"]
          /\ view' = [view EXCEPT ![w] = db.utxo \cup {node}]
          /\ UNCHANGED <<lock, cur, detach, attach>>
       \/ /\ Parent[node] # tip
          /\ ~HasMoreWork(node, tip)
          /\ Release(w)
          /\ UNCHANGED <<statusVars, cur, mode, detach, attach, view>>
       \/ /\ Parent[node] # tip
          /\ HasMoreWork(node, tip)
          /\ StartReorganize(w, node, status, modified)

\* The preconditions forceHeadReorganization checks before doing anything.
ForceReorgAllowed(former, new) ==
    /\ former # new
    /\ tip = former
    /\ new \in index
    /\ Parent[new] = Parent[tip]
    /\ ~KnownInvalid(status, new)

\* ForceHeadReorganization(formerBest, newBest).
ForceHeadReorganization(w, former, new) ==
    /\ ForceReorgs
    /\ pc[w] = "idle"
    /\ lock = NoWriter
    /\ UNCHANGED <<chainVars, subTip>>
    /\ \/ /\ ~ForceReorgAllowed(former, new)
          /\ UNCHANGED <<statusVars, writerVars>>
       \/ /\ ForceReorgAllowed(former, new)
          /\ ~KnownValid(status, new)
          /\ new \in Bad
          /\ status' = SetStatusFlags(status, {new}, "validateFailed")
          /\ modified' = modified \cup {new}
          /\ UNCHANGED <<dbStatus, writerVars>>
       \/ /\ ForceReorgAllowed(former, new)
          /\ KnownValid(status, new) \/ new \notin Bad
          /\ IF KnownValid(status, new)
             THEN StartReorganize(w, new, status, modified)
             ELSE StartReorganize(w, new, SetStatusFlags(status, {new}, "valid"),
                                  modified \cup {new})

-----------------------------------------------------------------------------
(* Phase 2 of reorganizeChain.                                             *)

\* Next detach node: unspend its outputs in the view, then disconnectBlock.
DetachStep(w) ==
    /\ pc[w] = "reorgStep"
    /\ detach[w] # <<>>
    /\ cur' = [cur EXCEPT ![w] = Head(detach[w])]
    /\ detach' = [detach EXCEPT ![w] = Tail(detach[w])]
    /\ view' = [view EXCEPT ![w] = view[w] \ {Head(detach[w])}]
    /\ pc' = [pc EXCEPT ![w] = "disconnectBlock"]
    /\ UNCHANGED <<chainVars, statusVars, lock, mode, attach, subTip>>

\* Next attach node: connectTransactions on the view, then connectBlock.
AttachStep(w) ==
    /\ pc[w] = "reorgStep"
    /\ detach[w] = <<>>
    /\ attach[w] # <<>>
    /\ cur' = [cur EXCEPT ![w] = Head(attach[w])]
    /\ attach' = [attach EXCEPT ![w] = Tail(attach[w])]
    /\ view' = [view EXCEPT ![w] = view[w] \cup {Head(attach[w])}]
    /\ pc' = [pc EXCEPT ![w] = "connectBlock"]
    /\ UNCHANGED <<chainVars, statusVars, lock, mode, detach, subTip>>

\* Variant that sends ChainReorgDone without releasing chainLock.
ReorgDoneKeepLock(w) ==
    /\ pc[w] = "reorgStep"
    /\ detach[w] = <<>>
    /\ attach[w] = <<>>
    /\ pc' = [pc EXCEPT ![w] = "ntfyReorgDone"]
    /\ UNCHANGED <<chainVars, statusVars, lock, cur, mode, detach, attach, view, subTip>>

\* Both lists done: the deferred ChainReorgDone notification.
ReorgDone(w) ==
    /\ pc[w] = "reorgStep"
    /\ detach[w] = <<>>
    /\ attach[w] = <<>>
    /\ lock' = NoWriter
    /\ pc' = [pc EXCEPT ![w] = "ntfyReorgDone"]
    /\ UNCHANGED <<chainVars, statusVars, cur, mode, detach, attach, view, subTip>>

\* An error out of connectBlock / disconnectBlock: on the extend path the
\* writer returns; inside reorganizeChain the deferred ChainReorgDone
\* notification still runs.
ReturnError(w) ==
    IF mode[w] = "extend" THEN Release(w)
    ELSE lock' = NoWriter /\ pc' = [pc EXCEPT ![w] = "ntfyReorgDone"]

\* connectBlock: flush the index, one db.Update with best state, utxo view,
\* spend journal and stake node, then commit the view, SetTip, publish the
\* new BestState and release the lock to send BlockConnected.
ConnectBlock(w) ==
    LET n     == cur[w]
        total == ConnectTotal(n)
    IN
    /\ pc[w] = "connectBlock"
    /\ UNCHANGED <<index, status, subTip, cur, mode, detach, attach, view, cache>>
    /\ \/ /\ StoreFaults
          /\ modified # {}
          /\ ReturnError(w)
          /\ UNCHANGED <<modified, dbStatus, tip, snapshot, db, stakeNodes>>
       \/ /\ dbStatus' = Flushed(status, modified)
          /\ modified' = {}
          /\ stakeNodes' = FetchStakeNode(stakeNodes, n)
          /\ \/ /\ StoreFaults
                /\ ReturnError(w)
                /\ UNCHANGED <<tip, snapshot, db>>
             \/ /\ db' = [best |-> n, utxo |-> view[w],
                          journal |-> db.journal \cup {n},
                          work |-> WorkSum(n), totalTxns |-> total]
                /\ tip' = n
                /\ snapshot' = [hash |-> n, numTxns |-> TxCount[n],
                                totalTxns |-> total]
                /\ lock' = NoWriter
                /\ pc' = [pc EXCEPT ![w] = "ntfyConnected"]

\* disconnectBlock: the same for removing the tip.  The new state is built
\* from the parent, but with the disconnected block's numTxns and the
\* disconnected block's workSum written to the best-state record.
DisconnectBlock(w) ==
    LET n     == cur[w]
        total == snapshot.totalTxns - TxCount[n]
    IN
    /\ pc[w] = "disconnectBlock"
    /\ UNCHANGED <<index, status, subTip, cur, mode, detach, attach, view, cache>>
    /\ \/ /\ StoreFaults
          /\ modified # {}
          /\ ReturnError(w)
          /\ UNCHANGED <<modified, dbStatus, tip, snapshot, db, stakeNodes>>
       \/ /\ dbStatus' = Flushed(status, modified)
          /\ modified' = {}
          /\ stakeNodes' = FetchStakeNode(FetchStakeNode(stakeNodes, n), Parent[n])
          /\ \/ /\ StoreFaults
                /\ ReturnError(w)
                /\ UNCHANGED <<tip, snapshot, db>>
             \/ /\ db' = [best |-> Parent[n], utxo |-> view[w],
                          journal |-> db.journal \ {n},
                          work |-> WorkSum(n), totalTxns |-> total]
                /\ tip' = Parent[n]
                /\ snapshot' = [hash |-> Parent[n], numTxns |-> TxCount[n],
                                totalTxns |-> total]
                /\ lock' = NoWriter
                /\ pc' = [pc EXCEPT ![w] = "ntfyDisconnected"]

-----------------------------------------------------------------------------
(* Notifications are sent with chainLock released; the writer then waits  *)
(* to re-acquire it.                                                       *)

AfterNtfy == [ntfyConnected |-> "afterConnected",
              ntfyDisconnected |-> "afterDisconnected",
              ntfyReorg |-> "afterReorg",
              ntfyReorgDone |-> "afterReorgDone"]

\* Variant in which BlockDisconnected leaves the subscriber unchanged.
SendNotificationNoDisconnect(w) ==
    /\ pc[w] \in DOMAIN AfterNtfy
    /\ pc' = [pc EXCEPT ![w] = AfterNtfy[pc[w]]]
    /\ subTip' = IF pc[w] = "ntfyConnected" THEN cur[w] ELSE subTip
    /\ UNCHANGED <<chainVars, statusVars, lock, cur, mode, detach, attach, view>>

\* sendNotification: the subscriber follows BlockConnected and
\* BlockDisconnected to track the tip.
SendNotification(w) ==
    /\ pc[w] \in DOMAIN AfterNtfy
    /\ pc' = [pc EXCEPT ![w] = AfterNtfy[pc[w]]]
    /\ subTip' = CASE pc[w] = "ntfyConnected"    -> cur[w]
                   [] pc[w] = "ntfyDisconnected" -> Parent[cur[w]]
                   [] OTHER                      -> subTip
    /\ UNCHANGED <<chainVars, statusVars, lock, cur, mode, detach, attach, view>>

\* Rest of connectBlock: stake notifications (which read node.stakeNode),
\* the stake-node drop below the checkpoint, push the block into the
\* main-chain cache; on the extend path connectBestChain then returns.
AfterConnected(w) ==
    /\ pc[w] = "afterConnected"
    /\ lock = NoWriter
    /\ stakeNodes' = DropParentStakeNode(stakeNodes, cur[w])
    /\ cache' = PushMainChainBlockCache(cache, cur[w])
    /\ lock' = IF mode[w] = "extend" THEN NoWriter ELSE w
    /\ pc' = [pc EXCEPT ![w] = IF mode[w] = "extend" THEN "idle" ELSE "reorgStep"]
    /\ UNCHANGED <<index, tip, snapshot, db, statusVars, cur, mode, detach,
                   attach, view, subTip>>

\* Rest of disconnectBlock: drop the block from the main-chain cache.
AfterDisconnected(w) ==
    /\ pc[w] = "afterDisconnected"
    /\ lock = NoWriter
    /\ lock' = w
    /\ cache' = DropMainChainBlockCache(cache, cur[w])
    /\ pc' = [pc EXCEPT ![w] = "reorgStep"]
    /\ UNCHANGED <<index, tip, snapshot, db, stakeNodes, statusVars, cur, mode, detach,
                   attach, view, subTip>>

\* Variant that keeps the check-phase view for phase 2.
AfterReorgStaleView(w) ==
    /\ pc[w] = "afterReorg"
    /\ lock = NoWriter
    /\ lock' = w
    /\ pc' = [pc EXCEPT ![w] = "reorgStep"]
    /\ UNCHANGED <<chainVars, statusVars, cur, mode, detach, attach, view, subTip>>

\* After ChainReorgStarted: a fresh view at the old best for phase 2.
AfterReorg(w) ==
    /\ pc[w] = "afterReorg"
    /\ lock = NoWriter
    /\ lock' = w
    /\ view' = [view EXCEPT ![w] = db.utxo]
    /\ pc' = [pc EXCEPT ![w] = "reorgStep"]
    /\ UNCHANGED <<chainVars, statusVars, cur, mode, detach, attach, subTip>>

\* After ChainReorgDone: the caller's flushBlockIndexWarnOnly, then return.
AfterReorgDone(w) ==
    /\ pc[w] = "afterReorgDone"
    /\ lock = NoWriter
    /\ FlushWarnOnly(status, modified)
    /\ Release(w)
    /\ UNCHANGED <<chainVars, cur, mode, detach, attach, view, subTip>>

-----------------------------------------------------------------------------
(* HeightRange, run without chainLock: it reads bestChain.Tip() and later  *)
(* bestChain.NodeByHeight, each atomic in the chain view, and walks        *)
(* parent pointers, which never change.                                   *)

\* chainView.NodeByHeight on the view whose tip is tip: nil above the tip.
NodeByHeight(h) ==
    IF h \in 0..Height(tip)
    THEN CHOOSE b \in MainChainOf(tip) : Height(b) = h
    ELSE NoBlock

\* k hashes from n up through its parents, n first.
RECURSIVE WalkBack(_, _)
WalkBack(n, k) == IF k = 0 THEN <<>> ELSE <<n>> \o WalkBack(Parent[n], k - 1)

\* The loop of HeightRange from the node at height e-1: hashes[e-i-1] is
\* filled for i from s to e-1, so the result is in forward order.
HeightRangeHashes(n, s, e) == Reverse(WalkBack(n, e - s))

\* HeightRange(s, e) up to NodeByHeight: the argument checks, the early
\* returns, latestHeight from the tip and the clamping of endHeight.
HeightRangeStart(r, s, e) ==
    LET latest == Height(tip)
    IN /\ rpc[r] = "idle"
       /\ s <= e
       /\ IF s = e \/ s > latest
          THEN /\ rng' = [rng EXCEPT ![r] = [start |-> s, end |-> s]]
               /\ result' = [result EXCEPT ![r] = <<>>]
               /\ UNCHANGED rpc
          ELSE /\ rng' = [rng EXCEPT ![r] = [start |-> s,
                              end |-> IF e > latest + 1 THEN latest + 1 ELSE e]]
               /\ rpc' = [rpc EXCEPT ![r] = "walk"]
               /\ UNCHANGED result

\* iterNode := NodeByHeight(endHeight - 1) and the loop; a nil iterNode is
\* dereferenced (iterNode.hash) and the goroutine panics.
HeightRangeWalk(r) ==
    LET n == NodeByHeight(rng[r].end - 1)
    IN /\ rpc[r] = "walk"
       /\ IF n = NoBlock
          THEN /\ rpc' = [rpc EXCEPT ![r] = "panic"]
               /\ UNCHANGED result
          ELSE /\ rpc' = [rpc EXCEPT ![r] = "idle"]
               /\ result' = [result EXCEPT ![r] =
                                HeightRangeHashes(n, rng[r].start, rng[r].end)]
       /\ UNCHANGED rng

-----------------------------------------------------------------------------
(* locateInventory / locateBlocks, run under chainLock.RLock by            *)
(* LocateBlocks and LocateHeaders.  A locator is a sequence of hashes; a   *)
(* hash outside index is unknown to LookupNode.                            *)

\* blockIndex.LookupNode: the node of a known hash, nil otherwise.
LookupNode(h) == IF h \in index THEN h ELSE NoBlock

\* chainView.Next: the main-chain child of n, nil at the tip or off chain.
ChainNext(n) ==
    IF n \in MainChainOf(tip) /\ n # tip
    THEN CHOOSE c \in MainChainOf(tip) : Parent[c] = n
    ELSE NoBlock

\* Variant that ignores a stop node at the start node's own height.
LocateInventoryStopAbove(locator, hashStop, maxEntries) ==
    LET stopNode == LookupNode(hashStop)
        k        == SelectInSeq(locator, LAMBDA h :
                        LookupNode(h) # NoBlock /\ h \in MainChainOf(tip))
        start    == ChainNext(IF k = 0 THEN Genesis ELSE locator[k])
        toTip    == Height(tip) - Height(start) + 1
        total    == IF stopNode # NoBlock /\ stopNode \in MainChainOf(tip)
                       /\ Height(stopNode) > Height(start)
                    THEN Height(stopNode) - Height(start) + 1 ELSE toTip
    IN CASE locator = <<>> /\ stopNode = NoBlock -> [node |-> NoBlock, total |-> 0]
         [] locator = <<>>                       -> [node |-> stopNode, total |-> 1]
         [] start = NoBlock                      -> [node |-> NoBlock, total |-> 0]
         [] OTHER -> [node |-> start,
                      total |-> IF total > maxEntries THEN maxEntries ELSE total]

\* locateInventory: with no locator the stop hash itself, if known;
\* otherwise the node after the first locator hash on the main chain (or
\* after genesis) and how many nodes to return up to the stop node, the
\* tip or maxEntries.
LocateInventory(locator, hashStop, maxEntries) ==
    LET stopNode == LookupNode(hashStop)
        k        == SelectInSeq(locator, LAMBDA h :
                        LookupNode(h) # NoBlock /\ h \in MainChainOf(tip))
        start    == ChainNext(IF k = 0 THEN Genesis ELSE locator[k])
        toTip    == Height(tip) - Height(start) + 1
        total    == IF stopNode # NoBlock /\ stopNode \in MainChainOf(tip)
                       /\ Height(stopNode) >= Height(start)
                    THEN Height(stopNode) - Height(start) + 1 ELSE toTip
    IN CASE locator = <<>> /\ stopNode = NoBlock -> [node |-> NoBlock, total |-> 0]
         [] locator = <<>>                       -> [node |-> stopNode, total |-> 1]
         [] start = NoBlock                      -> [node |-> NoBlock, total |-> 0]
         [] OTHER -> [node |-> start,
                      total |-> IF total > maxEntries THEN maxEntries ELSE total]

\* The loop of locateBlocks: total hashes following chainView.Next.
RECURSIVE NextWalk(_, _)
NextWalk(n, k) == IF k = 0 THEN <<>> ELSE <<n>> \o NextWalk(ChainNext(n), k - 1)

\* locateBlocks: the hashes of the located nodes.
LocateBlocks(locator, hashStop, maxHashes) ==
    LET r == LocateInventory(locator, hashStop, maxHashes)
    IN IF r.total = 0 THEN <<>> ELSE NextWalk(r.node, r.total)

\* locateHeaders: node.Header() of the same nodes; a header stands for the
\* block it describes.
LocateHeaders(locator, hashStop, maxHeaders) ==
    LET r == LocateInventory(locator, hashStop, maxHeaders)
    IN IF r.total = 0 THEN <<>> ELSE NextWalk(r.node, r.total)

-----------------------------------------------------------------------------
(* Version queries: isMajorityVersion (under chainLock) and                *)
(* GetStakeVersions (no chainLock; it reads the index status).            *)

\* The loop of isMajorityVersion: at most BlockUpgradeNumToCheck nodes
\* back from iterNode, stopping once numRequired are found or at genesis.
RECURSIVE MajorityVersionLoop(_, _, _, _, _)
MajorityVersionLoop(minVer, iterNode, numRequired, i, numFound) ==
    IF i < BlockUpgradeNumToCheck /\ numFound < numRequired /\ iterNode # NoBlock
    THEN MajorityVersionLoop(minVer, Parent[iterNode], numRequired, i + 1,
             IF BlockVersion[iterNode] >= minVer THEN numFound + 1 ELSE numFound)
    ELSE numFound >= numRequired

\* Variant whose loop counter starts at one.
IsMajorityVersionShortWindow(minVer, startNode, numRequired) ==
    MajorityVersionLoop(minVer, startNode, numRequired, 1, 0)

IsMajorityVersion(minVer, startNode, numRequired) ==
    MajorityVersionLoop(minVer, startNode, numRequired, 0, 0)

\* The loop of GetStakeVersions: one entry per node from prevNode back,
\* count of them; an entry (hash, height, versions, votes) stands for the
\* node it describes.
RECURSIVE StakeVersionsWalk(_, _)
StakeVersionsWalk(prevNode, count) ==
    IF prevNode = NoBlock \/ count = 0 THEN <<>>
    ELSE <<prevNode>> \o StakeVersionsWalk(Parent[prevNode], count - 1)

\* Variant that limits count to the start node's height.
GetStakeVersionsClampHeight(hash, count) ==
    IF hash \notin index \/ ~KnownValid(status, hash)
    THEN [err |-> "notKnown", versions |-> <<>>]
    ELSE IF count = 0 THEN [err |-> "none", versions |-> <<>>]
    ELSE IF count < 0 THEN [err |-> "negativeCount", versions |-> <<>>]
    ELSE [err |-> "none",
          versions |-> StakeVersionsWalk(hash, IF count > Height(hash)
                                               THEN Height(hash) ELSE count)]

\* GetStakeVersions: the start block must be known and validated; a zero
\* count returns nothing, a negative one an error; count is limited to
\* the start block's height + 1.
GetStakeVersions(hash, count) ==
    IF hash \notin index \/ ~KnownValid(status, hash)
    THEN [err |-> "notKnown", versions |-> <<>>]
    ELSE IF count = 0 THEN [err |-> "none", versions |-> <<>>]
    ELSE IF count < 0 THEN [err |-> "negativeCount", versions |-> <<>>]
    ELSE [err |-> "none",
          versions |-> StakeVersionsWalk(hash, IF count > Height(hash) + 1
                                               THEN Height(hash) + 1 ELSE count)]

-----------------------------------------------------------------------------
Quiescent == \A w \in Writers : pc[w] = "idle"

\* Every block that can still be processed has been: the run is over.
Done ==
    /\ Quiescent
    /\ \A b \in Blocks \ index : Parent[b] \notin index \/ KnownInvalid(status, Parent[b])
    /\ ~ForceReorgs

Terminating == Done /\ UNCHANGED vars

\* The steps of a call already under way (not starting a new one).
WriterStep(w) ==
    /\ UNCHANGED readerVars
    /\ \/ ConnectBestChain(w)
       \/ DetachStep(w)
       \/ AttachStep(w)
       \/ ReorgDone(w)
       \/ ConnectBlock(w)
       \/ DisconnectBlock(w)
       \/ SendNotification(w)
       \/ AfterConnected(w)
       \/ AfterDisconnected(w)
       \/ AfterReorg(w)
       \/ AfterReorgDone(w)

Next ==
    \/ \E w \in Writers :
          \/ \E b \in Blocks : AcceptBlock(w, b) /\ UNCHANGED readerVars
          \/ \E former, new \in Blocks :
                ForceHeadReorganization(w, former, new) /\ UNCHANGED readerVars
          \/ WriterStep(w)
    \/ \E r \in Readers :
          /\ \/ \E s, e \in QueryHeights : HeightRangeStart(r, s, e)
             \/ HeightRangeWalk(r)
          /\ UNCHANGED <<chainVars, statusVars, writerVars, subTip>>
    \/ Terminating

Spec == Init /\ [][Next]_vars

\* A goroutine inside ProcessBlock keeps running: weak fairness of its steps.
\* New calls are never forced.
Fairness == \A w \in Writers : WF_vars(WriterStep(w))

FairSpec == Spec /\ Fairness

\* The durable store as ChainStore describes it: the persisted best block,
\* UTXO set and spend journal of db.
Store == INSTANCE ChainStore WITH best <- db.best, utxo <- db.utxo,
                                  journal <- db.journal

-----------------------------------------------------------------------------
(* Properties.                                                             *)

TypeOK ==
    /\ index \subseteq Blocks /\ Genesis \in index
    /\ status \in [Blocks -> SUBSET Flags]
    /\ dbStatus \in [Blocks -> SUBSET Flags]
    /\ modified \subseteq index
    /\ tip \in index
    /\ snapshot \in [hash : Blocks, numTxns : Nat, totalTxns : Nat]
    /\ db \in [best : Blocks, utxo : SUBSET Blocks, journal : SUBSET Blocks,
               work : Nat, totalTxns : Nat]
    /\ cache \subseteq Blocks
    /\ lock \in Writers \cup {NoWriter}
    /\ pc \in [Writers -> PCs]
    /\ cur \in [Writers -> Blocks]
    /\ mode \in [Writers -> {"extend", "reorg"}]
    /\ detach \in [Writers -> Seq(Blocks)]
    /\ attach \in [Writers -> Seq(Blocks)]
    /\ view \in [Writers -> SUBSET Blocks]
    /\ stakeNodes \subseteq Blocks
    /\ subTip \in Blocks
    /\ rpc \in [Readers -> {"idle", "walk", "panic"}]
    /\ rng \in [Readers -> [start : QueryHeights, end : Nat]]
    /\ result \in [Readers -> Seq(Blocks)]

\* connectBlock / disconnectBlock write the best state, the utxo view and the
\* spend journal in one transaction: the durable record always describes
\* one chain, the in-memory tip, and the snapshot's running TotalTxns.  This
\* depends on phase 2 of reorganizeChain starting from a fresh view.
DurableStateMatchesTip ==
    /\ db.best = tip
    /\ snapshot.hash = tip
    /\ db.utxo = MainChainOf(tip)
    /\ db.journal = MainChainOf(tip) \ {Genesis}
    /\ db.totalTxns = snapshot.totalTxns
    /\ snapshot.totalTxns = MapThenSumSet(LAMBDA b : TxCount[b], MainChainOf(tip))

\* After a crash at any point, every block of the durable best chain has a
\* flushed statusValid: connectBlock flushes the index before db.Update.
DurableMainChainValid ==
    \A b \in MainChainOf(db.best) : "valid" \in dbStatus[b]

\* statusValidateFailed is only set on blocks checkConnectBlock rejects,
\* statusInvalidAncestor only below such a block, statusValid never on or
\* below one (getReorganizeNodes, reorganizeChain, connectBestChain and
\* forceHeadReorganization all set these flags).
InvalidMarksSound ==
    \A b \in index :
        /\ "validateFailed" \in status[b] => b \in Bad
        /\ "invalidAncestor" \in status[b] =>
               AncestorsOrSelf(Parent[b]) \cap Bad # {}
        /\ "valid" \in status[b] => AncestorsOrSelf(b) \cap Bad = {}

\* Chain selection: when no writer is running and no store failure or
\* forced reorganization happened, no block in the index that is not known
\* to descend from an invalid block has more work than the tip.
TipHasMostWork ==
    Quiescent =>
        \A b \in index :
            WorkSum(b) > WorkSum(tip) =>
                \E a \in AncestorsOrSelf(b) : KnownInvalid(status, a)

\* A subscriber that follows BlockConnected / BlockDisconnected knows the
\* tip once every writer has returned.
SubscriberTracksTip == Quiescent => subTip = tip

\* Every BlockConnected extends the subscriber's tip and every
\* BlockDisconnected removes it: notifications arrive in chain order.
NotificationOrder ==
    [][\A w \in Writers :
         /\ (pc[w] = "ntfyConnected" /\ pc'[w] = "afterConnected")
                => Parent[cur[w]] = subTip
         /\ (pc[w] = "ntfyDisconnected" /\ pc'[w] = "afterDisconnected")
                => cur[w] = subTip]_vars

\* Once the writers are done, the main-chain cache holds only blocks of the
\* main chain within CacheSize of the tip (pushMainChainBlockCache and
\* dropMainChainBlockCache).
CacheWindow ==
    Quiescent =>
        \A b \in cache : b \in MainChainOf(tip) /\ Height(b) > Height(tip) - CacheSize

\* The panicf assertions of connectBlock ("connects to block ... instead of
\* extending the best chain") and disconnectBlock / reorganizeChain ("is not
\* the end of the best chain") never fire.
NoPanic ==
    \A w \in Writers :
        /\ pc[w] = "connectBlock" => Parent[cur[w]] = tip
        /\ pc[w] = "disconnectBlock" => cur[w] = tip

\* Refinement: every db.Update of connectBlock / disconnectBlock is a step
\* of ChainStore, connecting a valid child of the persisted best block with
\* exactly its effects added to the UTXO set, or disconnecting the best block
\* with exactly its effects removed; every other step leaves the store alone.
\* It needs the check phase of reorganizeChain to keep rejected blocks out,
\* and the views built by connectBestChain and reorganizeChain to start at
\* the persisted state.
StoreRefinement == Store!Spec

\* Every call of ProcessBlock / ForceHeadReorganization returns: every
\* reorganization reaches its deferred ChainReorgDone and every path
\* through connectBestChain, connectBlock and disconnectBlock, error paths
\* included, ends with chainLock released.
CallsReturn ==
    \A w \in Writers : pc[w] # "idle" ~> (pc[w] = "idle" /\ lock # w)

\* HeightRange is "safe for concurrent access": the node NodeByHeight
\* returns for the clamped endHeight - 1 is never nil.
HeightRangeNoPanic == \A r \in Readers : rpc[r] # "panic"

\* The documented result of LocateBlocks, stated by heights: with no
\* locator, the stop hash if it is known; otherwise the main-chain blocks
\* above the first locator hash on the main chain (genesis if none is),
\* in order, up to and including the stop hash when it is on the main chain
\* above that block, and at most maxHashes of them.
LocateBlocksSpec(locator, hashStop, maxHashes) ==
    LET main  == MainChainOf(tip) \cap index
        onMain == {i \in 1..Len(locator) : locator[i] \in main}
        from  == IF onMain = {} THEN Genesis
                 ELSE locator[CHOOSE i \in onMain : \A j \in onMain : i <= j]
        last  == IF hashStop \in main /\ Height(hashStop) > Height(from)
                 THEN Height(hashStop) ELSE Height(tip)
        count == IF last - Height(from) > maxHashes THEN maxHashes
                 ELSE last - Height(from)
    IN IF locator = <<>>
       THEN IF hashStop \in index THEN <<hashStop>> ELSE <<>>
       ELSE [i \in 1..count |->
               CHOOSE b \in main : Height(b) = Height(from) + i]

\* Locators of up to two distinct hashes, known or not.
Locators == {<<>>} \cup {<<h>> : h \in Blocks}
            \cup {<<h1, h2>> : h1, h2 \in Blocks}

\* Whenever a reader can take chainLock.RLock, locateBlocks and
\* locateHeaders return exactly the documented blocks, for every locator,
\* stop hash and maximum.
LocateBlocksCorrect ==
    lock = NoWriter =>
        \A loc \in Locators, stop \in Blocks, max \in QueryHeights :
            /\ LocateBlocks(loc, stop, max) = LocateBlocksSpec(loc, stop, max)
            /\ LocateHeaders(loc, stop, max) = LocateBlocksSpec(loc, stop, max)

\* What isMajorityVersion decides: among the last BlockUpgradeNumToCheck
\* blocks ending at startNode (fewer near genesis), at least numRequired
\* have a version of at least minVer.
MajorityVersionSpec(minVer, startNode, numRequired) ==
    LET window == {b \in AncestorsOrSelf(startNode) :
                      Height(startNode) - Height(b) < BlockUpgradeNumToCheck}
    IN Cardinality({b \in window : BlockVersion[b] >= minVer}) >= numRequired

\* isMajorityVersion, with its early exit once numRequired are found and
\* its stop at genesis, decides the majority over exactly the window of
\* BlockUpgradeNumToCheck blocks, for every indexed start node, version
\* and required count (including 0 and more than the window holds).
MajorityVersionCorrect ==
    \A start \in index, minVer \in Range(BlockVersion),
       numRequired \in 0..(BlockUpgradeNumToCheck + 1) :
        IsMajorityVersion(minVer, start, numRequired)
            = MajorityVersionSpec(minVer, start, numRequired)

\* What GetStakeVersions documents: for a known, validated block, the
\* min(count, height + 1) blocks ending at it, newest first.
StakeVersionsSpec(hash, count) ==
    LET n == IF count > Height(hash) + 1 THEN Height(hash) + 1 ELSE count
    IN [i \in 1..n |-> CHOOSE b \in AncestorsOrSelf(hash) :
                          Height(b) = Height(hash) - (i - 1)]

\* GetStakeVersions, read without chainLock while writers change the
\* status flags, fails exactly for unknown or not yet validated blocks and
\* negative counts, and otherwise returns the documented blocks for every
\* count, including counts beyond genesis.
StakeVersionsCorrect ==
    \A hash \in Blocks, count \in {-1} \cup QueryHeights :
        LET r == GetStakeVersions(hash, count)
        IN IF hash \notin index \/ ~KnownValid(status, hash) \/ count < 0
           THEN r.err # "none"
           ELSE r = [err |-> "none", versions |-> StakeVersionsSpec(hash, count)]

\* The rest of connectBlock, run after re-acquiring chainLock, never
\* dereferences nil: the stake notifications read node.stakeNode, which is
\* still in memory, and the checkpoint drop writes
\* bestChain.Tip().parent.stakeNode, so the tip is not the genesis block.
StakeNoNilDeref ==
    \A w \in Writers :
        pc[w] = "afterConnected" =>
            /\ Height(cur[w]) >= StakeEnabledHeight => cur[w] \in stakeNodes
            /\ Height(cur[w]) < CheckpointHeight => Parent[tip] # NoBlock

\* Once the writers are idle the tip's stake node is in memory: the
\* pruner starts below pruneToNode, the checkpoint drop takes a parent, and
\* disconnectBlock re-fetches the new tip's.
StakeTipInMemory ==
    Quiescent => tip \in stakeNodes

\* Spec 4.7: main-chain nodes older than the retention band (height at or
\* below tip.height - minMemoryNodes) have no stake node in memory.
StakeNodesInBand ==
    \A b \in stakeNodes \cap MainChainOf(tip) :
        Height(b) > Height(tip) - MinMemoryNodes

\* The BestState published after disconnectBlock describes its tip: NumTxns
\* is the tip block's own transaction count, as after connectBlock.
SnapshotDescribesTip == snapshot.numTxns = TxCount[snapshot.hash]

\* The best-state record stores the work sum of the best block it names.
DbBestWorkMatchesTip == db.work = WorkSum(db.best)

=============================================================================
