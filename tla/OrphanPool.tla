----------------------------- MODULE OrphanPool -----------------------------
(***************************************************************************)
(* The orphan pool of src/blockchain/chain.go: orphans, prevOrphans and   *)
(* oldestOrphan, changed by addOrphanBlock and removeOrphanBlock and read  *)
(* by GetOrphanRoot.                                                       *)
(*                                                                         *)
(* An orphan is identified by its hash; PrevOf gives header.PrevBlock.    *)
(* Time is an integer clock that only moves forward (time.Now); an orphan *)
(* expires Lifetime ticks after it was added (time.Hour).  The caller of  *)
(* addOrphanBlock (ProcessBlock, outside chain.go) rejects a block that is *)
(* known or already an orphan; when a block is accepted, processOrphans   *)
(* accepts the orphans that build on it and removes them from the pool;  *)
(* both are modelled from the spec.                                       *)
(***************************************************************************)
EXTENDS Naturals, Sequences, SequencesExt, FiniteSets, Functions, TLC

CONSTANTS
    Hashes,      \* hashes of blocks that may arrive
    Root,        \* a block in the index from the start (its parent)
    PrevOf,      \* PrevOf[h]: header.PrevBlock of block h
    MaxOrphans,  \* maxOrphanBlocks
    Lifetime,    \* time.Hour, in clock ticks
    MaxTime,     \* bound on the clock
    NoOrphan     \* nil *orphanBlock

ASSUME /\ MaxOrphans \in Nat \ {0}
       /\ Lifetime \in Nat \ {0}
       /\ MaxTime \in Nat
       /\ Root \notin Hashes

VARIABLES
    orphans,       \* b.orphans: hash -> expiration of the orphanBlock
    prevOrphans,   \* b.prevOrphans: parent hash -> orphanBlocks, in order
    oldestOrphan,  \* b.oldestOrphan: an orphanBlock [hash, exp] or NoOrphan
    now,           \* time.Now()
    known          \* blocks in the block index

vars == <<orphans, prevOrphans, oldestOrphan, now, known>>

Record(h, e) == [hash |-> h, exp |-> e]

-----------------------------------------------------------------------------
(* removeOrphanBlock(o): delete o's hash from orphans, every entry with     *)
(* that hash from the parent's bucket, and the bucket once it is empty.     *)
(* It works on hashes, so removing a record that is no longer in the pool  *)
(* changes nothing.                                                        *)

Bucket(prev, p) == IF p \in DOMAIN prev THEN prev[p] ELSE <<>>

\* Variant of removeOrphanBlock that keeps the emptied bucket.
RemoveOrphanBlockKeepBucket(prev, o) ==
    LET p    == PrevOf[o.hash]
        rest == SelectSeq(Bucket(prev, p), LAMBDA r : r.hash # o.hash)
    IN [q \in DOMAIN prev \cup {p} |-> IF q = p THEN rest ELSE prev[q]]

\* removeOrphanBlock on the prevOrphans map (the orphans map is updated
\* by the caller, which deletes o.hash).
RemoveOrphanBlock(prev, o) ==
    LET p    == PrevOf[o.hash]
        rest == SelectSeq(Bucket(prev, p), LAMBDA r : r.hash # o.hash)
    IN IF rest = <<>> THEN Restrict(prev, DOMAIN prev \ {p})
       ELSE [q \in DOMAIN prev \cup {p} |-> IF q = p THEN rest ELSE prev[q]]

RECURSIVE RemoveAll(_, _)
\* removeOrphanBlock on every record of the set S, in any order.
RemoveAll(prev, S) ==
    IF S = {} THEN prev
    ELSE LET o == CHOOSE x \in S : TRUE
         IN RemoveAll(RemoveOrphanBlock(prev, o), S \ {o})

-----------------------------------------------------------------------------
(* addOrphanBlock(h), called for a block that is neither in the index    *)
(* nor already an orphan.                                                  *)

\* The value of oldestOrphan after the expiry loop, over the records that
\* did not expire.  The loop visits b.orphans in Go's random map order and
\* replaces the pointer when it is nil or the visited record expires
\* strictly earlier; with several records of the earliest expiration, any
\* of them may end up chosen.
OldestAfterLoop(live) ==
    LET minimal == {r \in live : \A s \in live : r.exp <= s.exp}
    IN IF live = {} THEN {oldestOrphan}
       ELSE IF oldestOrphan # NoOrphan
               /\ \A r \in live : ~(r.exp < oldestOrphan.exp)
            THEN {oldestOrphan}
            ELSE minimal

\* Variant of the expiration that adds the hour twice.
ExpirationTwice(t) == t + 2 * Lifetime

\* time.Now().Add(time.Hour).
Expiration(t) == t + Lifetime

\* len(b.orphans)+1 > maxOrphanBlocks.
AtCapacity(n) == n + 1 > MaxOrphans

\* Variant that keeps the evicted record as oldestOrphan.
OldestAfterAddKept(full, oldest) == oldest

\* b.oldestOrphan = nil after the eviction at capacity.
OldestAfterAdd(full, oldest) == IF full THEN NoOrphan ELSE oldest

\* Remove expired orphans while updating oldestOrphan; at capacity remove
\* oldestOrphan and reset it to nil; insert h with expiration now + 1 hour
\* and append it to its parent's bucket.
AddOrphanBlock(h) ==
    /\ h \notin DOMAIN orphans
    /\ h \notin known
    /\ PrevOf[h] \notin known
    /\ LET recs    == {Record(x, orphans[x]) : x \in DOMAIN orphans}
           expired == {r \in recs : now > r.exp}
           live    == recs \ expired
           prev1   == RemoveAll(prevOrphans, expired)
           new     == Record(h, Expiration(now))
       IN \E oldest \in OldestAfterLoop(live) :
            LET full  == AtCapacity(Cardinality(live))
                gone  == expired \cup (IF full THEN {oldest} ELSE {})
                prev2 == IF full THEN RemoveOrphanBlock(prev1, oldest) ELSE prev1
                keep  == DOMAIN orphans \ {r.hash : r \in gone}
                p     == PrevOf[h]
            IN /\ orphans' = Restrict(orphans, keep) @@ (h :> new.exp)
               /\ prevOrphans' = [q \in DOMAIN prev2 \cup {p} |->
                                    IF q = p THEN Bucket(prev2, p) \o <<new>>
                                    ELSE prev2[q]]
               /\ oldestOrphan' = OldestAfterAdd(full, oldest)
    /\ UNCHANGED <<now, known>>

RECURSIVE OrphanDescendants(_)
\* The orphans that build on h, directly or through other orphans.
OrphanDescendants(h) ==
    LET children == {o \in DOMAIN orphans : PrevOf[o] = h}
    IN children \cup UNION {OrphanDescendants(c) : c \in children}

\* A block whose parent is known is accepted; processOrphans then accepts
\* every orphan building on it, calling removeOrphanBlock on each.
AcceptBlock(h) ==
    LET promoted == OrphanDescendants(h) \cup ({h} \cap DOMAIN orphans)
    IN /\ h \notin known
       /\ PrevOf[h] \in known
       /\ known' = known \cup {h} \cup promoted
       /\ orphans' = Restrict(orphans, DOMAIN orphans \ promoted)
       /\ prevOrphans' = RemoveAll(prevOrphans,
                                   {Record(o, orphans[o]) : o \in promoted})
       /\ UNCHANGED <<oldestOrphan, now>>

\* Time passes.
Tick ==
    /\ now < MaxTime
    /\ now' = now + 1
    /\ UNCHANGED <<orphans, prevOrphans, oldestOrphan, known>>

-----------------------------------------------------------------------------
\* Variant of GetOrphanRoot that returns prevHash, the first hash that is
\* not an orphan, instead of orphanRoot.
RECURSIVE GetOrphanRootPastEnd(_)
GetOrphanRootPastEnd(h) ==
    IF h \in DOMAIN orphans THEN GetOrphanRootPastEnd(PrevOf[h]) ELSE h

\* GetOrphanRoot(h): follow PrevBlock while the hash is an orphan.
RECURSIVE GetOrphanRoot(_)
GetOrphanRoot(h) ==
    IF h \in DOMAIN orphans /\ PrevOf[h] \in DOMAIN orphans
    THEN GetOrphanRoot(PrevOf[h])
    ELSE h

Init ==
    /\ orphans = <<>>
    /\ prevOrphans = <<>>
    /\ oldestOrphan = NoOrphan
    /\ now = 0
    /\ known = {Root}

\* Every block is in the index and the clock is at its bound.
Terminating ==
    /\ known = Hashes \cup {Root}
    /\ now = MaxTime
    /\ UNCHANGED vars

Next ==
    \/ \E h \in Hashes : AddOrphanBlock(h) \/ AcceptBlock(h)
    \/ Tick
    \/ Terminating

Spec == Init /\ [][Next]_vars

-----------------------------------------------------------------------------
(* Properties.                                                             *)

TypeOK ==
    /\ DOMAIN orphans \subseteq Hashes
    /\ \A h \in DOMAIN orphans : orphans[h] \in 0..(MaxTime + Lifetime)
    /\ \A p \in DOMAIN prevOrphans :
          prevOrphans[p] \in Seq([hash : Hashes, exp : 0..(MaxTime + Lifetime)])
    /\ oldestOrphan \in [hash : Hashes, exp : 0..(MaxTime + Lifetime)] \cup {NoOrphan}
    /\ now \in 0..MaxTime
    /\ known \subseteq Hashes \cup {Root}

\* prevOrphans indexes exactly the orphans of b.orphans, each once, under
\* its parent, and holds no empty bucket: addOrphanBlock and
\* removeOrphanBlock keep the two maps in step.
PrevIndexConsistent ==
    /\ \A p \in DOMAIN prevOrphans :
          /\ prevOrphans[p] # <<>>
          /\ \A i \in 1..Len(prevOrphans[p]) :
                LET r == prevOrphans[p][i]
                IN /\ r.hash \in DOMAIN orphans
                   /\ r.exp = orphans[r.hash]
                   /\ PrevOf[r.hash] = p
    /\ \A h \in DOMAIN orphans :
          /\ PrevOf[h] \in DOMAIN prevOrphans
          /\ Cardinality({i \in 1..Len(prevOrphans[PrevOf[h]]) :
                            prevOrphans[PrevOf[h]][i].hash = h}) = 1

\* "Limit orphan blocks to prevent memory exhaustion": the pool never holds
\* more than maxOrphanBlocks orphans.
PoolBounded == Cardinality(DOMAIN orphans) <= MaxOrphans

\* The pool overshoots maxOrphanBlocks by at most one: the eviction at
\* capacity misses only when oldestOrphan is stale, and it is reset to nil
\* every time it is used.
PoolOvershootAtMostOne == Cardinality(DOMAIN orphans) <= MaxOrphans + 1

\* GetOrphanRoot returns the farthest ancestor of h that is an orphan (h
\* itself when its parent is not): its parent is not an orphan, and every
\* hash on the way is.
OrphanRootIsRoot ==
    \A h \in DOMAIN orphans :
        LET r == GetOrphanRoot(h)
        IN /\ r \in DOMAIN orphans
           /\ PrevOf[r] \notin DOMAIN orphans
           /\ \E path \in BoundedSeq(DOMAIN orphans, Cardinality(Hashes)) :
                 /\ path # <<>> /\ path[1] = h /\ Last(path) = r
                 /\ \A i \in 1..(Len(path) - 1) : PrevOf[path[i]] = path[i + 1]

====
