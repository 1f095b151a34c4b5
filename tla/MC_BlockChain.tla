--------------------------- MODULE MC_BlockChain ---------------------------
(***************************************************************************)
(* A block tree for checking BlockChain:                                   *)
(*                                                                         *)
(*      G -> A1 -> A2                  work 1 each                         *)
(*             \-> C2                  work 2                              *)
(*      G -> B1 -> B2                  work 1, 2                           *)
(*                                                                         *)
(* checkConnectBlock rejects B2 and C2.  Processing the blocks in every    *)
(* order gives: extending the tip, inert side chains (B1 beside A1),       *)
(* an extend that fails (B2 on B1), a reorganization that succeeds         *)
(* (B1 -> A1, A2: one detached, two attached), check phases that fail at   *)
(* once (A2 -> C2) or after validating a block (A2 -> B1, B2 and           *)
(* B1 -> A1, C2), and attach walks that stop at a known-invalid block.     *)
(* A1/B1 and A2/C2 are siblings for ForceHeadReorganization.  Transaction *)
(* counts differ between each block and its parent so that BestState      *)
(* fields tell them apart.                                                 *)
(***************************************************************************)
EXTENDS BlockChain, TLC

CONSTANTS G, A1, A2, B1, B2, C2, w1, w2, r1

MCBlocks == {G, A1, A2, B1, B2, C2}

MCParent == (G :> NoBlock) @@ (A1 :> G) @@ (A2 :> A1) @@ (C2 :> A1)
            @@ (B1 :> G) @@ (B2 :> B1)

MCWork == (G :> 1) @@ (A1 :> 1) @@ (A2 :> 1) @@ (C2 :> 2) @@ (B1 :> 1) @@ (B2 :> 2)

MCTxCount == (G :> 1) @@ (A1 :> 1) @@ (A2 :> 2) @@ (C2 :> 1) @@ (B1 :> 2) @@ (B2 :> 1)

MCBad == {B2, C2}

\* With C2 accepted, C2 can extend A1 while A1 is an intermediate tip.
MCBadB2 == {B2}

MCOneWriter == {w1}
MCTwoWriters == {w1, w2}

MCNoReaders == {}
MCOneReader == {r1}

\* Heights 0..3: start and end below, at and above the tallest tip (2).
MCQueryHeights == 0..3

\* header.Version: the A branch upgrades to version 2 before B2.
MCBlockVersion == (G :> 1) @@ (A1 :> 2) @@ (A2 :> 2) @@ (C2 :> 1) @@ (B1 :> 1) @@ (B2 :> 2)
=============================================================================
