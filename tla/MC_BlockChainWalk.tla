------------------------- MODULE MC_BlockChainWalk --------------------------
(***************************************************************************)
(* A tree that reaches the known-invalid walk of getReorganizeNodes:       *)
(*                                                                         *)
(*      G -> A1                        work 3                              *)
(*      G -> X1 -> X2 -> Y -> W        work 1, 1 (invalid), 1, 2           *)
(*                   \-> Z             work 2                              *)
(*                                                                         *)
(* With A1 as the tip, X1, X2 and Y are inert side blocks.  Z is heavier:  *)
(* its reorganization fails in the check phase at X2, which is marked      *)
(* statusValidateFailed and Z statusInvalidAncestor, but Y stays unmarked. *)
(* W, accepted on Y, is heavier still; walking up from W, getReorganizeNodes*)
(* meets X2 known invalid and marks W and Y.  In other orders X2 is        *)
(* checked before Y or W arrive, and they are never accepted.             *)
(***************************************************************************)
EXTENDS BlockChain, TLC

CONSTANTS G, A1, X1, X2, Y, Z, W, w1, r1

WalkBlocks == {G, A1, X1, X2, Y, Z, W}

WalkParent == (G :> NoBlock) @@ (A1 :> G) @@ (X1 :> G) @@ (X2 :> X1)
              @@ (Y :> X2) @@ (Z :> X2) @@ (W :> Y)

WalkWork == (G :> 1) @@ (A1 :> 3) @@ (X1 :> 1) @@ (X2 :> 1) @@ (Y :> 1)
            @@ (Z :> 2) @@ (W :> 2)

WalkTxCount == (G :> 1) @@ (A1 :> 2) @@ (X1 :> 2) @@ (X2 :> 1) @@ (Y :> 2)
               @@ (Z :> 1) @@ (W :> 1)

WalkBad == {X2}

WalkWriters == {w1}
WalkReaders == {}
WalkQueryHeights == 0..1

\* header.Version of each block.
WalkVersion == [b \in WalkBlocks |-> IF b \in {A1, Y, W} THEN 2 ELSE 1]
=============================================================================
