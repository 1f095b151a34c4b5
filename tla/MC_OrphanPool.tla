--------------------------- MODULE MC_OrphanPool ---------------------------
(* Six blocks above the root G: X and Y build on G, O1 on X, O2 and O4   *)
(* on Y, O3 on O1.  Four blocks can be orphans at once, waiting for two   *)
(* different parents, and GetOrphanRoot walks a chain of two.  The pool   *)
(* holds two orphans and an orphan lives two ticks, so expiry, promotion  *)
(* and eviction at capacity interleave within four ticks.                 *)
EXTENDS OrphanPool

CONSTANTS G, X, Y, O1, O2, O3, O4

MCHashes == {X, Y, O1, O2, O3, O4}

MCPrevOf == [h \in MCHashes |-> CASE h = X  -> G
                                  [] h = Y  -> G
                                  [] h = O1 -> X
                                  [] h = O2 -> Y
                                  [] h = O3 -> O1
                                  [] h = O4 -> Y]

====
