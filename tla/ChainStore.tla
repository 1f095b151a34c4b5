----------------------------- MODULE ChainStore -----------------------------
(***************************************************************************)
(* What the durable store promises (spec 4.6.4, 4.6.5): the persisted     *)
(* best block, UTXO set and spend journal move together, one block at a   *)
(* time, by connecting a valid child of the best block or disconnecting   *)
(* the best block; the UTXO set holds the effects of exactly the best     *)
(* chain and the journal has an entry for each of its non-genesis blocks. *)
(* The set of blocks is a tree given by Parent; Bad are the blocks that   *)
(* fail validation.                                                       *)
(***************************************************************************)
CONSTANTS Blocks, Genesis, Parent, Bad

VARIABLES best, utxo, journal

storeVars == <<best, utxo, journal>>

Init ==
    /\ best = Genesis
    /\ utxo = {Genesis}
    /\ journal = {}

\* Connect a valid child b of the best block.
ConnectTip(b) ==
    /\ Parent[b] = best
    /\ b \notin Bad
    /\ best' = b
    /\ utxo' = utxo \cup {b}
    /\ journal' = journal \cup {b}

\* Disconnect the best block, restoring its parent's state.
DisconnectTip ==
    /\ best # Genesis
    /\ best' = Parent[best]
    /\ utxo' = utxo \ {best}
    /\ journal' = journal \ {best}

Next == (\E b \in Blocks : ConnectTip(b)) \/ DisconnectTip

Spec == Init /\ [][Next]_storeVars

====
