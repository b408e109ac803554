------------------------- MODULE MCMasternodeSync -------------------------
(* A small instance of MasternodeSync: one connection at a time, two items, *)
(* one resync and one reset. *)
EXTENDS MasternodeSync, TLC
===========================================================================
