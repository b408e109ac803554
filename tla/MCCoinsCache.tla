---------------------------- MODULE MCCoinsCache ----------------------------
(* CoinsCache on two transactions, two unspent values and two blocks. *)
EXTENDS CoinsCache, TLC
=============================================================================
