--------------------------- MODULE MCMasternodes ---------------------------
(* The masternode h, the operator's wallet w, and a node p between them.   *)
EXTENDS Masternodes
CONSTANTS h, w, p
=============================================================================
