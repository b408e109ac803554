--------------------------- MODULE MCConnections ----------------------------
(* Two threads compete for the slots, with one peer that may call. *)
EXTENDS Connections

=============================================================================
