---------------------------- MODULE MCCheckQueue ----------------------------
(* Two workers and a block of up to four checks, one of which fails.       *)
EXTENDS CheckQueue
CONSTANTS w1, w2, c1, c2, c3, c4
=============================================================================
