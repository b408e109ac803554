----------------------------- MODULE MCSwiftTX -----------------------------
(* Two transactions that spend one output in common; the first spends     *)
(* another as well.                                                        *)
EXTENDS SwiftTX, TLC
CONSTANTS t1, t2, a, b, m1, m2

TwoInputs  == (t1 :> {a, b}) @@ (t2 :> {b})
(* The second masternode may find the inputs too new. *)
LateVotes  == (m1 :> {5}) @@ (m2 :> {0, 5})
=============================================================================
