---------------------------- MODULE MCChainState ----------------------------
(* Block 1 spends a serial with t1, block 2 beside it with t2; block 3 on   *)
(* block 2 makes the better chain, block 4 spends the serial again and is   *)
(* refused, block 5 on block 1 is invalid.                                  *)
EXTENDS ChainState, TLC

Blocks == 0 .. 5
ParentOf == [b \in Blocks |-> IF b = 3 THEN 2 ELSE IF b = 4 THEN 3 ELSE IF b = 5 THEN 1 ELSE 0]
PathOf == (0 :> {0}) @@ (1 :> {0, 1}) @@ (2 :> {0, 2}) @@ (3 :> {0, 2, 3})
          @@ (4 :> {0, 2, 3, 4}) @@ (5 :> {0, 1, 5})
Tx == {"t1", "t2"}
SerialOf == [t \in Tx |-> "s"]
TxIn == [b \in Blocks |-> IF b \in {1, 4} THEN "t1" ELSE IF b = 2 THEN "t2" ELSE None]
=============================================================================
