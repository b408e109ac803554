---------------------------- MODULE MCBlockSync ----------------------------
(* Blocks 1 to 4 in a row and block 5 beside block 3.  Node "c" dials the  *)
(* other two, which are not linked; it starts with the genesis block and   *)
(* they with all blocks, or all have two blocks and one node a third.      *)
EXTENDS BlockSync, TLC

Blocks == 0 .. 5
BranchOf == (0 :> <<0>>) @@ (1 :> <<0, 1>>) @@ (2 :> <<0, 1, 2>>)
            @@ (3 :> <<0, 1, 2, 3>>) @@ (4 :> <<0, 1, 2, 3, 4>>)
            @@ (5 :> <<0, 1, 2, 5>>)
Nodes == {"c", "s", "t"}
OneAhead == {[n \in Nodes |-> IF n = "s" THEN 0 .. 3 ELSE 0 .. 2]}
Starts == OneAhead \cup {[n \in Nodes |-> IF n = "c" THEN {0} ELSE Blocks]}
Dials == {<<"c", "s">>, <<"c", "t">>}
=============================================================================
