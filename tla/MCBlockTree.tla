---------------------------- MODULE MCBlockTree ----------------------------
(* Block trees for BlockTree; block 0 is the genesis block. *)
EXTENDS BlockTree

(* Two chains and a block on genesis:           0 - 1 - 2
                                               |\ 3 - 4 - 5
                                                \ 6          *)
ForkBlock  == 0 .. 6
ForkParent == [b \in ForkBlock |-> IF b \in {0, 3, 6} THEN 0 ELSE b - 1]

(* Two chains above a first block:             0 - 1 - 2
                                                    \ 3 - 4      *)
LateBlock  == 0 .. 4
LateParent == [b \in LateBlock |-> CASE b = 0 -> 0 [] b = 3 -> 1 [] OTHER -> b - 1]

PathIn(B, parent) ==
    LET path[b \in B] == IF b = 0 THEN {0} ELSE {b} \cup path[parent[b]]
    IN  path

ForkPath    == PathIn(ForkBlock, ForkParent)
ForkHeight  == [b \in ForkBlock |-> Cardinality(ForkPath[b]) - 1]
LatePath    == PathIn(LateBlock, LateParent)
LateHeight  == [b \in LateBlock |-> Cardinality(LatePath[b]) - 1]

ForkAddress == [b \in ForkBlock |-> b]
LateAddress == [b \in LateBlock |-> b]
=============================================================================
