------------------------------ MODULE MCLedger ------------------------------
(* Transactions and blocks for Ledger.  Coinbases that nobody spends are    *)
(* left out of the blocks.                                                  *)
EXTENDS Ledger, TLC

(* c is a coinbase with two outputs; a and d both spend the first, f takes  *)
(* the second as well as what d made; b follows a, and e follows f, which   *)
(* the coinstake s spends as well.  k spends all of s, the empty output 0   *)
(* too, for which the pool refuses it.  g spends b and a zerocoin spend, z. *)
PoolTx == {"c", "a", "b", "d", "f", "e", "s", "k", "z", "g"}
PoolKind == [t \in PoolTx |-> CASE t = "c" -> "coinbase" [] t = "s" -> "coinstake"
                                [] t = "z" -> "zerocoinspend" [] OTHER -> "normal"]
PoolInputs ==
    ("c" :> {}) @@ ("z" :> {}) @@ ("a" :> {<<"c", 1>>}) @@ ("d" :> {<<"c", 1>>})
    @@ ("b" :> {<<"a", 1>>}) @@ ("f" :> {<<"c", 2>>, <<"d", 1>>})
    @@ ("e" :> {<<"f", 1>>}) @@ ("s" :> {<<"f", 1>>})
    @@ ("g" :> {<<"b", 1>>, <<"z", 1>>}) @@ ("k" :> {<<"s", 0>>, <<"s", 1>>})
PoolOuts == [t \in PoolTx |-> CASE t = "c" -> {1, 2} [] t = "s" -> {0, 1} [] OTHER -> {1}]

(*  0 - 1 (c) - 2 - 3 (a) - 4 (b, z)
                  \ 5 (d, f) - 6 (s) - 7 - 8 (k)
                                     \ 9 (k)
    In 9 the coinstake is too young to be spent.   *)
PoolBlock == 0 .. 9
PoolParent == [b \in PoolBlock |-> CASE b = 0 -> 0 [] b = 5 -> 2 [] b = 9 -> 6 [] OTHER -> b - 1]
PoolPath ==
    LET path[b \in PoolBlock] == IF b = 0 THEN {0} ELSE {b} \cup path[PoolParent[b]]
    IN  path
PoolVtx == (0 :> <<>>) @@ (1 :> <<"c">>) @@ (2 :> <<>>) @@ (3 :> <<"a">>)
           @@ (4 :> <<"b", "z">>) @@ (5 :> <<"d", "f">>) @@ (6 :> <<"s">>)
           @@ (7 :> <<>>) @@ (8 :> <<"k">>) @@ (9 :> <<"k">>)
=============================================================================
