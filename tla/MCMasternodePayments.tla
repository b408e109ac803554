----------------------- MODULE MCMasternodePayments -----------------------
EXTENDS MasternodePayments, TLC

CONSTANTS m1, m2

(* m1 and m2 take themselves for voters for the payees of 2, where two are  *)
(* a quorum; m1 alone votes for the block before it, that is for nobody.    *)
(* A vote for nobody is one for height 0.                                   *)
RankedByHeight == (0 :> {m1}) @@ (1 :> {m1}) @@ (2 :> {m1, m2}) @@ (3 :> {})

Symmetry == Permutations(Payee)
=============================================================================
