------------------------------ MODULE CoinsMap ------------------------------
(***************************************************************************)
(* What the unspent-output database promises to the block-processing code: *)
(* one map from transaction id to unspent outputs, with the block it       *)
(* belongs to, edited through drafts that are committed as a whole or      *)
(* forgotten, and a durable copy that a restart goes back to.              *)
(* CoinsCache implements it with two caches over a key-value database.     *)
(***************************************************************************)
CONSTANTS Txid,      \* transaction ids
          Coins,     \* what a transaction's outputs can look like
          Pruned,    \* the value with every output spent
          Block,     \* block hashes
          NullBlock  \* uint256(0): no block

VARIABLES coins,     \* the committed map
          best,      \* the block whose state it is
          draft,     \* the draft being edited
          drafting,  \* is there one?
          durable,   \* the map a restart finds
          durableBest

vars == <<coins, best, draft, drafting, durable, durableBest>>

AllSpent == [t \in Txid |-> Pruned]

Init ==
    /\ coins = AllSpent /\ draft = AllSpent /\ durable = AllSpent
    /\ best = NullBlock /\ durableBest = NullBlock
    /\ drafting = FALSE

Begin ==
    /\ ~drafting
    /\ drafting' = TRUE
    /\ draft' = coins
    /\ UNCHANGED <<coins, best, durable, durableBest>>

Edit(t, c) ==
    /\ drafting
    /\ draft' = [draft EXCEPT ![t] = c]
    /\ UNCHANGED <<coins, best, drafting, durable, durableBest>>

Commit(b) ==
    /\ drafting
    /\ drafting' = FALSE
    /\ coins' = draft
    /\ best' = b
    /\ UNCHANGED <<draft, durable, durableBest>>

Forget ==
    /\ drafting
    /\ drafting' = FALSE
    /\ draft' = coins
    /\ UNCHANGED <<coins, best, durable, durableBest>>

Persist ==
    /\ ~drafting
    /\ durable' = coins
    /\ durableBest' = best
    /\ UNCHANGED <<coins, best, draft, drafting>>

Restart ==
    /\ coins' = durable /\ draft' = durable
    /\ best' = durableBest
    /\ drafting' = FALSE
    /\ UNCHANGED <<durable, durableBest>>

Next ==
    \/ Begin
    \/ \E t \in Txid, c \in Coins : Edit(t, c)
    \/ \E b \in Block : Commit(b)
    \/ Forget
    \/ Persist
    \/ Restart

Spec == Init /\ [][Next]_vars
=============================================================================
