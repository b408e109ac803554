------------------------------- MODULE Ledger -------------------------------
(* The unspent coins under the blocks that come and go, the memory pool,   *)
(* and the orphan transactions: ConnectTip, DisconnectTip, the handler of  *)
(* "tx", and what they do to coins, undo data, mapTx, mapNextTx and        *)
(* mapOrphanTransactions.  All of it runs under cs_main.                   *)
(*                                                                         *)
(* Which block comes next is left open (BlockTree has the choice).  Values *)
(* and scripts are left out: a transaction is its inputs, its outputs and  *)
(* its kind, and PoolRefuses says which ones the pool does not take for    *)
(* their fee, form, scripts or a lock.  Zerocoin spends have no inputs     *)
(* among the coins; their serials are in ChainState.                       *)
EXTENDS Naturals, Sequences, FiniteSets

CONSTANTS
    Tx,
    Kind,           \* "coinbase", "coinstake", "zerocoinspend" or "normal"
    Inputs,         \* the outpoints <<tx, n>> a transaction spends
    Outs,           \* the numbers of its outputs
    PoolRefuses,
    Block, Genesis, Parent,
    Path,           \* the blocks from the genesis block to a block
    Vtx,            \* the transactions of a block, in order
    Maturity,       \* COINBASE_MATURITY
    Peer, MaxOrphans, None

VARIABLES
    coins,          \* pcoinsTip
    undo,           \* the undo data in the files, NoUndo for a new block
    tip,            \* chainActive.Tip()
    mapTx, mapNextTx,
    orphans,        \* mapOrphanTransactions: the peer each came from
    work,           \* vWorkQueue of the handler of "tx", from where it is
    untried,           \* orphans it has still to try for the first of work
    erase,          \* vEraseQueue
    misbehaving,    \* setMisbehaving
    accepted        \* all that has been in vWorkQueue

chainVars == <<coins, undo, tip>>
poolVars == <<mapTx, mapNextTx>>
handlerVars == <<orphans, work, untried, erase, misbehaving, accepted>>
ledgerVars == <<chainVars, poolVars, handlerVars>>

ASSUME TxAssumption ==
    /\ IsFiniteSet(Tx) /\ None \notin Tx \cup Peer
    /\ Kind \in [Tx -> {"coinbase", "coinstake", "zerocoinspend", "normal"}]
    /\ Outs \in [Tx -> SUBSET Nat]
    /\ Inputs \in [Tx -> SUBSET (Tx \X Nat)]
    /\ \A t \in Tx : Inputs[t] = {} <=> Kind[t] \in {"coinbase", "zerocoinspend"}

(* CheckBlock refuses a block that has a transaction twice. *)
ASSUME BlockAssumption ==
    /\ Genesis \in Block
    /\ Parent \in [Block -> Block]
    /\ Path \in [Block -> SUBSET Block] /\ Path[Genesis] = {Genesis}
    /\ \A b \in Block : IsFiniteSet(Path[b])
    /\ \A b \in Block \ {Genesis} :
          b \notin Path[Parent[b]] /\ Path[b] = Path[Parent[b]] \cup {b}
    /\ Vtx \in [Block -> Seq(Tx)] /\ Vtx[Genesis] = <<>>
    /\ \A b \in Block : \A i, j \in DOMAIN Vtx[b] : Vtx[b][i] = Vtx[b][j] => i = j

ASSUME MaturityAssumption == Maturity \in Nat

Height(b) == Cardinality(Path[b]) - 1
Outpoint == UNION {Inputs[t] : t \in Tx}

(* CTxInUndo, for a transaction whose last output was spent. *)
UndoEntry == [by : Tx, of : Tx, height : Nat, base : BOOLEAN, stake : BOOLEAN]
NoUndo == {None}
ASSUME UndoAssumption == None \notin UndoEntry

-----------------------------------------------------------------------------
(* CCoins: of a transaction without unspent outputs nothing is kept. *)
Spent == [avail |-> {}, height |-> 0, base |-> FALSE, stake |-> FALSE]
FromTx(t, h) ==
    IF Outs[t] = {} THEN Spent
    ELSE [avail |-> Outs[t], height |-> h, base |-> Kind[t] = "coinbase",
          stake |-> Kind[t] = "coinstake"]

SpentBy(t, p) == {n \in Outs[p] : <<p, n>> \in Inputs[t]}
HaveInputs(view, t) == \A o \in Inputs[t] : o[2] \in view[o[1]].avail
CheckInputs(view, t, h) ==
    /\ HaveInputs(view, t)
    /\ \A o \in Inputs[t] :
          LET c == view[o[1]] IN c.base \/ c.stake => h >= c.height + Maturity

(* UpdateCoins; the undo data keeps height and kind of a transaction whose *)
(* last output is spent.                                                   *)
UpdateCoins(view, t, h) ==
    [p \in Tx |->
        IF p = t THEN FromTx(t, h)
        ELSE IF SpentBy(t, p) = {} THEN view[p]
        ELSE IF view[p].avail = SpentBy(t, p) THEN Spent
        ELSE [view[p] EXCEPT !.avail = @ \ SpentBy(t, p)]]
TxUndo(view, t) ==
    {[by |-> t, of |-> p, height |-> view[p].height, base |-> view[p].base,
      stake |-> view[p].stake] :
        p \in {q \in Tx : SpentBy(t, q) # {} /\ view[q].avail = SpentBy(t, q)}}

(* ConnectBlock.  No output of a transaction may be overwritten (BIP30). *)
Contents(b) == {Vtx[b][i] : i \in DOMAIN Vtx[b]}
InChain(t, at) == \E b \in Path[at] : t \in Contents(b)
ConnectTx(h, st, t) ==
    [ok |-> st.ok /\ CheckInputs(st.view, t, h),
     view |-> UpdateCoins(st.view, t, h),
     undo |-> st.undo \cup TxUndo(st.view, t)]
ConnectBlock(view, b) ==
    LET after[i \in 0 .. Len(Vtx[b])] ==
            IF i = 0
            THEN [ok |-> \A t \in Contents(b) :
                            /\ view[t].avail = {}
                            /\ Kind[t] = "zerocoinspend" => ~InChain(t, Parent[b]),
                  view |-> view, undo |-> {}]
            ELSE ConnectTx(Height(b), after[i-1], Vtx[b][i])
    IN  after[Len(Vtx[b])]

(* DisconnectBlock, the last transaction first.  The outputs must all be   *)
(* there.  Clear() resets the coinstake flag, and nothing sets it again.   *)
RestoreInputsPlain(view, t, undoes) ==      \* mutant: the coinbase flag is lost
    [p \in Tx |->
        IF SpentBy(t, p) = {} THEN view[p]
        ELSE IF \E u \in undoes : u.by = t /\ u.of = p
          THEN LET u == CHOOSE u \in undoes : u.by = t /\ u.of = p
               IN  [avail |-> SpentBy(t, p), height |-> u.height,
                    base |-> FALSE, stake |-> FALSE]
        ELSE [view[p] EXCEPT !.avail = @ \cup SpentBy(t, p)]]
RestoreInputs(view, t, undoes) ==
    [p \in Tx |->
        IF SpentBy(t, p) = {} THEN view[p]
        ELSE IF \E u \in undoes : u.by = t /\ u.of = p
          THEN LET u == CHOOSE u \in undoes : u.by = t /\ u.of = p
               IN  [avail |-> SpentBy(t, p), height |-> u.height,
                    base |-> u.base, stake |-> FALSE]
        ELSE [view[p] EXCEPT !.avail = @ \cup SpentBy(t, p)]]
RestoreIsClean(view, t, undoes) ==
    \A p \in Tx : SpentBy(t, p) # {} =>
        /\ (view[p].avail = {}) <=> (\E u \in undoes : u.by = t /\ u.of = p)
        /\ view[p].avail \cap SpentBy(t, p) = {}
DisconnectTx(b, t, st) ==
    LET view == [st.view EXCEPT ![t] = Spent]
    IN  [clean |-> /\ st.clean
                   /\ st.view[t] = FromTx(t, Height(b))
                   /\ RestoreIsClean(view, t, undo[b]),
         view |-> RestoreInputs(view, t, undo[b])]
DisconnectBlock(b) ==
    LET before[i \in 0 .. Len(Vtx[b])] ==     \* the last i are taken back
            IF i = 0 THEN [clean |-> TRUE, view |-> coins]
            ELSE DisconnectTx(b, Vtx[b][Len(Vtx[b]) - i + 1], before[i-1])
    IN  before[Len(Vtx[b])]

-----------------------------------------------------------------------------
(* CTxMemPool: its transactions and the one that spends an outpoint. *)
Pool == [txs |-> mapTx, next |-> mapNextTx]
NoSpender == [o \in Outpoint |-> None]

addUnchecked(pool, t) ==
    [txs |-> pool.txs \cup {t},
     next |-> [o \in Outpoint |-> IF o \in Inputs[t] THEN t ELSE pool.next[o]]]

(* remove, of a transaction alone or with what spends it in the pool. *)
Erased(pool, gone) ==
    [txs |-> pool.txs \ gone,
     next |-> [o \in Outpoint |->
                 IF \E t \in gone : o \in Inputs[t] THEN None ELSE pool.next[o]]]
Spenders(pool, T) ==
    {pool.next[o] : o \in {x \in Outpoint : x[1] \in T}} \ {None}
WithSpenders(pool, T) ==
    LET reach[n \in 0 .. Cardinality(Tx)] ==
            IF n = 0 THEN T ELSE reach[n-1] \cup Spenders(pool, reach[n-1])
    IN  reach[Cardinality(Tx)]
removeAlone(pool, t) == IF t \in pool.txs THEN Erased(pool, {t}) ELSE pool
removeNotBelow(pool, T) == Erased(pool, T \cap pool.txs)     \* mutant
removeAll(pool, T) == Erased(pool, WithSpenders(pool, T) \cap pool.txs)

removeConflicts(pool, t) ==
    removeAll(pool, {pool.next[o] : o \in Inputs[t]} \ {None, t})
removeForBlock(pool, b) ==
    LET after[i \in 0 .. Len(Vtx[b])] ==
            IF i = 0 THEN pool
            ELSE removeConflicts(removeAlone(after[i-1], Vtx[b][i]), Vtx[b][i])
    IN  after[Len(Vtx[b])]

(* removeCoinbaseSpends.  The empty prevout of a zerocoin spend names no   *)
(* coins, so every zerocoin spend goes as well.                            *)
Premature(pool, cs, h) ==
    {t \in pool.txs :
        \/ Kind[t] = "zerocoinspend"
        \/ \E o \in Inputs[t] :
              /\ o[1] \notin pool.txs
              /\ LET c == cs[o[1]]
                 IN  \/ c.avail = {}
                     \/ (c.base \/ c.stake) /\ h < c.height + Maturity}
removeCoinbaseSpends(pool, cs, h) == removeAll(pool, Premature(pool, cs, h))

(* AcceptToMemoryPool on coins that end in a block of the given height,    *)
(* CCoinsViewMemPool showing the pool's transactions over them.            *)
PoolView(pool, cs, h) ==
    [p \in Tx |-> IF p \in pool.txs THEN FromTx(p, h + 1) ELSE cs[p]]
Fresh(pool, t) ==
    /\ t \notin pool.txs
    /\ Kind[t] \in {"normal", "zerocoinspend"}
    /\ \A o \in Inputs[t] : pool.next[o] = None
fMissingInputs(pool, cs, t) ==
    /\ Fresh(pool, t)
    /\ cs[t].avail = {}
    /\ \E o \in Inputs[t] : o[1] \notin pool.txs /\ cs[o[1]].avail = {}
Acceptable(pool, cs, h, t) ==
    /\ Fresh(pool, t) /\ t \notin PoolRefuses
    /\ IF Kind[t] = "zerocoinspend" THEN ~InChain(t, tip)
       ELSE /\ cs[t].avail = {}
            /\ CheckInputs(PoolView(pool, cs, h), t, h + 1)

(* Back into the pool with the transactions of a block that was taken off. *)
Resurrect(pool, cs, h, b) ==
    LET after[i \in 0 .. Len(Vtx[b])] ==
            IF i = 0 THEN pool
            ELSE IF Acceptable(after[i-1], cs, h, Vtx[b][i])
                 THEN addUnchecked(after[i-1], Vtx[b][i])
                 ELSE removeAll(after[i-1], {Vtx[b][i]})
    IN  after[Len(Vtx[b])]

-----------------------------------------------------------------------------
LedgerInit ==
    /\ coins = [t \in Tx |-> Spent]
    /\ undo = [b \in Block |-> NoUndo]
    /\ tip = Genesis
    /\ mapTx = {} /\ mapNextTx = NoSpender
    /\ orphans = [t \in Tx |-> None]
    /\ work = <<>> /\ untried = {} /\ erase = {} /\ misbehaving = {}
    /\ accepted = {}

HandlerIdle == work = <<>>

PoolIs(pool) == mapTx' = pool.txs /\ mapNextTx' = pool.next

LedgerConnectTip(b) ==
    /\ HandlerIdle /\ Parent[b] = tip
    /\ LET st == ConnectBlock(coins, b)
       IN  /\ st.ok
           /\ coins' = st.view
           /\ undo' = [undo EXCEPT ![b] = IF @ = NoUndo THEN st.undo ELSE @]
    /\ tip' = b
    /\ PoolIs(removeForBlock(Pool, b))
    /\ UNCHANGED handlerVars

LedgerDisconnectTip ==
    /\ HandlerIdle /\ tip # Genesis
    /\ LET st == DisconnectBlock(tip)
           h  == Height(tip)
       IN  /\ st.clean
           /\ coins' = st.view
           /\ PoolIs(removeCoinbaseSpends(Resurrect(Pool, st.view, h - 1, tip),
                                          st.view, h))
    /\ tip' = Parent[tip]
    /\ UNCHANGED <<undo, handlerVars>>

(* CreateNewBlock, when its own block does not pass TestBlockValidity. *)
ClearPool ==
    /\ HandlerIdle
    /\ PoolIs([txs |-> {}, next |-> NoSpender])
    /\ UNCHANGED <<chainVars, handlerVars>>

(* The wallet and the RPCs put a transaction in the pool without orphans. *)
AcceptOwn(t) ==
    /\ HandlerIdle /\ Acceptable(Pool, coins, Height(tip), t)
    /\ PoolIs(addUnchecked(Pool, t))
    /\ UNCHANGED <<chainVars, handlerVars>>

-----------------------------------------------------------------------------
(* The handler of "tx". *)
OrphansOf(t) ==
    {o \in Tx : orphans[o] # None /\ \E x \in Inputs[o] : x[1] = t}

ReceiveTx(t) ==
    /\ HandlerIdle /\ Acceptable(Pool, coins, Height(tip), t)
    /\ PoolIs(addUnchecked(Pool, t))
    /\ IF Kind[t] = "zerocoinspend" THEN UNCHANGED <<work, untried, accepted>>
       ELSE work' = <<t>> /\ untried' = OrphansOf(t) /\ accepted' = {t}
    /\ UNCHANGED <<chainVars, orphans, erase, misbehaving>>

(* AddOrphanTx and LimitOrphanTxSize, which evicts a random orphan. *)
ReceiveOrphan(t, peer) ==
    /\ HandlerIdle /\ fMissingInputs(Pool, coins, t) /\ orphans[t] = None
    /\ LET held == [orphans EXCEPT ![t] = peer]
           all  == {o \in Tx : held[o] # None}
       IN  IF Cardinality(all) <= MaxOrphans THEN orphans' = held
           ELSE \E o \in all : orphans' = [held EXCEPT ![o] = None]
    /\ UNCHANGED <<chainVars, poolVars, work, untried, erase, misbehaving, accepted>>

(* One orphan that spends the first of the queue: accepted, still missing  *)
(* inputs, or refused, and then its peer may be punished.                  *)
OrphanAcceptedLast(o) ==    \* mutant: what depends on an orphan is not tried
    /\ o \in untried /\ orphans[o] \notin misbehaving
    /\ Acceptable(Pool, coins, Height(tip), o)
    /\ PoolIs(addUnchecked(Pool, o))
    /\ accepted' = accepted \cup {o}
    /\ erase' = erase \cup {o}
    /\ untried' = untried \ {o}
    /\ UNCHANGED <<chainVars, orphans, misbehaving, work>>

OrphanAccepted(o) ==
    /\ o \in untried /\ orphans[o] \notin misbehaving
    /\ Acceptable(Pool, coins, Height(tip), o)
    /\ PoolIs(addUnchecked(Pool, o))
    /\ work' = Append(work, o) /\ accepted' = accepted \cup {o}
    /\ erase' = erase \cup {o}
    /\ untried' = untried \ {o}
    /\ UNCHANGED <<chainVars, orphans, misbehaving>>

OrphanRefused(o) ==
    /\ o \in untried /\ orphans[o] \notin misbehaving
    /\ ~Acceptable(Pool, coins, Height(tip), o)
    /\ ~fMissingInputs(Pool, coins, o)
    /\ erase' = erase \cup {o}
    /\ misbehaving' \in {misbehaving, misbehaving \cup {orphans[o]}}
    /\ untried' = untried \ {o}
    /\ UNCHANGED <<chainVars, poolVars, orphans, work, accepted>>

OrphanWaits(o) ==
    /\ o \in untried
    /\ orphans[o] \in misbehaving \/ fMissingInputs(Pool, coins, o)
    /\ untried' = untried \ {o}
    /\ UNCHANGED <<chainVars, poolVars, orphans, work, erase, misbehaving, accepted>>

NextWork ==
    /\ work # <<>> /\ untried = {}
    /\ work' = Tail(work)
    /\ IF Len(work) > 1
         THEN untried' = OrphansOf(work[2]) /\ UNCHANGED <<orphans, erase, misbehaving, accepted>>
         ELSE /\ orphans' = [o \in Tx |-> IF o \in erase THEN None ELSE orphans[o]]
              /\ untried' = {} /\ erase' = {} /\ misbehaving' = {} /\ accepted' = {}
    /\ UNCHANGED <<chainVars, poolVars>>

(* EraseOrphansFor, when a peer has gone. *)
EraseOrphansFor(peer) ==
    /\ HandlerIdle
    /\ orphans' = [o \in Tx |-> IF orphans[o] = peer THEN None ELSE orphans[o]]
    /\ UNCHANGED <<chainVars, poolVars, work, untried, erase, misbehaving, accepted>>

LedgerNext ==
    \/ \E b \in Block \ {Genesis} : LedgerConnectTip(b)
    \/ LedgerDisconnectTip
    \/ ClearPool
    \/ \E t \in Tx : AcceptOwn(t) \/ ReceiveTx(t)
    \/ \E t \in Tx, p \in Peer : ReceiveOrphan(t, p)
    \/ \E o \in Tx :
          OrphanAccepted(o) \/ OrphanRefused(o) \/ OrphanWaits(o)
    \/ NextWork
    \/ \E p \in Peer : EraseOrphansFor(p)

LedgerSpec == LedgerInit /\ [][LedgerNext]_ledgerVars

-----------------------------------------------------------------------------
(* After any way of connecting and disconnecting, the coins are those of a  *)
(* node that connected the active chain alone, but for one flag: a          *)
(* coinstake all of whose outputs a connected block has spent, the empty    *)
(* first one too, comes back without fCoinStake.  So DisconnectBlock does   *)
(* not quite undo "the effects of this block".                              *)
CoinsOf[b \in Block] ==
    IF b = Genesis THEN [t \in Tx |-> Spent]
    ELSE ConnectBlock(CoinsOf[Parent[b]], b).view
SpentOnce(t) == \E b \in Block : undo[b] # NoUndo /\ \E u \in undo[b] : u.of = t
CoinsAreOfChain ==
    LET alone == CoinsOf[tip]
    IN  \A t \in Tx :
           \/ coins[t] = alone[t]
           \/ /\ Kind[t] = "coinstake" /\ SpentOnce(t)
              /\ coins[t] = [alone[t] EXCEPT !.stake = FALSE]

(* Every pool transaction but a zerocoin spend could be in the next block:  *)
(* its inputs are outputs of the pool or unspent coins that may be spent    *)
(* there, and mapNextTx holds these inputs and no others.  A zerocoin spend *)
(* of the pool is in no block of the active chain.  CTxMemPool::check makes *)
(* its assertions for every input of every entry, so it fails at any        *)
(* zerocoin spend, whose input is no coin and is not in mapNextTx.          *)
PoolStands ==
    /\ \A t \in mapTx :
          IF Kind[t] = "zerocoinspend" THEN ~InChain(t, tip)
          ELSE /\ CheckInputs(PoolView(Pool, coins, Height(tip)), t, Height(tip) + 1)
               /\ \A o \in Inputs[t] : mapNextTx[o] = t
    /\ \A o \in Outpoint :
          mapNextTx[o] # None => mapNextTx[o] \in mapTx /\ o \in Inputs[mapNextTx[o]]

(* When the handler of "tx" has come to its end, no orphan is left behind  *)
(* that spends a transaction it took and could be taken now, unless its    *)
(* peer was punished meanwhile.                                            *)
OrphansFollow ==
    work # <<>> /\ Len(work) = 1 /\ untried = {} =>
        \A o \in Tx \ erase :
            (\E a \in accepted : o \in OrphansOf(a)) =>
                \/ orphans[o] \in misbehaving
                \/ ~Acceptable(Pool, coins, Height(tip), o)
=============================================================================
