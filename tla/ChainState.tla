----------------------------- MODULE ChainState -----------------------------
(* What a node keeps on disk and how it starts again: block and undo files *)
(* with their sizes, the block index and the transaction index in LevelDB, *)
(* the coin database's best block, and the zerocoin database of spent      *)
(* serials.  main.cpp writes them one after the other, so every step below *)
(* ends where the process may die; Crash keeps what has been written.      *)
(*                                                                         *)
(* Block selection is that of BlockTree without its candidate set: the     *)
(* node works towards a block of most work whose chain is complete and not *)
(* failed.  Which of several it takes is left open, for after a restart    *)
(* the order of arrival is forgotten.  Loss of power, which may undo       *)
(* writes that were not synced, is not modelled.                           *)
EXTENDS Naturals, FiniteSets

CONSTANTS
    Block, Genesis, Parent,
    Path,           \* the blocks from the genesis block to a block
    Zerotx,         \* transactions that spend a zerocoin
    Serial,         \* the serial number each of them reveals
    ZerotxIn,       \* the one a block holds, or None
    Unconnectable,  \* blocks ConnectBlock refuses after its look at serials
    CheckBlocks,    \* -checkblocks
    None

ASSUME ChainAssumption ==
    /\ Genesis \in Block
    /\ Parent \in [Block -> Block]
    /\ Path \in [Block -> SUBSET Block]
    /\ Path[Genesis] = {Genesis}
    /\ \A b \in Block : IsFiniteSet(Path[b])
    /\ \A b \in Block \ {Genesis} :
          b \notin Path[Parent[b]] /\ Path[b] = Path[Parent[b]] \cup {b}
    /\ CheckBlocks \in Nat

ASSUME ZerocoinAssumption ==
    /\ None \notin Block /\ None \notin Zerotx
    /\ ZerotxIn \in [Block -> Zerotx \cup {None}]
    /\ ZerotxIn[Genesis] = None

VARIABLES
    \* on disk
    blkFile, revFile,   \* blocks whose data, whose undo data can be read
    fileInfo,           \* what the files hold by their recorded sizes
    diskIndex,          \* the flags of each block's index record, {} if none
    coinsBest,          \* the 'B' record of the coin database
    spendOf,            \* zerocoinDB: the transaction recorded for a serial
    txIndex,            \* the block in which a transaction was last indexed
    \* in memory
    index, dirty,       \* mapBlockIndex, setDirtyBlockIndex
    cacheBest,          \* the best block of pcoinsTip
    chainTip,           \* chainActive.Tip()
    goal, oldTip,       \* of the ActivateBestChainStep under way
    verified,           \* pindexState of VerifyDB
    fVerifyingBlocks,
    pc

diskVars == <<blkFile, revFile, fileInfo, diskIndex, coinsBest, spendOf, txIndex>>
taskVars == <<goal, oldTip, verified, fVerifyingBlocks>>
storeVars == <<diskVars, index, dirty, cacheBest, chainTip, taskVars, pc>>

(* "blank" marks the entry that InsertBlockIndex makes for a parent which  *)
(* is not in the database: it has no parent itself.                        *)
Flag == {"header", "data", "undo", "failed", "blank"}
Steps == {"idle", "connecting", "files", "index", "newTip", "verify",
          "reconnect", "refused", "off"}
Serials == {Serial[t] : t \in Zerotx}
Work(b) == Cardinality(Path[b])

StoreTypeOK ==
    /\ blkFile \subseteq Block /\ revFile \subseteq Block
    /\ fileInfo \in [blk : SUBSET Block, rev : SUBSET Block]
    /\ diskIndex \in [Block -> SUBSET Flag] /\ index \in [Block -> SUBSET Flag]
    /\ coinsBest \in Block /\ cacheBest \in Block /\ chainTip \in Block
    /\ spendOf \in [Serials -> Zerotx \cup {None}]
    /\ txIndex \in [Zerotx -> Block \cup {None}]
    /\ dirty \subseteq Block
    /\ goal \in Block \cup {None} /\ oldTip \in Block
    /\ verified \in Block
    /\ fVerifyingBlocks \in BOOLEAN
    /\ pc \in Steps

StoreInit ==
    /\ blkFile = {Genesis} /\ revFile = {}
    /\ fileInfo = [blk |-> {Genesis}, rev |-> {}]
    /\ diskIndex = [b \in Block |-> IF b = Genesis THEN {"header", "data"} ELSE {}]
    /\ index = diskIndex /\ dirty = {}
    /\ coinsBest = Genesis /\ cacheBest = Genesis /\ chainTip = Genesis
    /\ spendOf = [s \in Serials |-> None]
    /\ txIndex = [t \in Zerotx |-> None]
    /\ goal = None /\ oldTip = Genesis
    /\ verified = Genesis /\ fVerifyingBlocks = FALSE
    /\ pc = "idle"

Idle == pc = "idle" /\ goal = None

-----------------------------------------------------------------------------
(* AcceptBlock: the block goes to its file at once, to the index in memory. *)
AcceptBlock(b) ==
    /\ Idle
    /\ index[Parent[b]] # {} /\ "failed" \notin index[Parent[b]]
    /\ index[b] \cap {"data", "failed"} = {}
    /\ blkFile' = blkFile \cup {b}
    /\ index' = [index EXCEPT ![b] = @ \cup {"header", "data"}]
    /\ dirty' = dirty \cup {b}
    /\ UNCHANGED <<revFile, fileInfo, diskIndex, coinsBest, spendOf, txIndex,
                   cacheBest, chainTip, taskVars, pc>>

(* FindMostWorkChain.  A chain on a blank entry counts its work from there, *)
(* and is no match for the tip.                                             *)
Usable(b) ==
    /\ \A a \in Path[b] : "data" \in index[a] /\ "blank" \notin index[a]
    /\ \A a \in Path[b] \ Path[chainTip] : "failed" \notin index[a]
MostWork ==
    {b \in Block : Usable(b) /\ \A c \in Block : Usable(c) => Work(c) <= Work(b)}

ActivateBestChain ==
    /\ Idle
    /\ \E most \in MostWork \ {chainTip} :
          /\ Work(most) >= Work(chainTip)
          /\ goal' = most
    /\ oldTip' = chainTip
    /\ UNCHANGED <<diskVars, index, dirty, cacheBest, chainTip,
                   verified, fVerifyingBlocks, pc>>

-----------------------------------------------------------------------------
(* GetTransaction with IsBlockHashInChain, and IsSerialInBlockchain. *)
InChain(t) == txIndex[t] \in Path[chainTip] \cap blkFile
SerialInChain(s) == spendOf[s] # None /\ InChain(spendOf[s])

Spent(b) == IF ZerotxIn[b] = None THEN {} ELSE {Serial[ZerotxIn[b]]}
Erased(b) == [s \in Serials |-> IF s \in Spent(b) THEN None ELSE spendOf[s]]
Recorded(b) ==
    [s \in Serials |-> IF s \in Spent(b) THEN ZerotxIn[b] ELSE spendOf[s]]
Indexed(b) ==
    [t \in Zerotx |-> IF t = ZerotxIn[b] THEN b ELSE txIndex[t]]

(* ConnectBlock's conditions on a zerocoin spend.  While the chain is being *)
(* verified at start, the block's own transaction is in the chain already.  *)
SpendsAnewAtStart(b) ==     \* mutant: also while blocks are being verified
    ZerotxIn[b] # None =>
        ~InChain(ZerotxIn[b]) /\ ~SerialInChain(Serial[ZerotxIn[b]])
SpendsNewTx(b) ==           \* mutant: only the transaction must be new
    ZerotxIn[b] # None /\ InChain(ZerotxIn[b]) =>
        fVerifyingBlocks /\ Work(b) <= Work(txIndex[ZerotxIn[b]])
SpendsAnew(b) ==
    ZerotxIn[b] # None =>
        /\ InChain(ZerotxIn[b]) =>
              fVerifyingBlocks /\ Work(b) <= Work(txIndex[ZerotxIn[b]])
        /\ ~SerialInChain(Serial[ZerotxIn[b]])

NextBlock == CHOOSE b \in Path[goal] : b # Genesis /\ Parent[b] = chainTip

(* InvalidBlockFound ends the step; the call goes on with another goal. *)
Invalid(b) ==
    /\ index' = [index EXCEPT ![b] = @ \cup {"failed"}]
    /\ dirty' = dirty \cup {b}
    /\ goal' = None
    /\ pc' = "idle"
    /\ UNCHANGED <<diskVars, cacheBest, chainTip, oldTip,
                   verified, fVerifyingBlocks>>

(* ConnectTip, first the transactions: WriteCoinSpend is not held back     *)
(* until the block is known to be valid.                                   *)
ConnectRefused ==
    /\ pc = "idle" /\ goal # None /\ chainTip \in Path[goal]
    /\ ~SpendsAnew(NextBlock)
    /\ Invalid(NextBlock)

ConnectSpends ==
    /\ pc = "idle" /\ goal # None /\ chainTip \in Path[goal]
    /\ SpendsAnew(NextBlock)
    /\ spendOf' = Recorded(NextBlock)
    /\ pc' = "connecting"
    /\ UNCHANGED <<blkFile, revFile, fileInfo, diskIndex, coinsBest, txIndex,
                   index, dirty, cacheBest, chainTip, taskVars>>

ConnectFails ==
    /\ pc = "connecting" /\ NextBlock \in Unconnectable
    /\ Invalid(NextBlock)

(* then undo data, transaction index and the view; FlushStateToDisk runs   *)
(* when the cache is too large, or the next block file has begun.          *)
ConnectTip ==
    /\ pc = "connecting" /\ NextBlock \notin Unconnectable
    /\ LET b == NextBlock
       IN  /\ revFile' = revFile \cup (IF "undo" \in index[b] THEN {} ELSE {b})
           /\ index' = [index EXCEPT ![b] = @ \cup {"undo"}]
           /\ dirty' = dirty \cup (IF "undo" \in index[b] THEN {} ELSE {b})
           /\ txIndex' = Indexed(b)
           /\ cacheBest' = b
    /\ pc' \in {"files", "newTip"}
    /\ UNCHANGED <<blkFile, fileInfo, diskIndex, coinsBest, spendOf, chainTip, taskVars>>

(* DisconnectTip, which always flushes.                                    *)
DisconnectTo(p) ==
    /\ chainTip # Genesis /\ "undo" \in index[chainTip] /\ chainTip \in revFile
    /\ spendOf' = Erased(chainTip)
    /\ cacheBest' = p
    /\ pc' = "files"
    /\ UNCHANGED <<blkFile, revFile, fileInfo, diskIndex, coinsBest, txIndex,
                   chainTip, taskVars>>

DisconnectTip ==
    /\ pc = "idle" /\ goal # None /\ chainTip \notin Path[goal]
    /\ DisconnectTo(Parent[chainTip])
    /\ UNCHANGED <<index, dirty>>

(* FlushStateToDisk: file sizes, index records in no particular order (the *)
(* set is ordered by address), the coins.                                  *)
FlushFileInfo ==
    /\ pc = "files"
    /\ fileInfo' = [blk |-> blkFile, rev |-> revFile]
    /\ pc' = "index"
    /\ UNCHANGED <<blkFile, revFile, diskIndex, coinsBest, spendOf, txIndex,
                   index, dirty, cacheBest, chainTip, taskVars>>

WriteBlockIndex(b) ==
    /\ pc = "index" /\ b \in dirty
    /\ diskIndex' = [diskIndex EXCEPT ![b] = index[b]]
    /\ dirty' = dirty \ {b}
    /\ UNCHANGED <<blkFile, revFile, fileInfo, coinsBest, spendOf, txIndex,
                   index, cacheBest, chainTip, taskVars, pc>>

CoinsAnyTime ==             \* mutant: the coins before the rest of the index
    /\ pc = "index"
    /\ coinsBest' = cacheBest
    /\ pc' = IF dirty = {} THEN "newTip" ELSE "index"
    /\ UNCHANGED <<blkFile, revFile, fileInfo, diskIndex, spendOf, txIndex,
                   index, dirty, cacheBest, chainTip, taskVars>>
FlushCoins ==
    /\ pc = "index" /\ dirty = {}
    /\ coinsBest' = cacheBest
    /\ pc' = "newTip"
    /\ UNCHANGED <<blkFile, revFile, fileInfo, diskIndex, spendOf, txIndex,
                   index, dirty, cacheBest, chainTip, taskVars>>

(* UpdateTip.  ActivateBestChainStep returns at a better tip than before.  *)
UpdateTip ==
    /\ pc = "newTip"
    /\ chainTip' = cacheBest
    /\ goal' = IF cacheBest = goal \/ Work(cacheBest) > Work(oldTip) THEN None ELSE goal
    /\ pc' = "idle"
    /\ UNCHANGED <<diskVars, index, dirty, cacheBest, oldTip, verified,
                   fVerifyingBlocks>>

(* At the end of ActivateBestChain and at shutdown. *)
FlushStateToDisk ==
    /\ Idle
    /\ pc' = "files"
    /\ UNCHANGED <<diskVars, index, dirty, cacheBest, chainTip, taskVars>>

(* TestBlockValidity on a block that is being made with t in it. *)
JustCheck(t) ==
    /\ Idle
    /\ ~InChain(t) /\ ~SerialInChain(Serial[t])
    /\ spendOf' = [spendOf EXCEPT ![Serial[t]] = t]
    /\ UNCHANGED <<blkFile, revFile, fileInfo, diskIndex, coinsBest, txIndex,
                   index, dirty, cacheBest, chainTip, taskVars, pc>>

-----------------------------------------------------------------------------
(* VerifyDB at start: down from the tip in a view that is dropped, and up   *)
(* again; but the zerocoin database is changed on both ways.                *)
Checked == {b \in Path[chainTip] \ {Genesis} : Work(chainTip) - Work(b) <= CheckBlocks}
Readable(b) ==
    /\ "data" \in index[b] /\ b \in blkFile
    /\ "undo" \in index[b] => b \in revFile

VerifyDown ==
    /\ pc = "verify" /\ verified \in Checked
    /\ Readable(verified) /\ "undo" \in index[verified]
    /\ spendOf' = Erased(verified)
    /\ verified' = Parent[verified]
    /\ UNCHANGED <<blkFile, revFile, fileInfo, diskIndex, coinsBest, txIndex,
                   index, dirty, cacheBest, chainTip, goal, oldTip, fVerifyingBlocks, pc>>

VerifyAtDepth ==
    /\ pc = "verify" /\ \A b \in Checked : Readable(b)
    /\ verified \notin Checked
    /\ pc' = "reconnect"
    /\ UNCHANGED <<diskVars, index, dirty, cacheBest, chainTip, taskVars>>

NextVerified ==
    CHOOSE b \in Path[chainTip] : b # Genesis /\ Parent[b] = verified

VerifyNotUp ==      \* mutant: check level 3
    /\ pc = "reconnect" /\ verified # chainTip
    /\ verified' = NextVerified
    /\ UNCHANGED <<diskVars, index, dirty, cacheBest, chainTip, goal, oldTip, fVerifyingBlocks, pc>>

VerifyUp ==
    /\ pc = "reconnect" /\ verified # chainTip
    /\ SpendsAnew(NextVerified)
    /\ spendOf' = Recorded(NextVerified)
    /\ txIndex' = Indexed(NextVerified)
    /\ verified' = NextVerified
    /\ UNCHANGED <<blkFile, revFile, fileInfo, diskIndex, coinsBest, index,
                   dirty, cacheBest, chainTip, goal, oldTip,
                   fVerifyingBlocks, pc>>

(* The node does not start. *)
VerifyFailed ==
    \/ /\ pc = "verify"
       /\ \/ \E b \in Checked \cap Path[verified] : ~Readable(b)
          \/ verified \in Checked /\ "undo" \notin index[verified]
    \/ /\ pc = "reconnect" /\ verified # chainTip
       /\ ~SpendsAnew(NextVerified)

VerifyEnds ==
    /\ VerifyFailed \/ (pc = "reconnect" /\ verified = chainTip)
    /\ pc' = IF VerifyFailed THEN "refused" ELSE "idle"
    /\ fVerifyingBlocks' = FALSE
    /\ UNCHANGED <<diskVars, index, dirty, cacheBest, chainTip, goal, oldTip, verified>>

-----------------------------------------------------------------------------
(* The process dies, or shuts down: what is in memory is lost. *)
Crash ==
    /\ pc \notin {"off", "refused"}
    /\ pc' = "off"
    /\ index' = [b \in Block |-> {}] /\ dirty' = {}
    /\ cacheBest' = Genesis /\ chainTip' = Genesis
    /\ goal' = None /\ oldTip' = Genesis
    /\ verified' = Genesis /\ fVerifyingBlocks' = FALSE
    /\ UNCHANGED diskVars

(* LoadBlockIndexGuts: records, and blank entries for parents that have    *)
(* none.  LoadBlockIndexDB: the coins name the tip, and                    *)
(* PruneBlockIndexCandidates asserts that a candidate at least as good is  *)
(* left.  New blocks will overwrite what lies beyond the recorded sizes.   *)
Loaded ==
    [b \in Block |->
        IF diskIndex[b] # {} THEN diskIndex[b]
        ELSE IF \E c \in Block \ {Genesis} : Parent[c] = b /\ diskIndex[c] # {}
               THEN {"blank"} ELSE {}]
StartCandidates ==
    {b \in Block : /\ "failed" \notin Loaded[b]
                   /\ \A a \in Path[b] : "data" \in Loaded[a]
                   /\ Work(b) >= Work(coinsBest)}

Start ==
    /\ pc = "off"
    /\ index' = Loaded
    /\ blkFile' = blkFile \cap fileInfo.blk /\ revFile' = revFile \cap fileInfo.rev
    /\ cacheBest' = coinsBest /\ chainTip' = coinsBest
    /\ verified' = coinsBest
    /\ fVerifyingBlocks' = TRUE
    /\ pc' = IF StartCandidates = {} \/ Loaded[coinsBest] = {} THEN "refused" ELSE "verify"
    /\ UNCHANGED <<fileInfo, diskIndex, coinsBest, spendOf, txIndex, dirty,
                   goal, oldTip>>

-----------------------------------------------------------------------------
StoreNext ==
    \/ \E b \in Block \ {Genesis} : AcceptBlock(b)
    \/ \E b \in Block : WriteBlockIndex(b)
    \/ \E t \in Zerotx : JustCheck(t)
    \/ ActivateBestChain \/ ConnectRefused \/ ConnectSpends \/ ConnectFails
    \/ ConnectTip \/ DisconnectTip \/ UpdateTip
    \/ FlushStateToDisk \/ FlushFileInfo \/ FlushCoins
    \/ VerifyDown \/ VerifyAtDepth \/ VerifyUp \/ VerifyEnds
    \/ Crash \/ Start

StoreSpec == StoreInit /\ [][StoreNext]_storeVars

-----------------------------------------------------------------------------
(* At every instant, so also when the process dies, the chain of the coins *)
(* on disk can be read from there: its blocks have their index records,    *)
(* with undo data, and lie within the recorded sizes of the files          *)
(* (the order of writes in FlushStateToDisk).                              *)
CoinsHaveBlocks ==
    \A b \in Path[coinsBest] \ {Genesis} :
        /\ {"header", "data", "undo"} \subseteq diskIndex[b]
        /\ diskIndex[b] \cap {"failed", "blank"} = {}
        /\ b \in blkFile \cap fileInfo.blk /\ b \in revFile \cap fileInfo.rev

(* However the process died, it starts again: the coins name a block in    *)
(* the index, its chain is good, and what VerifyDB reads is in the files   *)
(* that the recorded sizes cover (LoadBlockIndexDB, VerifyDB).             *)
StartSucceeds == pc # "refused"

(* A serial that the active chain has spent is known to the zerocoin       *)
(* database, whatever blocks were connected, tried, taken off or lost in a *)
(* crash meanwhile: IsSerialInBlockchain refuses it a second time.         *)
SerialsRecorded ==
    pc = "idle" /\ chainTip = cacheBest =>
        \A b \in Path[chainTip] : \A s \in Spent(b) : SerialInChain(s)

(* No serial is spent twice in the chain of the coins, in memory or on     *)
(* disk.                                                                   *)
SpentOnce(tip) ==
    \A a, b \in Path[tip] : a # b => Spent(a) \cap Spent(b) = {}
ChainSpendsOnce == SpentOnce(cacheBest) /\ SpentOnce(coinsBest)
=============================================================================
