------------------------- MODULE ChainStateProofs -------------------------
(* Proofs about ChainState, for every tree of blocks and every assignment  *)
(* of zerocoin spends to them.                                             *)
EXTENDS ChainState, FiniteSetTheorems, WellFoundedInduction, TLAPS

-----------------------------------------------------------------------------
(* The inductive invariant. *)

(* A block whose data and undo data the index offers, and that is good.    *)
Usual == {"header", "data"}
Sound(b) == Usual \subseteq index[b] /\ index[b] \cap {"failed", "blank"} = {}
Undoable(b) == b # Genesis => "undo" \in index[b]

(* What VerifyDB will look at when it starts from a tip. *)
Rechecked(t) == {b \in Path[t] \ {Genesis} : Work(t) - Work(b) <= CheckBlocks}

(* The serial of a block's transaction is recorded, with the transaction. *)
IsRecorded(b) == ZerotxIn[b] # None => spendOf[Serial[ZerotxIn[b]]] = ZerotxIn[b]
IsIndexed(b) == ZerotxIn[b] # None => txIndex[ZerotxIn[b]] = b

(* Where the coins, the tip and the goal are while the code is at pc.      *)
Neighbours ==
    \/ cacheBest = chainTip
    \/ chainTip # Genesis /\ cacheBest = Parent[chainTip]
    \/ cacheBest # Genesis /\ chainTip = Parent[cacheBest]
Verifying == pc \in {"verify", "reconnect"}
PlaceInv ==
    /\ pc # "refused"
    /\ pc \in {"files", "index", "newTip"} \/ cacheBest = chainTip
    /\ pc \notin {"off", "newTip"} => coinsBest \in Path[chainTip]
    /\ pc = "newTip" => coinsBest \in Path[cacheBest]
    /\ Neighbours
    /\ fVerifyingBlocks = IF Verifying THEN TRUE ELSE FALSE
    /\ Verifying => coinsBest = chainTip /\ verified \in Path[chainTip]
    /\ Verifying \/ pc = "off" => goal = None
    /\ pc \in {"idle", "connecting"} => goal # chainTip
    /\ pc = "connecting" => goal # None /\ chainTip \in Path[goal]

(* The index in memory: the active chain and the way to the goal are good. *)
IndexInv ==
    /\ pc # "off" => \A b \in Path[chainTip] \cup Path[cacheBest] : Sound(b) /\ Undoable(b)
    /\ goal # None => \A b \in Path[goal] : Sound(b)
    /\ \A b \in Block :
          /\ "data" \in index[b] => "header" \in index[b] /\ b \in blkFile
          /\ "undo" \in index[b] => b \in revFile
    /\ pc # "off" => \A b \in Block \ dirty : index[b] \in {diskIndex[b], {"blank"}}

(* The files: what the index on disk offers lies within the sizes on disk. *)
FileInv ==
    /\ pc = "index" => fileInfo = [blk |-> blkFile, rev |-> revFile]
    /\ Usual \subseteq diskIndex[Genesis]
    /\ diskIndex[Genesis] \cap {"failed", "blank"} = {}
    /\ \A b \in Block :
          /\ "data" \in diskIndex[b] =>
                "header" \in diskIndex[b] /\ b \in blkFile \cap fileInfo.blk
          /\ "undo" \in diskIndex[b] => b \in revFile \cap fileInfo.rev

(* The zerocoin database, complete but for what VerifyDB takes up again.   *)
SerialInv ==
    /\ \A b \in Path[cacheBest] \cup Path[coinsBest] : IsIndexed(b)
    /\ pc # "off" /\ ~Verifying => \A b \in Path[cacheBest] : IsRecorded(b)
    /\ \A b \in Path[coinsBest] \ Rechecked(coinsBest) : IsRecorded(b)
    /\ pc = "reconnect" => \A b \in Path[verified] : IsRecorded(b)
    /\ Verifying => \A b \in Path[chainTip] \ Path[verified] :
                       \A s \in Spent(b) : spendOf[s] = None
    /\ pc = "connecting" =>
          /\ IsRecorded(NextBlock)
          /\ \A b \in Path[chainTip] : Spent(b) \cap Spent(NextBlock) = {}

StoreInv ==
    /\ StoreTypeOK
    /\ PlaceInv /\ IndexInv /\ FileInv /\ SerialInv
    /\ CoinsHaveBlocks /\ ChainSpendsOnce

-----------------------------------------------------------------------------
(* The shape of the tree. *)

(* A nonempty set of naturals has a least element. *)
LEMMA LeastNumber ==
    ASSUME NEW T, T \subseteq Nat, T # {}
    PROVE  \E m \in T : \A n \in T : m <= n
<1> DEFINE U == {0 .. n : n \in T}
<1>1. U \subseteq FiniteSubsetsOf(Nat)
  <2>1. \A n \in T : IsFiniteSet(0 .. n)
    BY FS_Interval
  <2>2. \A n \in T : 0 .. n \in SUBSET Nat
    OBVIOUS
  <2>3. \A u \in U : u \in SUBSET Nat /\ IsFiniteSet(u)
    BY <2>1, <2>2
  <2> QED BY <2>3 DEF FiniteSubsetsOf
<1>2. U # {}
  OBVIOUS
<1>3. PICK x \in U : \A y \in U : <<y, x>> \notin StrictSubsetOrdering(Nat)
  <2> HIDE DEF U
  <2> QED BY <1>1, <1>2, FS_StrictSubsetOrderingWellFounded, WFMin
<1>4. PICK m \in T : x = 0 .. m
  OBVIOUS
<1>5. ASSUME NEW n \in T PROVE m <= n
  <2>1. <<0 .. n, 0 .. m>> \notin StrictSubsetOrdering(Nat)
    BY <1>3, <1>4
  <2>2. ~(0 .. n \subseteq 0 .. m /\ 0 .. n # 0 .. m)
    BY <2>1 DEF StrictSubsetOrdering
  <2> QED BY <2>2
<1> QED BY <1>5

(* The blocks of a path: they end at the genesis block, each has its own    *)
(* path below it, and all but the last have a next one above them.          *)
PathOK(b) ==
    /\ IsFiniteSet(Path[b]) /\ Genesis \in Path[b] /\ b \in Path[b]
    /\ \A a \in Path[b] \ {b} :
          /\ Path[a] \subseteq Path[b] /\ b \notin Path[a]
          /\ \E c \in Path[b] \ {Genesis} : Parent[c] = a

(* One block further, what a path is stays true. *)
LEMMA PathStep ==
    ASSUME NEW b \in Block \ {Genesis}, PathOK(Parent[b])
    PROVE  PathOK(b)
<1> DEFINE p == Parent[b]
<1>1. /\ p \in Block /\ b \notin Path[p] /\ Path[b] = Path[p] \cup {b} /\ IsFiniteSet(Path[b])
  BY ChainAssumption
<1>2. PathOK(p)
  OBVIOUS
<1>3. b # Genesis /\ Parent[b] = p
  OBVIOUS
<1> HIDE DEF p
<1>4. Genesis \in Path[b] /\ b \in Path[b]
  BY <1>1, <1>2 DEF PathOK
<1>5. ASSUME NEW a \in Path[b] \ {b}
      PROVE  /\ Path[a] \subseteq Path[b] /\ b \notin Path[a]
             /\ \E c \in Path[b] \ {Genesis} : Parent[c] = a
  <2>1. a \in Path[p] BY <1>1
  <2>2. Path[a] \subseteq Path[p] BY <1>2, <2>1 DEF PathOK
  <2>3. CASE a = p BY <1>1, <1>3, <1>4, <2>2, <2>3
  <2>4. CASE a # p
    <3>1. PICK c \in Path[p] \ {Genesis} : Parent[c] = a BY <1>2, <2>1, <2>4 DEF PathOK
    <3> QED BY <1>1, <2>2, <3>1
  <2> QED BY <2>3, <2>4
<1> QED BY <1>1, <1>4, <1>5 DEF PathOK

(* By induction on the length of the path, it is true of all blocks. *)
LEMMA PathFacts ==
    \A b \in Block :
        /\ IsFiniteSet(Path[b]) /\ Genesis \in Path[b] /\ b \in Path[b]
        /\ \A a \in Path[b] \ {b} :
              /\ Path[a] \subseteq Path[b] /\ b \notin Path[a]
              /\ \E c \in Path[b] \ {Genesis} : Parent[c] = a
<1> DEFINE Bad == {b \in Block : ~PathOK(b)}
           T == {Cardinality(Path[b]) : b \in Bad}
<1>1. ASSUME Bad # {} PROVE FALSE
  <2>1. \A b \in Block : Cardinality(Path[b]) \in Nat
    BY ChainAssumption, FS_CardinalityType
  <2>2. T \subseteq Nat /\ T # {}
    BY <1>1, <2>1
  <2>3. PICK m \in T : \A n \in T : m <= n
    <3> HIDE DEF T
    <3> QED BY <2>2, LeastNumber
  <2>4. PICK b \in Bad : Cardinality(Path[b]) = m
    OBVIOUS
  <2>5. b # Genesis
    <3>1. IsFiniteSet(Path[Genesis]) /\ Path[Genesis] = {Genesis} BY ChainAssumption
    <3>2. PathOK(Genesis) BY <3>1 DEF PathOK
    <3> QED BY <3>2
  <2>6. /\ Parent[b] \in Block /\ IsFiniteSet(Path[Parent[b]])
        /\ b \notin Path[Parent[b]] /\ Path[b] = Path[Parent[b]] \cup {b}
    BY <2>5, ChainAssumption
  <2>7. Cardinality(Path[b]) = Cardinality(Path[Parent[b]]) + 1
    BY <2>6, FS_AddElement
  <2>8. Parent[b] \notin Bad
    <3>1. SUFFICES ASSUME Parent[b] \in Bad PROVE FALSE OBVIOUS
    <3>2. Cardinality(Path[b]) <= Cardinality(Path[Parent[b]]) BY <2>3, <2>4, <3>1
    <3> QED BY <2>1, <2>6, <2>7, <3>2
  <2> QED BY <2>5, <2>6, <2>8, PathStep
<1>2. \A b \in Block : PathOK(b)
  BY <1>1
<1> QED BY <1>2 DEF PathOK

(* What the assumptions say of one block of a path. *)
LEMMA OnPath ==
    ASSUME NEW b \in Block, NEW a \in Path[b]
    PROVE  /\ a \in Block
           /\ Path[a] \subseteq Path[b]
           /\ a # b => b \notin Path[a]
           /\ Work(a) \in Nat /\ Work(b) \in Nat /\ Work(a) <= Work(b)
<1>1. a \in Block
  BY ChainAssumption
<1>2. Path[a] \subseteq Path[b] /\ (a # b => b \notin Path[a])
  BY PathFacts
<1>3. IsFiniteSet(Path[a]) /\ IsFiniteSet(Path[b])
  BY <1>1, PathFacts
<1>4. Cardinality(Path[a]) \in Nat /\ Cardinality(Path[b]) \in Nat
  BY <1>3, FS_CardinalityType
<1>5. Cardinality(Path[a]) <= Cardinality(Path[b])
  BY <1>2, <1>3, FS_Subset
<1> QED BY <1>1, <1>2, <1>4, <1>5 DEF Work

(* A block other than genesis sits directly above its parent's chain. *)
LEMMA ParentPath ==
    ASSUME NEW b \in Block, b # Genesis
    PROVE  /\ Parent[b] \in Block /\ Parent[b] \in Path[b]
           /\ b \in Path[b] /\ b \notin Path[Parent[b]]
           /\ Path[b] = Path[Parent[b]] \cup {b}
<1>1. Parent[b] \in Block /\ Path[b] = Path[Parent[b]] \cup {b} /\ b \notin Path[Parent[b]]
  BY ChainAssumption
<1>2. Parent[b] \in Path[Parent[b]]
  BY <1>1, PathFacts
<1> QED BY <1>1, <1>2, OnPath

(* Above a block on the way to another there is a next one. *)
LEMMA NextOnPath ==
    ASSUME NEW g \in Block, NEW t \in Path[g], t # g
    PROVE  LET n == CHOOSE b \in Path[g] : b # Genesis /\ Parent[b] = t
           IN  /\ n \in Block /\ n \in Path[g] /\ n # Genesis
               /\ Parent[n] = t
               /\ Path[n] = Path[t] \cup {n} /\ n \notin Path[t]
<1> DEFINE n == CHOOSE b \in Path[g] : b # Genesis /\ Parent[b] = t
<1>1. \E b \in Path[g] : b # Genesis /\ Parent[b] = t
  BY PathFacts
<1>2. n \in Path[g] /\ n # Genesis /\ Parent[n] = t
  BY <1>1
<1>3. n \in Block
  BY <1>2, OnPath
<1> HIDE DEF n
<1>4. Path[n] = Path[t] \cup {n} /\ n \notin Path[t]
  BY <1>2, <1>3, ParentPath
<1>5. QED BY <1>2, <1>3, <1>4 DEF n

(* NextBlock, and what lies below it. *)
LEMMA NextBlockFacts ==
    ASSUME goal \in Block, chainTip \in Path[goal], goal # chainTip
    PROVE  /\ NextBlock \in Block /\ NextBlock \in Path[goal] /\ NextBlock # Genesis
           /\ Parent[NextBlock] = chainTip
           /\ Path[NextBlock] = Path[chainTip] \cup {NextBlock}
           /\ NextBlock \notin Path[chainTip]
BY NextOnPath DEF NextBlock

(* NextVerified, likewise. *)
LEMMA NextVerifiedFacts ==
    ASSUME chainTip \in Block, verified \in Path[chainTip], verified # chainTip
    PROVE  /\ NextVerified \in Block /\ NextVerified \in Path[chainTip]
           /\ Parent[NextVerified] = verified
           /\ Path[NextVerified] = Path[verified] \cup {NextVerified}
           /\ NextVerified \notin Path[verified]
BY NextOnPath DEF NextVerified

(* The serials of a block: none, or that of its transaction. *)
LEMMA SpentFacts ==
    ASSUME NEW b \in Block
    PROVE  /\ ZerotxIn[b] \in Zerotx \cup {None}
           /\ ZerotxIn[b] = None => Spent(b) = {}
           /\ ZerotxIn[b] # None =>
                 /\ ZerotxIn[b] \in Zerotx
                 /\ Spent(b) = {Serial[ZerotxIn[b]]}
                 /\ Serial[ZerotxIn[b]] \in Serials
BY ZerocoinAssumption DEF Spent, Serials

(* Spending what the chain below has not spent keeps it without repetition. *)
LEMMA SpentOnceAbove ==
    ASSUME NEW t \in Block, NEW b \in Block, SpentOnce(t),
           Path[b] = Path[t] \cup {b},
           \A a \in Path[t] : Spent(a) \cap Spent(b) = {}
    PROVE  SpentOnce(b)
BY DEF SpentOnce

(* A chain without repetition has none below one of its blocks. *)
LEMMA SpentOnceBelow ==
    ASSUME NEW t \in Block, NEW b \in Path[t], SpentOnce(t)
    PROVE  SpentOnce(b)
<1>1. Path[b] \subseteq Path[t]
  BY OnPath
<1> QED BY <1>1 DEF SpentOnce

(* In a chain without repetition one transaction is one block's.           *)
LEMMA OneBlockOfTx ==
    ASSUME NEW t \in Block, SpentOnce(t), NEW a \in Path[t], NEW b \in Path[t],
           ZerotxIn[a] # None, ZerotxIn[b] # None, a # b
    PROVE  /\ ZerotxIn[a] # ZerotxIn[b]
           /\ Serial[ZerotxIn[a]] # Serial[ZerotxIn[b]]
<1>1. Spent(a) \cap Spent(b) = {}
  BY DEF SpentOnce
<1>2. a \in Block /\ b \in Block
  BY OnPath
<1> QED BY <1>1, <1>2, SpentFacts

-----------------------------------------------------------------------------
(* Steps that leave the variables of a part alone. *)

(* PlaceInv. *)
LEMMA PlaceUnchanged ==
    ASSUME PlaceInv,
           UNCHANGED <<pc, cacheBest, chainTip, coinsBest, fVerifyingBlocks, verified, goal>>
    PROVE  PlaceInv'
BY DEF PlaceInv, Neighbours, Verifying

(* IndexInv: files may grow, and the node stays on. *)
LEMMA IndexUnchanged ==
    ASSUME IndexInv, UNCHANGED <<index, diskIndex, dirty, chainTip, cacheBest, goal>>,
           blkFile \subseteq blkFile', revFile \subseteq revFile',
           pc # "off"
    PROVE  IndexInv'
BY DEF IndexInv, Sound, Undoable

(* FileInv: only the step that begins to write the index needs more. *)
LEMMA FileUnchanged ==
    ASSUME FileInv, UNCHANGED <<diskIndex, fileInfo>>,
           blkFile \subseteq blkFile', revFile \subseteq revFile',
           pc' # "index" \/ (pc = "index" /\ UNCHANGED <<blkFile, revFile>>)
    PROVE  FileInv'
BY DEF FileInv

(* SerialInv. *)
LEMMA SerialUnchanged ==
    ASSUME SerialInv,
           UNCHANGED <<spendOf, txIndex, coinsBest, cacheBest, chainTip, verified, goal, pc>>
    PROVE  SerialInv'
BY DEF SerialInv, IsIndexed, IsRecorded, Rechecked, Verifying, NextBlock

(* CoinsHaveBlocks. *)
LEMMA CoinsUnchanged ==
    ASSUME CoinsHaveBlocks, UNCHANGED <<coinsBest, diskIndex, fileInfo>>,
           blkFile \subseteq blkFile', revFile \subseteq revFile'
    PROVE  CoinsHaveBlocks'
BY DEF CoinsHaveBlocks

(* ChainSpendsOnce. *)
LEMMA SpendsUnchanged ==
    ASSUME ChainSpendsOnce, cacheBest' \in {cacheBest, coinsBest},
           coinsBest' \in {cacheBest, coinsBest}
    PROVE  ChainSpendsOnce'
BY DEF ChainSpendsOnce, SpentOnce

(* With files that cover the index, good index records are what makes      *)
(* coins readable.                                                         *)
LEMMA CoinsFromIndex ==
    ASSUME FileInv, NEW S, S \subseteq Block,
           \A b \in S : {"data", "undo"} \subseteq diskIndex[b]
    PROVE  \A b \in S : /\ {"header", "data", "undo"} \subseteq diskIndex[b]
                        /\ b \in blkFile \cap fileInfo.blk
                        /\ b \in revFile \cap fileInfo.rev
BY DEF FileInv

-----------------------------------------------------------------------------
(* The genesis state satisfies the inductive invariant. *)
LEMMA InitInv == StoreInit => StoreInv
<1> SUFFICES ASSUME StoreInit PROVE StoreInv
  OBVIOUS
<1> USE DEF StoreInit
<1>1. StoreTypeOK
  BY ChainAssumption DEF StoreTypeOK, Flag, Steps
<1>2. PlaceInv
  BY ChainAssumption, ZerocoinAssumption DEF PlaceInv, Neighbours, Verifying
<1>3. IndexInv
  BY ChainAssumption DEF IndexInv, Sound, Undoable, Usual
<1>4. FileInv
  BY ChainAssumption DEF FileInv, Usual
<1>5. SerialInv
  BY ChainAssumption, ZerocoinAssumption
     DEF SerialInv, IsIndexed, IsRecorded, Verifying
<1>6. CoinsHaveBlocks
  BY ChainAssumption DEF CoinsHaveBlocks
<1>7. ChainSpendsOnce
  BY ChainAssumption DEF ChainSpendsOnce, SpentOnce
<1> QED BY <1>1, <1>2, <1>3, <1>4, <1>5, <1>6, <1>7 DEF StoreInv

(* AcceptBlock: the data is in the file before the index offers it. *)
LEMMA AcceptBlockInv ==
    ASSUME StoreInv, NEW b \in Block \ {Genesis}, AcceptBlock(b)
    PROVE  StoreInv'
<1> USE DEF StoreInv, AcceptBlock, Idle
<1>0. /\ UNCHANGED <<pc, cacheBest, chainTip, coinsBest, fVerifyingBlocks, verified,
                     goal, diskIndex, fileInfo, spendOf, txIndex>>
      /\ blkFile \subseteq blkFile' /\ revFile' = revFile
      /\ pc = "idle"
  BY DEF taskVars
<1>1. StoreTypeOK'
  BY DEF StoreTypeOK, Flag, taskVars
<1>2. PlaceInv'
  BY <1>0, PlaceUnchanged
<1>3. IndexInv'
  <2>1. \A a \in Block : Sound(a) => Sound(a)'
    BY DEF StoreTypeOK, Sound, Usual
  <2>2. \A a \in Block : Undoable(a) => Undoable(a)'
    BY DEF StoreTypeOK, Undoable
  <2>3. \A a \in Path[chainTip] \cup Path[cacheBest] : a \in Block
    BY ChainAssumption DEF StoreTypeOK
  <2>4. goal = None
    OBVIOUS
  <2>5. \A a \in Block : /\ "data" \in index'[a] => "header" \in index'[a] /\ a \in blkFile'
                         /\ "undo" \in index'[a] => a \in revFile'
    BY DEF StoreTypeOK, IndexInv
  <2>6. \A a \in Block \ dirty' : index'[a] \in {diskIndex[a], {"blank"}}
    BY <1>0 DEF StoreTypeOK, IndexInv
  <2> QED BY <1>0, <2>1, <2>2, <2>3, <2>4, <2>5, <2>6 DEF IndexInv
<1>4. FileInv'
  BY <1>0, FileUnchanged
<1>5. SerialInv'
  BY <1>0, SerialUnchanged
<1>6. CoinsHaveBlocks'
  BY <1>0, CoinsUnchanged
<1>7. ChainSpendsOnce'
  BY <1>0, SpendsUnchanged
<1> QED BY <1>1, <1>2, <1>3, <1>4, <1>5, <1>6, <1>7

(* ActivateBestChain: a chain of most work is complete and not failed.     *)
LEMMA ActivateBestChainInv ==
    ASSUME StoreInv, ActivateBestChain PROVE StoreInv'
<1> USE DEF StoreInv
<1>0. /\ pc = "idle" /\ goal = None
      /\ goal' \in MostWork \ {chainTip} /\ oldTip' = chainTip
      /\ UNCHANGED <<blkFile, revFile, fileInfo, diskIndex, coinsBest, spendOf, txIndex,
                     index, dirty, cacheBest, chainTip, verified, fVerifyingBlocks, pc>>
  BY DEF ActivateBestChain, Idle, diskVars
<1>1. goal' \in Block /\ Usable(goal') /\ goal' # chainTip
  BY <1>0 DEF MostWork
<1>2. StoreTypeOK'
  BY <1>0, <1>1 DEF StoreTypeOK
<1>3. PlaceInv'
  BY <1>0, <1>1, ZerocoinAssumption DEF PlaceInv, Neighbours, Verifying
<1>4. IndexInv'
  <2>1. ASSUME NEW a \in Path[goal'] PROVE Sound(a)
    <3>1. a \in Block /\ "data" \in index[a] /\ "blank" \notin index[a]
      BY <1>1, OnPath DEF Usable
    <3>2. "header" \in index[a]
      BY <3>1 DEF IndexInv
    <3>3. "failed" \notin index[a]
      <4>1. CASE a \in Path[chainTip]
        BY <1>0, <4>1 DEF IndexInv, Sound
      <4>2. CASE a \notin Path[chainTip]
        BY <1>1, <4>2 DEF Usable
      <4> QED BY <4>1, <4>2
    <3> QED BY <3>1, <3>2, <3>3 DEF Sound, Usual
  <2>2. \A a \in Path[goal'] : Sound(a)'
    BY <1>0, <2>1 DEF Sound
  <2> QED BY <1>0, <2>2 DEF IndexInv, Sound, Undoable
<1>5. FileInv'
  BY <1>0, FileUnchanged
<1>6. SerialInv'
  BY <1>0 DEF SerialInv, IsIndexed, IsRecorded, Rechecked, Verifying
<1>7. CoinsHaveBlocks'
  BY <1>0, CoinsUnchanged
<1>8. ChainSpendsOnce'
  BY <1>0, SpendsUnchanged
<1> QED BY <1>2, <1>3, <1>4, <1>5, <1>6, <1>7, <1>8

(* InvalidBlockFound: the block lies above the chains of the tip and of    *)
(* the coins.                                                              *)
LEMMA InvalidInv ==
    ASSUME StoreInv, pc \in {"idle", "connecting"}, goal # None, chainTip \in Path[goal],
           Invalid(NextBlock)
    PROVE  StoreInv'
<1> DEFINE n == NextBlock
<1>0. n \in Block /\ n # Genesis /\ n \notin Path[chainTip]
  BY NextBlockFacts DEF StoreInv, StoreTypeOK, PlaceInv
<1> HIDE DEF n
<1> USE DEF StoreInv
<1>1. /\ index' = [index EXCEPT ![n] = @ \cup {"failed"}] /\ dirty' = dirty \cup {n}
      /\ goal' = None /\ pc' = "idle"
      /\ UNCHANGED <<blkFile, revFile, fileInfo, diskIndex, coinsBest, spendOf, txIndex,
                     cacheBest, chainTip, oldTip, verified, fVerifyingBlocks>>
  BY DEF Invalid, diskVars, n
<1>2. chainTip = cacheBest /\ chainTip \in Block
  BY DEF PlaceInv, StoreTypeOK
<1>3. StoreTypeOK'
  BY <1>0, <1>1 DEF StoreTypeOK, Flag, Steps
<1>4. PlaceInv'
  BY <1>1, <1>2, ZerocoinAssumption DEF PlaceInv, Neighbours, Verifying
<1>5. IndexInv'
  <2>1. \A a \in Path[chainTip] : a \in Block /\ a # n
    BY <1>0, <1>2, OnPath
  <2>2. \A a \in Path[chainTip] : Sound(a)' /\ Undoable(a)'
    BY <1>1, <1>2, <2>1 DEF IndexInv, Sound, Undoable, StoreTypeOK
  <2>3. \A a \in Block : /\ "data" \in index'[a] => "header" \in index'[a] /\ a \in blkFile'
                         /\ "undo" \in index'[a] => a \in revFile'
    BY <1>0, <1>1 DEF StoreTypeOK, IndexInv
  <2>4. \A a \in Block \ dirty' : index'[a] \in {diskIndex'[a], {"blank"}}
    BY <1>0, <1>1 DEF StoreTypeOK, IndexInv
  <2> QED BY <1>1, <1>2, <2>2, <2>3, <2>4 DEF IndexInv
<1>6. FileInv'
  BY <1>1, FileUnchanged
<1>7. SerialInv'
  BY <1>1, <1>2 DEF SerialInv, IsIndexed, IsRecorded, Rechecked, Verifying
<1>8. CoinsHaveBlocks'
  BY <1>1, CoinsUnchanged
<1>9. ChainSpendsOnce'
  BY <1>1, SpendsUnchanged
<1> QED BY <1>3, <1>4, <1>5, <1>6, <1>7, <1>8, <1>9

(* ConnectBlock refuses a spend, or the block after its spend was written. *)
LEMMA ConnectRefusedInv == StoreInv /\ ConnectRefused => StoreInv'
BY InvalidInv DEF ConnectRefused

(* ConnectBlock stops for a reason that is not the block's fault. *)
LEMMA ConnectFailsInv == StoreInv /\ ConnectFails => StoreInv'
<1>1. StoreInv /\ pc = "connecting" => goal # None /\ chainTip \in Path[goal]
  BY DEF StoreInv, PlaceInv
<1> QED BY <1>1, InvalidInv DEF ConnectFails

-----------------------------------------------------------------------------
(* The zerocoin database. *)

(* While the node runs, the serials of its chain are known as spent.       *)
LEMMA ChainSerialsKnown ==
    ASSUME StoreInv, pc \notin {"off", "verify", "reconnect"}, cacheBest = chainTip,
           NEW a \in Path[chainTip], NEW s \in Spent(a)
    PROVE  SerialInChain(s)
<1>1. a \in Block
  BY OnPath DEF StoreInv, StoreTypeOK
<1>2. ZerotxIn[a] # None /\ ZerotxIn[a] \in Zerotx /\ s = Serial[ZerotxIn[a]]
  BY <1>1, SpentFacts
<1>3. spendOf[s] = ZerotxIn[a] /\ txIndex[ZerotxIn[a]] = a
  BY <1>2 DEF StoreInv, SerialInv, IsRecorded, IsIndexed, Verifying
<1>4. a \in blkFile
  BY <1>1 DEF StoreInv, IndexInv, Sound, Usual
<1> QED BY <1>2, <1>3, <1>4 DEF SerialInChain, InChain

(* So what ConnectBlock lets pass spends none of them.                     *)
LEMMA SpendsAnewIsDisjoint ==
    ASSUME StoreInv, pc \notin {"off", "verify", "reconnect"}, cacheBest = chainTip,
           NEW b \in Block, SpendsAnew(b), NEW a \in Path[chainTip]
    PROVE  Spent(a) \cap Spent(b) = {}
<1> SUFFICES ASSUME NEW s \in Spent(a), s \in Spent(b) PROVE FALSE
  OBVIOUS
<1>1. SerialInChain(s)
  BY ChainSerialsKnown
<1>2. ZerotxIn[b] # None /\ s = Serial[ZerotxIn[b]]
  BY SpentFacts
<1> QED BY <1>1, <1>2 DEF SpendsAnew

(* WriteCoinSpend for a block, *)
LEMMA RecordedFacts ==
    ASSUME StoreTypeOK, NEW b \in Block, spendOf' = Recorded(b)
    PROVE  /\ spendOf' \in [Serials -> Zerotx \cup {None}]
           /\ IsRecorded(b)'
           /\ \A a \in Block : IsRecorded(a) /\ Spent(a) \cap Spent(b) = {} => IsRecorded(a)'
           /\ \A s \in Serials \ Spent(b) : spendOf'[s] = spendOf[s]
<1>1. \A a \in Block : /\ ZerotxIn[a] \in Zerotx \cup {None}
                       /\ ZerotxIn[a] = None => Spent(a) = {}
                       /\ ZerotxIn[a] # None =>
                             /\ Spent(a) = {Serial[ZerotxIn[a]]}
                             /\ Serial[ZerotxIn[a]] \in Serials
  BY SpentFacts
<1>2. spendOf' = [s \in Serials |-> IF s \in Spent(b) THEN ZerotxIn[b] ELSE spendOf[s]]
  BY DEF Recorded
<1>3. spendOf' \in [Serials -> Zerotx \cup {None}]
  BY <1>1, <1>2 DEF StoreTypeOK
<1>4. IsRecorded(b)'
  BY <1>1, <1>2 DEF IsRecorded
<1>5. \A a \in Block : IsRecorded(a) /\ Spent(a) \cap Spent(b) = {} => IsRecorded(a)'
  BY <1>1, <1>2 DEF IsRecorded
<1> QED BY <1>2, <1>3, <1>4, <1>5

(* EraseCoinSpend for a block, *)
LEMMA ErasedFacts ==
    ASSUME StoreTypeOK, NEW b \in Block, spendOf' = Erased(b)
    PROVE  /\ spendOf' \in [Serials -> Zerotx \cup {None}]
           /\ \A s \in Spent(b) : spendOf'[s] = None
           /\ \A s \in Serials : spendOf[s] = None => spendOf'[s] = None
           /\ \A a \in Block : IsRecorded(a) /\ Spent(a) \cap Spent(b) = {} => IsRecorded(a)'
<1>1. \A a \in Block : /\ ZerotxIn[a] \in Zerotx \cup {None}
                       /\ ZerotxIn[a] = None => Spent(a) = {}
                       /\ ZerotxIn[a] # None =>
                             /\ Spent(a) = {Serial[ZerotxIn[a]]}
                             /\ Serial[ZerotxIn[a]] \in Serials
  BY SpentFacts
<1>2. spendOf' = [s \in Serials |-> IF s \in Spent(b) THEN None ELSE spendOf[s]]
  BY DEF Erased
<1>3. spendOf' \in [Serials -> Zerotx \cup {None}]
  BY <1>2 DEF StoreTypeOK
<1>4. \A a \in Block : IsRecorded(a) /\ Spent(a) \cap Spent(b) = {} => IsRecorded(a)'
  BY <1>1, <1>2 DEF IsRecorded
<1>5. \A s \in Spent(b) : s \in Serials
  BY <1>1
<1> QED BY <1>2, <1>3, <1>4, <1>5

(* and the transaction index. *)
LEMMA IndexedFacts ==
    ASSUME StoreTypeOK, NEW b \in Block, txIndex' = Indexed(b)
    PROVE  /\ txIndex' \in [Zerotx -> Block \cup {None}]
           /\ IsIndexed(b)'
           /\ \A a \in Block : IsIndexed(a) /\ Spent(a) \cap Spent(b) = {} => IsIndexed(a)'
<1>1. \A a \in Block : /\ ZerotxIn[a] \in Zerotx \cup {None}
                       /\ ZerotxIn[a] # None => Spent(a) = {Serial[ZerotxIn[a]]}
  BY SpentFacts
<1>2. txIndex' = [t \in Zerotx |-> IF t = ZerotxIn[b] THEN b ELSE txIndex[t]]
  BY DEF Indexed
<1>3. txIndex' \in [Zerotx -> Block \cup {None}]
  BY <1>2 DEF StoreTypeOK
<1>4. IsIndexed(b)'
  BY <1>1, <1>2 DEF IsIndexed
<1>5. ASSUME NEW a \in Block, IsIndexed(a), Spent(a) \cap Spent(b) = {}
      PROVE  IsIndexed(a)'
  <2>1. CASE ZerotxIn[a] = None
    BY <2>1 DEF IsIndexed
  <2>2. CASE ZerotxIn[a] # None
    <3>1. ZerotxIn[a] # ZerotxIn[b]
      BY <1>1, <1>5, <2>2
    <3> QED BY <1>1, <1>2, <1>5, <2>2, <3>1 DEF IsIndexed
  <2> QED BY <2>1, <2>2
<1> QED BY <1>3, <1>4, <1>5

-----------------------------------------------------------------------------
(* Blocks are connected and taken off. *)

(* ConnectBlock writes the serials of a block that spends anew.            *)
LEMMA ConnectSpendsInv ==
    ASSUME StoreInv, ConnectSpends PROVE StoreInv'
<1> DEFINE n == NextBlock
<1> USE DEF StoreInv
<1>0. /\ pc = "idle" /\ goal # None /\ chainTip \in Path[goal] /\ SpendsAnew(n)
      /\ spendOf' = Recorded(n) /\ pc' = "connecting"
      /\ UNCHANGED <<blkFile, revFile, fileInfo, diskIndex, coinsBest, txIndex, index,
                     dirty, cacheBest, chainTip, goal, oldTip, verified, fVerifyingBlocks>>
  BY DEF ConnectSpends, taskVars
<1>1. n \in Block /\ n' = n
  BY <1>0, NextBlockFacts DEF StoreTypeOK, PlaceInv, NextBlock
<1>2. cacheBest = chainTip /\ chainTip \in Block /\ coinsBest \in Path[chainTip]
  BY <1>0 DEF PlaceInv, StoreTypeOK
<1>3. \A a \in Path[chainTip] : Spent(a) \cap Spent(n) = {}
  BY <1>0, <1>1, <1>2, SpendsAnewIsDisjoint
<1> HIDE DEF n
<1>4. StoreTypeOK'
  BY <1>0, <1>1, RecordedFacts DEF StoreTypeOK, Steps
<1>5. PlaceInv'
  BY <1>0, <1>2 DEF PlaceInv, Neighbours, Verifying
<1>6. IndexInv'
  BY <1>0, IndexUnchanged
<1>7. FileInv'
  BY <1>0, FileUnchanged
<1>8. SerialInv'
  <2>1. \A a \in Path[chainTip] : a \in Block
    BY <1>2, OnPath
  <2>2. Path[coinsBest] \subseteq Path[chainTip]
    BY <1>2, OnPath
  <2>3. \A a \in Path[chainTip] : IsRecorded(a) => IsRecorded(a)'
    BY <1>0, <1>1, <1>3, <2>1, RecordedFacts
  <2>4. IsRecorded(n)'
    BY <1>0, <1>1, RecordedFacts
  <2>5. \A a \in Path[cacheBest] \cup Path[coinsBest] : IsIndexed(a)'
    BY <1>0 DEF SerialInv, IsIndexed
  <2>6. \A a \in Path[cacheBest] : IsRecorded(a)'
    BY <1>0, <1>2, <2>3 DEF SerialInv, Verifying
  <2>7. IsRecorded(NextBlock)' /\ \A a \in Path[chainTip] : Spent(a) \cap Spent(NextBlock') = {}
    BY <1>1, <1>3, <2>4 DEF n, IsRecorded
  <2> QED BY <1>0, <1>2, <2>2, <2>5, <2>6, <2>7 DEF SerialInv, Verifying, Spent
<1>9. CoinsHaveBlocks'
  BY <1>0, CoinsUnchanged
<1>10. ChainSpendsOnce'
  BY <1>0, SpendsUnchanged
<1> QED BY <1>4, <1>5, <1>6, <1>7, <1>8, <1>9, <1>10

(* ConnectTip: the block is on the way to a goal whose chain is good.      *)
LEMMA ConnectTipInv ==
    ASSUME StoreInv, ConnectTip PROVE StoreInv'
<1> USE DEF StoreInv
<1>1. /\ pc = "connecting"
      /\ cacheBest = chainTip /\ chainTip \in Block /\ coinsBest \in Path[chainTip]
      /\ goal # None /\ chainTip \in Path[goal] /\ goal \in Block /\ goal # chainTip
  BY DEF ConnectTip, PlaceInv, StoreTypeOK
<1>2. PICK n \in Block : /\ n = NextBlock /\ n \in Path[goal] /\ n # Genesis
                        /\ Path[n] = Path[chainTip] \cup {n} /\ Parent[n] = chainTip
  BY <1>1, NextBlockFacts
<1>3. /\ pc' \in {"files", "newTip"}
      /\ revFile' = revFile \cup (IF "undo" \in index[n] THEN {} ELSE {n})
      /\ index' = [index EXCEPT ![n] = @ \cup {"undo"}]
      /\ dirty' = dirty \cup (IF "undo" \in index[n] THEN {} ELSE {n})
      /\ txIndex' = Indexed(n) /\ cacheBest' = n
      /\ UNCHANGED <<blkFile, fileInfo, diskIndex, coinsBest, spendOf, chainTip, goal,
                     oldTip, verified, fVerifyingBlocks>>
  BY <1>2 DEF ConnectTip, taskVars
<1>4. IsRecorded(n) /\ \A a \in Path[chainTip] : Spent(a) \cap Spent(n) = {}
  BY <1>1, <1>2 DEF SerialInv
<1>5. \A a \in Path[chainTip] : a \in Block
  BY <1>1, OnPath
<1>6. StoreTypeOK'
  BY <1>3, <1>2, IndexedFacts DEF StoreTypeOK, Steps, Flag
<1>7. PlaceInv'
  BY <1>3, <1>1, <1>2 DEF PlaceInv, Neighbours, Verifying
<1>8. IndexInv'
  <2>1. \A a \in Block : Sound(a) => Sound(a)'
    BY <1>3 DEF StoreTypeOK, Sound, Usual
  <2>2. \A a \in Block : Undoable(a) => Undoable(a)'
    BY <1>3 DEF StoreTypeOK, Undoable
  <2>3. Sound(n) /\ Undoable(n)'
    BY <1>3, <1>1, <1>2 DEF IndexInv, StoreTypeOK, Undoable
  <2>4. \A a \in Path[chainTip] \cup Path[n] : Sound(a)' /\ Undoable(a)'
    BY <1>3, <1>1, <1>2, <1>5, <2>1, <2>2, <2>3 DEF IndexInv
  <2>5. \A a \in Path[goal] : Sound(a)'
    BY <1>1, <2>1, OnPath DEF IndexInv
  <2>6. \A a \in Block : /\ "data" \in index'[a] => "header" \in index'[a] /\ a \in blkFile'
                         /\ "undo" \in index'[a] => a \in revFile'
    BY <1>3, <1>2 DEF StoreTypeOK, IndexInv
  <2>7. \A a \in Block \ dirty' : index'[a] \in {diskIndex'[a], {"blank"}}
    <3> SUFFICES ASSUME NEW a \in Block \ dirty' PROVE index'[a] = index[a] /\ a \notin dirty
      BY <1>3, <1>1 DEF IndexInv
    <3>1. CASE a = n
      BY <1>3, <1>2, <3>1 DEF StoreTypeOK
    <3>2. CASE a # n
      BY <1>3, <1>2, <3>2 DEF StoreTypeOK
    <3> QED BY <3>1, <3>2
  <2> QED BY <1>3, <2>4, <2>5, <2>6, <2>7 DEF IndexInv
<1>9. FileInv'
  BY <1>3, FileUnchanged
<1>10. SerialInv'
  <2>1. Path[coinsBest] \subseteq Path[chainTip]
    BY <1>1, OnPath
  <2>2. \A a \in Path[chainTip] : IsIndexed(a)'
    BY <1>3, <1>1, <1>2, <1>4, <1>5, IndexedFacts DEF SerialInv
  <2>3. IsIndexed(n)'
    BY <1>3, <1>2, IndexedFacts
  <2>4. \A a \in Path[n] : IsRecorded(a)'
    BY <1>3, <1>1, <1>2, <1>4 DEF SerialInv, IsRecorded, Verifying
  <2>5. \A a \in Path[coinsBest] \ Rechecked(coinsBest) : IsRecorded(a)'
    BY <1>3 DEF SerialInv, IsRecorded
  <2> QED BY <1>3, <1>2, <2>1, <2>2, <2>3, <2>4, <2>5 DEF SerialInv, Verifying, Rechecked
<1>11. CoinsHaveBlocks'
  BY <1>3, CoinsUnchanged
<1>12. ChainSpendsOnce'
  BY <1>3, <1>1, <1>2, <1>4, SpentOnceAbove DEF ChainSpendsOnce, SpentOnce, Spent
<1> QED BY <1>6, <1>7, <1>8, <1>9, <1>10, <1>11, <1>12

(* DisconnectTip: the serials erased are recorded again by VerifyDB should *)
(* the process die before the coins are written.                           *)
LEMMA DisconnectTipInv ==
    ASSUME StoreInv, DisconnectTip PROVE StoreInv'
<1> DEFINE p == Parent[chainTip]
<1> USE DEF StoreInv
<1>0. /\ pc = "idle" /\ goal # None /\ chainTip # Genesis
      /\ spendOf' = Erased(chainTip) /\ cacheBest' = p /\ pc' = "files"
      /\ UNCHANGED <<blkFile, revFile, fileInfo, diskIndex, coinsBest, txIndex, index, dirty,
                     chainTip, goal, oldTip, verified, fVerifyingBlocks>>
  BY DEF DisconnectTip, DisconnectTo, taskVars
<1>1. /\ cacheBest = chainTip /\ chainTip \in Block /\ coinsBest \in Path[chainTip]
      /\ coinsBest \in Block /\ SpentOnce(chainTip)
  BY <1>0 DEF PlaceInv, StoreTypeOK, ChainSpendsOnce
<1>2. /\ p \in Block /\ Path[chainTip] = Path[p] \cup {chainTip} /\ chainTip \notin Path[p]
      /\ p \in Path[chainTip] /\ chainTip \in Path[chainTip]
  BY <1>0, <1>1, ParentPath
<1>3. \A a \in Path[chainTip] : a \in Block /\ IsRecorded(a)
  BY <1>0, <1>1, OnPath DEF SerialInv, Verifying
<1> HIDE DEF p
<1>4. \A a \in Path[chainTip] \ {chainTip} : IsRecorded(a)'
  <2>1. \A a \in Path[chainTip] \ {chainTip} : Spent(a) \cap Spent(chainTip) = {}
    BY <1>1, <1>2 DEF SpentOnce
  <2> QED BY <1>0, <1>1, <1>3, <2>1, ErasedFacts
<1>5. StoreTypeOK'
  BY <1>0, <1>1, <1>2, ErasedFacts DEF StoreTypeOK, Steps
<1>6. PlaceInv'
  BY <1>0, <1>1 DEF PlaceInv, Neighbours, Verifying, p
<1>7. IndexInv'
  BY <1>0, <1>2 DEF IndexInv, Sound, Undoable
<1>8. FileInv'
  BY <1>0, FileUnchanged
<1>9. SerialInv'
  <2>1. Path[coinsBest] \subseteq Path[chainTip]
    BY <1>1, OnPath
  <2>2. \A a \in Path[p] \cup Path[coinsBest] : IsIndexed(a)'
    BY <1>0, <1>1, <1>2 DEF SerialInv, IsIndexed
  <2>3. \A a \in Path[p] : IsRecorded(a)'
    BY <1>2, <1>4
  <2>4. \A a \in Path[coinsBest] \ Rechecked(coinsBest) : IsRecorded(a)'
    <3> SUFFICES ASSUME NEW a \in Path[coinsBest] \ Rechecked(coinsBest), a = chainTip
                 PROVE  FALSE
      BY <1>4, <2>1
    <3>1. coinsBest = chainTip
      BY <1>1, OnPath
    <3>2. Work(chainTip) \in Nat /\ CheckBlocks \in Nat
      BY <1>1, <1>2, OnPath, ChainAssumption
    <3>3. Work(chainTip) - Work(chainTip) <= CheckBlocks
      BY <3>2
    <3> QED BY <1>0, <1>2, <3>1, <3>3 DEF Rechecked
  <2> QED BY <1>0, <2>2, <2>3, <2>4 DEF SerialInv, Verifying, Rechecked
<1>10. CoinsHaveBlocks'
  BY <1>0, CoinsUnchanged
<1>11. ChainSpendsOnce'
  <2>1. SpentOnce(p)
    BY <1>1, <1>2, SpentOnceBelow
  <2> QED BY <1>0, <2>1 DEF ChainSpendsOnce, SpentOnce, Spent
<1> QED BY <1>5, <1>6, <1>7, <1>8, <1>9, <1>10, <1>11

(* UpdateTip *)
LEMMA UpdateTipInv ==
    ASSUME StoreInv, UpdateTip PROVE StoreInv'
<1> USE DEF StoreInv
<1>0. /\ pc = "newTip" /\ pc' = "idle" /\ chainTip' = cacheBest
      /\ goal' \in {None, goal} /\ (goal' # None => goal' # cacheBest)
      /\ UNCHANGED <<blkFile, revFile, fileInfo, diskIndex, coinsBest, spendOf, txIndex,
                     index, dirty, cacheBest, oldTip, verified, fVerifyingBlocks>>
  BY DEF UpdateTip, diskVars
<1>1. coinsBest \in Path[cacheBest] /\ cacheBest \in Block
  BY <1>0 DEF PlaceInv, StoreTypeOK
<1>2. StoreTypeOK'
  BY <1>0 DEF StoreTypeOK, Steps
<1>3. PlaceInv'
  BY <1>0, <1>1, ZerocoinAssumption DEF PlaceInv, Neighbours, Verifying
<1>4. IndexInv'
  BY <1>0 DEF IndexInv, Sound, Undoable
<1>5. FileInv'
  BY <1>0, FileUnchanged
<1>6. SerialInv'
  BY <1>0 DEF SerialInv, IsIndexed, IsRecorded, Rechecked, Verifying
<1>7. CoinsHaveBlocks'
  BY <1>0, CoinsUnchanged
<1>8. ChainSpendsOnce'
  BY <1>0, SpendsUnchanged
<1> QED BY <1>2, <1>3, <1>4, <1>5, <1>6, <1>7, <1>8

-----------------------------------------------------------------------------
(* FlushStateToDisk. *)

(* While the node is on, the whole chain of the coins lies below the tip.  *)
LEMMA CoinsBelowTip ==
    ASSUME StoreInv, pc \notin {"off", "newTip"}, NEW b \in Path[coinsBest]
    PROVE  b \in Block /\ b \in Path[chainTip] /\ Sound(b) /\ Undoable(b)
<1>1. chainTip \in Block /\ coinsBest \in Path[chainTip]
  BY DEF StoreInv, StoreTypeOK, PlaceInv
<1>2. b \in Path[chainTip] /\ b \in Block
  BY <1>1, OnPath
<1> QED BY <1>2 DEF StoreInv, IndexInv

(* It begins, *)
LEMMA FlushStateToDiskInv ==
    ASSUME StoreInv, FlushStateToDisk PROVE StoreInv'
<1> USE DEF StoreInv
<1>1. /\ pc = "idle" /\ pc' = "files"
      /\ UNCHANGED <<blkFile, revFile, fileInfo, diskIndex, coinsBest, spendOf, txIndex, index,
                     dirty, cacheBest, chainTip, goal, oldTip, verified, fVerifyingBlocks>>
  BY DEF FlushStateToDisk, Idle, diskVars, taskVars
<1>2. StoreTypeOK'
  BY <1>1 DEF StoreTypeOK, Steps
<1>3. PlaceInv'
  BY <1>1 DEF PlaceInv, Neighbours, Verifying
<1>4. IndexInv'
  BY <1>1, IndexUnchanged
<1>5. FileInv'
  BY <1>1, FileUnchanged
<1>6. SerialInv'
  BY <1>1 DEF SerialInv, IsIndexed, IsRecorded, Rechecked, Verifying
<1>7. CoinsHaveBlocks'
  BY <1>1, CoinsUnchanged
<1>8. ChainSpendsOnce'
  BY <1>1, SpendsUnchanged
<1> QED BY <1>2, <1>3, <1>4, <1>5, <1>6, <1>7, <1>8

(* the sizes cover all that the files hold, *)
LEMMA FlushFileInfoInv ==
    ASSUME StoreInv, FlushFileInfo PROVE StoreInv'
<1> USE DEF StoreInv
<1>1. /\ pc = "files" /\ pc' = "index" /\ fileInfo' = [blk |-> blkFile, rev |-> revFile]
      /\ UNCHANGED <<blkFile, revFile, diskIndex, coinsBest, spendOf, txIndex, index,
                     dirty, cacheBest, chainTip, goal, oldTip, verified, fVerifyingBlocks>>
  BY DEF FlushFileInfo, taskVars
<1>2. StoreTypeOK'
  BY <1>1 DEF StoreTypeOK, Steps
<1>3. PlaceInv'
  BY <1>1 DEF PlaceInv, Neighbours, Verifying
<1>4. IndexInv'
  BY <1>1, IndexUnchanged
<1>5. FileInv'
  BY <1>1 DEF FileInv
<1>6. SerialInv'
  BY <1>1 DEF SerialInv, IsIndexed, IsRecorded, Rechecked, Verifying
<1>7. CoinsHaveBlocks'
  BY <1>1 DEF CoinsHaveBlocks
<1>8. ChainSpendsOnce'
  BY <1>1, SpendsUnchanged
<1> QED BY <1>2, <1>3, <1>4, <1>5, <1>6, <1>7, <1>8

(* so a record that is written offers nothing beyond them, and one of the  *)
(* coins' own chain is still as good; *)
LEMMA WriteBlockIndexInv ==
    ASSUME StoreInv, NEW b \in Block, WriteBlockIndex(b) PROVE StoreInv'
<1> USE DEF StoreInv
<1>1. /\ pc = "index" /\ pc' = "index"
      /\ diskIndex' = [diskIndex EXCEPT ![b] = index[b]] /\ dirty' = dirty \ {b}
      /\ UNCHANGED <<blkFile, revFile, fileInfo, coinsBest, spendOf, txIndex, index,
                     cacheBest, chainTip, goal, oldTip, verified, fVerifyingBlocks>>
  BY DEF WriteBlockIndex, taskVars
<1>2. \A a \in Block : diskIndex'[a] = IF a = b THEN index[b] ELSE diskIndex[a]
  BY <1>1 DEF StoreTypeOK
<1>3. StoreTypeOK'
  BY <1>1 DEF StoreTypeOK
<1>4. PlaceInv'
  BY <1>1, PlaceUnchanged
<1>5. IndexInv'
  <2>1. \A a \in Block \ dirty' : index'[a] \in {diskIndex'[a], {"blank"}}
    BY <1>1, <1>2 DEF IndexInv
  <2> QED BY <1>1, <2>1 DEF IndexInv, Sound, Undoable
<1>6. FileInv'
  <2>1. Genesis \in Block /\ Sound(Genesis)
    BY <1>1, PathFacts, ChainAssumption DEF IndexInv, StoreTypeOK
  <2>2. Usual \subseteq diskIndex'[Genesis] /\ diskIndex'[Genesis] \cap {"failed", "blank"} = {}
    BY <1>2, <2>1 DEF FileInv, Sound
  <2>3. fileInfo.blk = blkFile /\ fileInfo.rev = revFile
    BY <1>1 DEF FileInv
  <2>4. \A a \in Block :
          /\ "data" \in diskIndex'[a] =>
                "header" \in diskIndex'[a] /\ a \in blkFile \cap fileInfo.blk
          /\ "undo" \in diskIndex'[a] => a \in revFile \cap fileInfo.rev
    BY <1>2, <2>3 DEF FileInv, IndexInv
  <2> QED BY <1>1, <2>2, <2>4 DEF FileInv
<1>7. SerialInv'
  BY <1>1, SerialUnchanged
<1>8. CoinsHaveBlocks'
  <2>1. ASSUME NEW a \in Path[coinsBest] \ {Genesis}
        PROVE  /\ a \in Block /\ {"header", "data", "undo"} \subseteq diskIndex'[a]
               /\ diskIndex'[a] \cap {"failed", "blank"} = {}
    <3>1. a \in Block /\ Sound(a) /\ Undoable(a)
      BY <1>1, CoinsBelowTip
    <3> QED BY <1>2, <3>1 DEF CoinsHaveBlocks, Sound, Undoable, Usual
  <2> QED BY <1>1, <2>1 DEF CoinsHaveBlocks
<1>9. ChainSpendsOnce'
  BY <1>1, SpendsUnchanged
<1> QED BY <1>3, <1>4, <1>5, <1>6, <1>7, <1>8, <1>9

(* and when all are written, what the index in memory says of the chain of *)
(* the cache is what the disk says. *)
LEMMA FlushCoinsInv ==
    ASSUME StoreInv, FlushCoins PROVE StoreInv'
<1> USE DEF StoreInv
<1>1. /\ pc = "index" /\ dirty = {} /\ coinsBest' = cacheBest /\ pc' = "newTip"
      /\ UNCHANGED <<blkFile, revFile, fileInfo, diskIndex, spendOf, txIndex, index,
                     dirty, cacheBest, chainTip, goal, oldTip, verified, fVerifyingBlocks>>
  BY DEF FlushCoins, taskVars
<1>2. cacheBest \in Block /\ cacheBest \in Path[cacheBest]
  BY PathFacts DEF StoreTypeOK
<1>3. StoreTypeOK'
  BY <1>1 DEF StoreTypeOK, Steps
<1>4. PlaceInv'
  BY <1>1, <1>2 DEF PlaceInv, Neighbours, Verifying
<1>5. IndexInv'
  BY <1>1, IndexUnchanged
<1>6. FileInv'
  BY <1>1, FileUnchanged
<1>7. SerialInv'
  BY <1>1 DEF SerialInv, IsIndexed, IsRecorded, Rechecked, Verifying
<1>8. CoinsHaveBlocks'
  <2>1. ASSUME NEW a \in Path[cacheBest] \ {Genesis}
        PROVE  /\ a \in Block /\ {"header", "data", "undo"} \subseteq diskIndex[a]
               /\ diskIndex[a] \cap {"failed", "blank"} = {}
    <3>1. a \in Block /\ Sound(a) /\ Undoable(a)
      BY <1>1, <1>2, OnPath DEF IndexInv
    <3>2. index[a] = diskIndex[a]
      BY <1>1, <3>1 DEF IndexInv, Sound, Usual
    <3> QED BY <3>1, <3>2 DEF Sound, Undoable, Usual
  <2>2. \A a \in Path[cacheBest] \ {Genesis} :
           a \in blkFile \cap fileInfo.blk /\ a \in revFile \cap fileInfo.rev
    BY <2>1 DEF FileInv
  <2> QED BY <1>1, <2>1, <2>2 DEF CoinsHaveBlocks
<1>9. ChainSpendsOnce'
  BY <1>1, SpendsUnchanged
<1> QED BY <1>3, <1>4, <1>5, <1>6, <1>7, <1>8, <1>9

(* TestBlockValidity records a serial that no block of the chain spends.   *)
LEMMA JustCheckInv ==
    ASSUME StoreInv, NEW t \in Zerotx, JustCheck(t) PROVE StoreInv'
<1> USE DEF StoreInv
<1>1. /\ pc = "idle" /\ ~SerialInChain(Serial[t])
      /\ spendOf' = [spendOf EXCEPT ![Serial[t]] = t]
      /\ UNCHANGED <<blkFile, revFile, fileInfo, diskIndex, coinsBest, txIndex, index, dirty,
                     cacheBest, chainTip, goal, oldTip, verified, fVerifyingBlocks, pc>>
  BY DEF JustCheck, Idle, taskVars
<1>2. cacheBest = chainTip /\ chainTip \in Block
  BY <1>1 DEF PlaceInv, StoreTypeOK
<1>3. StoreTypeOK'
  BY <1>1 DEF StoreTypeOK
<1>4. PlaceInv'
  BY <1>1, PlaceUnchanged
<1>5. IndexInv'
  BY <1>1, IndexUnchanged
<1>6. FileInv'
  BY <1>1, FileUnchanged
<1>7. SerialInv'
  <2>1. ASSUME NEW a \in Path[chainTip] PROVE IsRecorded(a)'
    <3>1. a \in Block /\ IsRecorded(a)
      BY <1>1, <1>2, OnPath DEF SerialInv, Verifying
    <3>2. Serial[t] \notin Spent(a)
      BY <1>1, <1>2, ChainSerialsKnown
    <3> QED BY <1>1, <3>1, <3>2, SpentFacts DEF IsRecorded, StoreTypeOK
  <2>2. \A a \in Path[coinsBest] : a \in Path[chainTip]
    BY <1>1, CoinsBelowTip
  <2>3. \A a \in Path[cacheBest] \cup Path[coinsBest] : IsIndexed(a)'
    BY <1>1 DEF SerialInv, IsIndexed
  <2> QED BY <1>1, <1>2, <2>1, <2>2, <2>3 DEF SerialInv, Verifying
<1>8. CoinsHaveBlocks'
  BY <1>1, CoinsUnchanged
<1>9. ChainSpendsOnce'
  BY <1>1, SpendsUnchanged
<1> QED BY <1>3, <1>4, <1>5, <1>6, <1>7, <1>8, <1>9

-----------------------------------------------------------------------------
(* The process dies and starts again. *)

(* While VerifyDB runs, tip, cache and coins are one block whose chain is  *)
(* good, spends nothing twice and is indexed.                              *)
LEMMA VerifyingFacts ==
    ASSUME StoreInv, Verifying
    PROVE  /\ pc # "off" /\ chainTip = coinsBest /\ cacheBest = chainTip
           /\ chainTip \in Block /\ verified \in Path[chainTip] /\ verified \in Block
           /\ goal = None /\ fVerifyingBlocks /\ SpentOnce(chainTip)
           /\ Checked = Rechecked(chainTip)
           /\ \A b \in Path[chainTip] :
                 b \in Block /\ Sound(b) /\ Undoable(b) /\ IsIndexed(b)
<1>1. /\ pc \in {"verify", "reconnect"} /\ chainTip = coinsBest /\ cacheBest = chainTip
      /\ chainTip \in Block /\ verified \in Path[chainTip] /\ verified \in Block
      /\ goal = None /\ fVerifyingBlocks /\ SpentOnce(chainTip)
  BY DEF StoreInv, PlaceInv, Verifying, StoreTypeOK, ChainSpendsOnce
<1>2. \A b \in Path[chainTip] : b \in Block /\ Sound(b) /\ Undoable(b) /\ IsIndexed(b)
  BY <1>1, OnPath DEF StoreInv, IndexInv, SerialInv
<1>3. Checked = Rechecked(chainTip)
  BY DEF Checked, Rechecked
<1> QED BY <1>1, <1>2, <1>3

(* Down: what it erases it will record again. *)
LEMMA VerifyDownInv ==
    ASSUME StoreInv, VerifyDown PROVE StoreInv'
<1> USE DEF StoreInv
<1>1. /\ pc = "verify" /\ verified \in Checked /\ verified # Genesis
      /\ spendOf' = Erased(verified) /\ verified' = Parent[verified]
      /\ UNCHANGED <<blkFile, revFile, fileInfo, diskIndex, coinsBest, txIndex, index,
                     dirty, cacheBest, chainTip, goal, oldTip, fVerifyingBlocks, pc>>
  BY DEF VerifyDown, Checked
<1>2. /\ chainTip = coinsBest /\ cacheBest = chainTip /\ chainTip \in Block
      /\ verified \in Block /\ SpentOnce(chainTip) /\ verified \in Path[chainTip]
      /\ verified \in Rechecked(coinsBest) /\ \A b \in Path[chainTip] : b \in Block
  BY <1>1, VerifyingFacts DEF Verifying
<1>3. /\ Parent[verified] \in Path[chainTip] /\ Parent[verified] \in Block
      /\ Path[verified] = Path[Parent[verified]] \cup {verified}
  BY <1>1, <1>2, ParentPath, OnPath
<1>4. StoreTypeOK'
  BY <1>1, <1>2, <1>3, ErasedFacts DEF StoreTypeOK
<1>5. PlaceInv'
  BY <1>1, <1>2, <1>3 DEF PlaceInv, Neighbours, Verifying
<1>6. IndexInv'
  BY <1>1, IndexUnchanged
<1>7. FileInv'
  BY <1>1, FileUnchanged
<1>8. SerialInv'
  <2>1. \A b \in Path[cacheBest] \cup Path[coinsBest] : IsIndexed(b)'
    BY <1>1 DEF SerialInv, IsIndexed
  <2>2. \A b \in Path[coinsBest] \ Rechecked(coinsBest) : IsRecorded(b)'
    <3>1. \A b \in Path[coinsBest] \ Rechecked(coinsBest) :
             b \in Block /\ IsRecorded(b) /\ Spent(b) \cap Spent(verified) = {}
      BY <1>2 DEF SerialInv, SpentOnce
    <3> QED BY <1>1, <1>2, <3>1, ErasedFacts
  <2>3. ASSUME NEW b \in Path[chainTip] \ Path[Parent[verified]], NEW s \in Spent(b)
        PROVE  spendOf'[s] = None
    <3>1. CASE b = verified
      BY <1>1, <1>2, <3>1, ErasedFacts
    <3>2. CASE b # verified
      <4>1. spendOf[s] = None
        BY <1>1, <1>3, <3>2 DEF SerialInv, Verifying
      <4>2. s \in Serials
        BY <1>2, SpentFacts
      <4> QED BY <1>1, <1>2, <4>1, <4>2, ErasedFacts
    <3> QED BY <3>1, <3>2
  <2> QED BY <1>1, <2>1, <2>2, <2>3 DEF SerialInv, Verifying, Rechecked, Spent
<1>9. CoinsHaveBlocks'
  BY <1>1, CoinsUnchanged
<1>10. ChainSpendsOnce'
  BY <1>1, SpendsUnchanged
<1> QED BY <1>4, <1>5, <1>6, <1>7, <1>8, <1>9, <1>10

(* Below the depth nothing was erased. *)
LEMMA VerifyAtDepthInv ==
    ASSUME StoreInv, VerifyAtDepth PROVE StoreInv'
<1> USE DEF StoreInv
<1>1. /\ pc = "verify" /\ verified \notin Checked /\ pc' = "reconnect"
      /\ UNCHANGED <<blkFile, revFile, fileInfo, diskIndex, coinsBest, spendOf, txIndex, index,
                     dirty, cacheBest, chainTip, goal, oldTip, verified, fVerifyingBlocks>>
  BY DEF VerifyAtDepth, diskVars, taskVars
<1>2. /\ chainTip = coinsBest /\ chainTip \in Block
      /\ verified \in Path[chainTip] /\ verified \in Block
      /\ verified \notin Rechecked(chainTip)
  BY <1>1, VerifyingFacts DEF Verifying
<1>3. StoreTypeOK'
  BY <1>1 DEF StoreTypeOK, Steps
<1>4. PlaceInv'
  BY <1>1 DEF PlaceInv, Neighbours, Verifying
<1>5. IndexInv'
  BY <1>1, IndexUnchanged
<1>6. FileInv'
  BY <1>1, FileUnchanged
<1>7. SerialInv'
  <2>1. ASSUME NEW b \in Path[verified] PROVE IsRecorded(b)
    <3>1. b \in Path[coinsBest]
      BY <1>2, OnPath
    <3>2. b \notin Rechecked(coinsBest)
      <4>1. CASE verified = Genesis
        BY <4>1, ChainAssumption DEF Rechecked
      <4>2. CASE verified # Genesis
        <5>1. ~(Work(chainTip) - Work(verified) <= CheckBlocks)
          BY <1>2, <4>2 DEF Rechecked
        <5>2. /\ Work(b) \in Nat /\ Work(verified) \in Nat /\ Work(chainTip) \in Nat
              /\ Work(b) <= Work(verified) /\ CheckBlocks \in Nat
          BY <1>2, OnPath, ChainAssumption
        <5> HIDE DEF Work
        <5>3. ~(Work(chainTip) - Work(b) <= CheckBlocks)
          BY <5>1, <5>2
        <5> QED BY <1>2, <5>3 DEF Rechecked
      <4> QED BY <4>1, <4>2
    <3> QED BY <3>1, <3>2 DEF SerialInv
  <2> QED BY <1>1, <2>1 DEF SerialInv, IsIndexed, IsRecorded, Rechecked, Verifying
<1>8. CoinsHaveBlocks'
  BY <1>1, CoinsUnchanged
<1>9. ChainSpendsOnce'
  BY <1>1, SpendsUnchanged
<1> QED BY <1>3, <1>4, <1>5, <1>6, <1>7, <1>8, <1>9

(* Up: each block's spend is recorded as it was. *)
LEMMA VerifyUpInv ==
    ASSUME StoreInv, VerifyUp PROVE StoreInv'
<1> USE DEF StoreInv
<1>1. pc = "reconnect" /\ verified # chainTip
  BY DEF VerifyUp
<1>2. /\ chainTip = coinsBest /\ cacheBest = chainTip /\ chainTip \in Block
      /\ verified \in Path[chainTip] /\ SpentOnce(chainTip)
      /\ \A b \in Path[chainTip] : b \in Block /\ IsIndexed(b)
  BY <1>1, VerifyingFacts DEF Verifying
<1>3. PICK n \in Block : /\ n = NextVerified /\ n \in Path[chainTip]
                        /\ Path[n] = Path[verified] \cup {n} /\ n \notin Path[verified]
  BY <1>1, <1>2, NextVerifiedFacts
<1>4. /\ spendOf' = Recorded(n) /\ txIndex' = Indexed(n) /\ verified' = n
      /\ UNCHANGED <<blkFile, revFile, fileInfo, diskIndex, coinsBest, index,
                     dirty, cacheBest, chainTip, goal, oldTip, fVerifyingBlocks, pc>>
  BY <1>3 DEF VerifyUp
<1>5. \A b \in Path[chainTip] \ {n} : Spent(b) \cap Spent(n) = {}
  BY <1>2, <1>3 DEF SpentOnce
<1>6. StoreTypeOK'
  BY <1>4, RecordedFacts, IndexedFacts DEF StoreTypeOK
<1>7. PlaceInv'
  BY <1>3, <1>4 DEF PlaceInv, Neighbours, Verifying
<1>8. IndexInv'
  BY <1>1, <1>4, IndexUnchanged
<1>9. FileInv'
  BY <1>4, FileUnchanged
<1>10. SerialInv'
  <2>1. \A b \in Path[chainTip] : IsIndexed(b)'
    BY <1>2, <1>4, <1>5, IndexedFacts
  <2>2. \A b \in Path[chainTip] : IsRecorded(b) => IsRecorded(b)'
    BY <1>2, <1>4, <1>5, RecordedFacts
  <2>3. IsRecorded(n)'
    BY <1>4, RecordedFacts
  <2>4. \A b \in Path[n] : IsRecorded(b)'
    <3>1. \A b \in Path[verified] : b \in Path[chainTip] /\ IsRecorded(b)
      BY <1>1, <1>2, OnPath DEF SerialInv
    <3> QED BY <1>3, <2>2, <2>3, <3>1
  <2>5. \A b \in Path[coinsBest] \ Rechecked(coinsBest) : IsRecorded(b)'
    BY <1>2, <2>2 DEF SerialInv
  <2>6. ASSUME NEW b \in Path[chainTip] \ Path[n], NEW s \in Spent(b)
        PROVE  spendOf'[s] = None
    <3>1. spendOf[s] = None
      BY <1>1, <1>3 DEF SerialInv, Verifying
    <3>2. s \in Serials \ Spent(n)
      BY <1>2, <1>3, <1>5, SpentFacts
    <3> QED BY <1>4, <3>1, <3>2, RecordedFacts
  <2> QED BY <1>1, <1>2, <1>4, <2>1, <2>4, <2>5, <2>6
          DEF SerialInv, Verifying, Rechecked, Spent
<1>11. CoinsHaveBlocks'
  BY <1>4, CoinsUnchanged
<1>12. ChainSpendsOnce'
  BY <1>4, SpendsUnchanged
<1> QED BY <1>6, <1>7, <1>8, <1>9, <1>10, <1>11, <1>12

(* VerifyDB finds its blocks and their undo data, and no spend in the way. *)
LEMMA VerifySucceeds == StoreInv => ~VerifyFailed
<1> SUFFICES ASSUME StoreInv, VerifyFailed PROVE FALSE
  OBVIOUS
<1>1. Verifying
  BY DEF VerifyFailed, Verifying
<1>2. /\ verified \in Path[chainTip] /\ chainTip \in Block /\ fVerifyingBlocks
      /\ Checked \subseteq Path[chainTip] /\ Genesis \notin Checked
      /\ \A b \in Path[chainTip] : b \in Block /\ Sound(b) /\ Undoable(b) /\ IsIndexed(b)
  BY <1>1, VerifyingFacts DEF Checked
<1>3. CASE pc = "verify"
  <2>1. \A b \in Checked : Readable(b) /\ "undo" \in index[b]
    BY <1>2 DEF StoreInv, IndexInv, Sound, Undoable, Usual, Readable
  <2> QED BY <1>3, <2>1 DEF VerifyFailed
<1>4. CASE pc = "reconnect"
  <2>1. verified # chainTip /\ ~SpendsAnew(NextVerified)
    BY <1>4 DEF VerifyFailed
  <2>2. PICK n \in Block : /\ n = NextVerified /\ n \in Path[chainTip]
                          /\ n \notin Path[verified]
    BY <1>2, <2>1, NextVerifiedFacts
  <2>3. ZerotxIn[n] # None /\ Spent(n) = {Serial[ZerotxIn[n]]}
    BY <2>1, <2>2, SpentFacts DEF SpendsAnew
  <2>4. txIndex[ZerotxIn[n]] = n
    BY <1>2, <2>2, <2>3 DEF IsIndexed
  <2>5. spendOf[Serial[ZerotxIn[n]]] = None
    BY <1>4, <2>2, <2>3 DEF StoreInv, SerialInv, Verifying
  <2>6. Work(n) <= Work(n)
    BY <1>2, <2>2, OnPath
  <2> QED BY <1>2, <2>1, <2>2, <2>4, <2>5, <2>6 DEF SpendsAnew, SerialInChain
<1> QED BY <1>1, <1>3, <1>4 DEF Verifying

(* So it ends at the tip, with the database as complete as before. *)
LEMMA VerifyEndsInv ==
    ASSUME StoreInv, VerifyEnds PROVE StoreInv'
<1> USE DEF StoreInv
<1>1. /\ pc = "reconnect" /\ verified = chainTip /\ pc' = "idle" /\ fVerifyingBlocks' = FALSE
      /\ UNCHANGED <<blkFile, revFile, fileInfo, diskIndex, coinsBest, spendOf, txIndex, index,
                     dirty, cacheBest, chainTip, goal, oldTip, verified>>
  BY VerifySucceeds DEF VerifyEnds, diskVars
<1>2. /\ chainTip = coinsBest /\ cacheBest = chainTip /\ chainTip \in Block /\ goal = None
      /\ chainTip \in Path[chainTip]
  BY <1>1, VerifyingFacts DEF Verifying
<1>3. StoreTypeOK'
  BY <1>1 DEF StoreTypeOK, Steps
<1>4. PlaceInv'
  BY <1>1, <1>2, ZerocoinAssumption DEF PlaceInv, Neighbours, Verifying
<1>5. IndexInv'
  BY <1>1, IndexUnchanged
<1>6. FileInv'
  BY <1>1, FileUnchanged
<1>7. SerialInv'
  BY <1>1, <1>2 DEF SerialInv, IsIndexed, IsRecorded, Rechecked, Verifying
<1>8. CoinsHaveBlocks'
  BY <1>1, CoinsUnchanged
<1>9. ChainSpendsOnce'
  BY <1>1, SpendsUnchanged
<1> QED BY <1>3, <1>4, <1>5, <1>6, <1>7, <1>8, <1>9

(* Crash: only the disk counts. *)
LEMMA CrashInv ==
    ASSUME StoreInv, Crash PROVE StoreInv'
<1> USE DEF StoreInv
<1>1. /\ pc' = "off" /\ index' = [b \in Block |-> {}] /\ dirty' = {}
      /\ cacheBest' = Genesis /\ chainTip' = Genesis /\ goal' = None /\ oldTip' = Genesis
      /\ verified' = Genesis /\ fVerifyingBlocks' = FALSE
      /\ UNCHANGED <<blkFile, revFile, fileInfo, diskIndex, coinsBest, spendOf, txIndex>>
  BY DEF Crash, diskVars
<1>2. Genesis \in Block /\ Path[Genesis] = {Genesis} /\ ZerotxIn[Genesis] = None
  BY ChainAssumption, ZerocoinAssumption
<1>3. StoreTypeOK'
  BY <1>1, <1>2 DEF StoreTypeOK, Steps
<1>4. PlaceInv'
  BY <1>1 DEF PlaceInv, Neighbours, Verifying
<1>5. IndexInv'
  BY <1>1 DEF IndexInv
<1>6. FileInv'
  BY <1>1, FileUnchanged
<1>7. SerialInv'
  BY <1>1, <1>2 DEF SerialInv, IsIndexed, IsRecorded, Rechecked, Verifying
<1>8. CoinsHaveBlocks'
  BY <1>1, CoinsUnchanged
<1>9. ChainSpendsOnce'
  BY <1>1, <1>2 DEF ChainSpendsOnce, SpentOnce
<1> QED BY <1>3, <1>4, <1>5, <1>6, <1>7, <1>8, <1>9

(* The chain of the coins is in the index that LoadBlockIndexDB reads. *)
LEMMA LoadedFacts ==
    ASSUME StoreInv
    PROVE  /\ coinsBest \in Block /\ coinsBest \in Path[coinsBest]
           /\ \A b \in Path[coinsBest] :
                 /\ b \in Block /\ Loaded[b] = diskIndex[b] /\ Usual \subseteq Loaded[b]
                 /\ Loaded[b] \cap {"failed", "blank"} = {}
                 /\ b # Genesis => "undo" \in Loaded[b]
<1>1. coinsBest \in Block /\ coinsBest \in Path[coinsBest]
  BY PathFacts DEF StoreInv, StoreTypeOK
<1>2. \A b \in Path[coinsBest] : /\ b \in Block /\ Usual \subseteq diskIndex[b]
                                 /\ diskIndex[b] \cap {"failed", "blank"} = {}
                                 /\ b # Genesis => "undo" \in diskIndex[b]
  BY <1>1, OnPath DEF StoreInv, CoinsHaveBlocks, FileInv, Usual
<1>3. \A b \in Path[coinsBest] : Loaded[b] = diskIndex[b]
  BY <1>2 DEF Loaded, Usual
<1> QED BY <1>1, <1>2, <1>3

(* AppInit2 finds the tip it had, and a chain of blocks it can read. *)
LEMMA StartInv ==
    ASSUME StoreInv, Start PROVE StoreInv'
<1> USE DEF StoreInv
<1>1. pc = "off" /\ goal = None
  BY DEF Start, PlaceInv
<1>2. coinsBest \in StartCandidates /\ Loaded[coinsBest] # {}
  <2>1. Work(coinsBest) >= Work(coinsBest)
    BY LoadedFacts, OnPath
  <2> QED BY <2>1, LoadedFacts DEF StartCandidates, Usual
<1>3. /\ pc' = "verify" /\ index' = Loaded /\ cacheBest' = coinsBest
      /\ chainTip' = coinsBest /\ verified' = coinsBest /\ fVerifyingBlocks' = TRUE
      /\ blkFile' = blkFile \cap fileInfo.blk /\ revFile' = revFile \cap fileInfo.rev
      /\ UNCHANGED <<fileInfo, diskIndex, coinsBest, spendOf, txIndex, dirty, goal, oldTip>>
  BY <1>2 DEF Start
<1>4. \A b \in Block : Loaded[b] \in {diskIndex[b], {"blank"}}
  BY DEF Loaded
<1>5. StoreTypeOK'
  <2>1. Loaded \in [Block -> SUBSET Flag]
    <3>1. \A b \in Block : Loaded[b] \in SUBSET Flag
      BY <1>4 DEF StoreTypeOK, Flag
    <3> QED BY <3>1 DEF Loaded
  <2> QED BY <1>3, <2>1 DEF StoreTypeOK, Steps
<1>6. PlaceInv'
  BY <1>1, <1>3, LoadedFacts DEF PlaceInv, Neighbours, Verifying
<1>7. IndexInv'
  <2>1. \A b \in Path[coinsBest] : Sound(b)' /\ Undoable(b)'
    BY <1>3, LoadedFacts DEF Sound, Undoable
  <2>2. \A b \in Block : /\ "data" \in index'[b] => "header" \in index'[b] /\ b \in blkFile'
                         /\ "undo" \in index'[b] => b \in revFile'
    BY <1>3, <1>4 DEF FileInv
  <2> QED BY <1>1, <1>3, <1>4, <2>1, <2>2 DEF IndexInv
<1>8. FileInv'
  BY <1>3 DEF FileInv
<1>9. SerialInv'
  BY <1>3 DEF SerialInv, IsIndexed, IsRecorded, Rechecked, Verifying
<1>10. CoinsHaveBlocks'
  BY <1>3 DEF CoinsHaveBlocks
<1>11. ChainSpendsOnce'
  BY <1>3, SpendsUnchanged
<1> QED BY <1>5, <1>6, <1>7, <1>8, <1>9, <1>10, <1>11

-----------------------------------------------------------------------------
(* Every step keeps the invariant. *)
LEMMA NextInv == StoreInv /\ [StoreNext]_storeVars => StoreInv'
<1> SUFFICES ASSUME StoreInv, [StoreNext]_storeVars PROVE StoreInv'
  OBVIOUS
<1>1. CASE UNCHANGED storeVars
  <2>1. UNCHANGED <<blkFile, revFile, fileInfo, diskIndex, coinsBest, spendOf, txIndex, index,
                    dirty, cacheBest, chainTip, goal, oldTip, verified, fVerifyingBlocks, pc>>
    BY <1>1 DEF storeVars, diskVars, taskVars
  <2>2. StoreTypeOK' /\ FileInv' /\ IndexInv'
    BY <2>1 DEF StoreInv, StoreTypeOK, FileInv, IndexInv, Sound, Undoable
  <2>3. PlaceInv' /\ SerialInv'
    BY <2>1, PlaceUnchanged, SerialUnchanged DEF StoreInv
  <2>4. CoinsHaveBlocks' /\ ChainSpendsOnce'
    BY <2>1, CoinsUnchanged, SpendsUnchanged DEF StoreInv
  <2> QED BY <2>2, <2>3, <2>4 DEF StoreInv
<1>2. CASE StoreNext
  <2>1. CASE \E b \in Block \ {Genesis} : AcceptBlock(b)
    BY <2>1, AcceptBlockInv
  <2>2. CASE \E b \in Block : WriteBlockIndex(b)
    BY <2>2, WriteBlockIndexInv
  <2>3. CASE \E t \in Zerotx : JustCheck(t)
    BY <2>3, JustCheckInv
  <2>4. CASE ActivateBestChain \/ ConnectRefused \/ ConnectSpends \/ ConnectFails
    BY <2>4, ActivateBestChainInv, ConnectRefusedInv, ConnectSpendsInv, ConnectFailsInv
  <2>5. CASE ConnectTip \/ DisconnectTip \/ UpdateTip
    BY <2>5, ConnectTipInv, DisconnectTipInv, UpdateTipInv
  <2>6. CASE FlushStateToDisk \/ FlushFileInfo \/ FlushCoins
    BY <2>6, FlushStateToDiskInv, FlushFileInfoInv, FlushCoinsInv
  <2>7. CASE VerifyDown \/ VerifyAtDepth \/ VerifyUp \/ VerifyEnds
    BY <2>7, VerifyDownInv, VerifyAtDepthInv, VerifyUpInv, VerifyEndsInv
  <2>8. CASE Crash \/ Start
    BY <2>8, CrashInv, StartInv
  <2> QED BY <1>2, <2>1, <2>2, <2>3, <2>4, <2>5, <2>6, <2>7, <2>8 DEF StoreNext
<1> QED BY <1>1, <1>2

(* StoreInv holds through stops, crashes and restarts at any point. *)
THEOREM Invariance == StoreSpec => []StoreInv
<1> QED BY InitInv, NextInv, PTL DEF StoreSpec

(* What the node keeps is always of its type. *)
THEOREM TypeCorrect == StoreSpec => []StoreTypeOK
<1>1. StoreInv => StoreTypeOK
  BY DEF StoreInv
<1> QED BY <1>1, Invariance, PTL

(* CoinsHaveBlocks: whenever the process dies, between whichever two writes *)
(* of FlushStateToDisk, of ConnectBlock or of VerifyDB, the chain of the    *)
(* coins can be read from the disk.                                         *)
THEOREM CoinsReadable == StoreSpec => []CoinsHaveBlocks
<1>1. StoreInv => CoinsHaveBlocks
  BY DEF StoreInv
<1> QED BY <1>1, Invariance, PTL

(* StartSucceeds: however it died, LoadBlockIndexDB finds the block of the *)
(* coins and VerifyDB's checks of blocks, undo data and spends pass.       *)
THEOREM StartAlwaysSucceeds == StoreSpec => []StartSucceeds
<1>1. StoreInv => StartSucceeds
  BY DEF StoreInv, PlaceInv, StartSucceeds
<1> QED BY <1>1, Invariance, PTL

(* SerialsRecorded: no order of connecting, refusing, trying, taking off   *)
(* and dying leaves a serial of the active chain that                      *)
(* IsSerialInBlockchain does not find.                                     *)
THEOREM SerialsKnown == StoreSpec => []SerialsRecorded
<1>1. StoreInv => SerialsRecorded
  BY ChainSerialsKnown DEF SerialsRecorded
<1> QED BY <1>1, Invariance, PTL

(* ChainSpendsOnce: so no serial is spent twice in the chain of the coins. *)
THEOREM SpentOnceInChain == StoreSpec => []ChainSpendsOnce
<1>1. StoreInv => ChainSpendsOnce
  BY DEF StoreInv
<1> QED BY <1>1, Invariance, PTL

=============================================================================
