-------------------------- MODULE BlockTreeProofs --------------------------
(* Proofs about BlockTree, for every tree of blocks, of any size.          *)
EXTENDS BlockTree, FiniteSetTheorems, WellFoundedInduction, TLAPS

-----------------------------------------------------------------------------
(* Least and greatest elements, which give every CHOOSE of BlockTree a     *)
(* value.  (The well-founded order is that of the intervals 0 .. n.)       *)

(* A nonempty set of naturals has a least element. *)
LEMMA LeastNumber ==
    ASSUME NEW T, T \subseteq Nat, T # {}
    PROVE  \E m \in T : \A n \in T : m <= n
<1> DEFINE U == {0 .. n : n \in T}
<1>1. U \subseteq FiniteSubsetsOf(Nat)
  <2>1. \A n \in T : IsFiniteSet(0 .. n)
    BY FS_Interval
  <2>2. \A n \in T : 0 .. n \in SUBSET Nat
    OBVIOUS
  <2>3. \A u \in U : u \in SUBSET Nat /\ IsFiniteSet(u)
    BY <2>1, <2>2
  <2> QED BY <2>3 DEF FiniteSubsetsOf
<1>2. U # {}
  OBVIOUS
<1>3. PICK x \in U : \A y \in U : <<y, x>> \notin StrictSubsetOrdering(Nat)
  <2> HIDE DEF U
  <2> QED BY <1>1, <1>2, FS_StrictSubsetOrderingWellFounded, WFMin
<1>4. PICK m \in T : x = 0 .. m
  OBVIOUS
<1>5. ASSUME NEW n \in T PROVE m <= n
  <2>1. <<0 .. n, 0 .. m>> \notin StrictSubsetOrdering(Nat)
    BY <1>3, <1>4
  <2>2. ~(0 .. n \subseteq 0 .. m /\ 0 .. n # 0 .. m)
    BY <2>1 DEF StrictSubsetOrdering
  <2> QED BY <2>2
<1> QED BY <1>5

(* A nonempty set of blocks has one where a function to Nat is least. *)
LEMMA LeastBlock ==
    ASSUME NEW S, S \subseteq Block, S # {}, NEW f \in [Block -> Nat]
    PROVE  \E m \in S : \A x \in S : f[m] <= f[x]
<1> DEFINE T == {f[x] : x \in S}
<1>1. T \subseteq Nat /\ T # {}
  OBVIOUS
<1>2. PICK k \in T : \A n \in T : k <= n
  <2> HIDE DEF T
  <2> QED BY <1>1, LeastNumber
<1>3. PICK m \in S : k = f[m]
  OBVIOUS
<1> QED BY <1>2, <1>3

(* If heights are bounded by that of a block, one of them is the greatest. *)
LEMMA HighestBlock ==
    ASSUME NEW S, S \subseteq Block, S # {}, NEW b \in Block,
           \A x \in S : Height[x] <= Height[b]
    PROVE  \E m \in S : \A x \in S : Height[x] <= Height[m]
<1> DEFINE f == [x \in Block |-> IF x \in S THEN Height[b] - Height[x] ELSE 0]
<1>1. f \in [Block -> Nat]
  BY TreeAssumption
<1>2. PICK m \in S : \A x \in S : f[m] <= f[x]
  <2> HIDE DEF f
  <2> QED BY <1>1, LeastBlock
<1>3. ASSUME NEW x \in S PROVE Height[x] <= Height[m]
  <2>1. Height[b] - Height[m] <= Height[b] - Height[x]
    BY <1>2
  <2>2. Height[b] \in Nat /\ Height[m] \in Nat /\ Height[x] \in Nat
    BY TreeAssumption
  <2> QED BY <2>1, <2>2
<1> QED BY <1>3

(* The last block of a non-empty set in the order of                       *)
(* CBlockIndexWorkComparator: most work, then least sequence id, then      *)
(* least address.                                                          *)
LEMMA BestExists ==
    ASSUME seqId \in [Block -> Nat], NEW S, S \subseteq Block, S # {}
    PROVE  BestOf(S) \in S /\ \A d \in S : ~Worse(BestOf(S), d)
<1> DEFINE lack == [x \in Block |-> MaxWork - Work[x]]
<1>1. lack \in [Block -> Nat]
  BY TreeAssumption
<1>2. PICK m \in S : \A x \in S : lack[m] <= lack[x]
  <2> HIDE DEF lack
  <2> QED BY <1>1, LeastBlock
<1>3. ASSUME NEW x \in S PROVE Work[x] <= Work[m]
  <2>1. MaxWork - Work[m] <= MaxWork - Work[x]
    BY <1>2
  <2>2. Work[m] \in Nat /\ Work[x] \in Nat /\ MaxWork \in Nat
    BY TreeAssumption
  <2> QED BY <2>1, <2>2
<1> DEFINE S2 == {x \in S : Work[x] = Work[m]}
<1>4. PICK n \in S2 : \A x \in S2 : seqId[n] <= seqId[x]
  <2>1. S2 \subseteq Block /\ m \in S2
    OBVIOUS
  <2> HIDE DEF S2
  <2> QED BY <2>1, LeastBlock
<1> DEFINE S3 == {x \in S2 : seqId[x] = seqId[n]}
<1>5. PICK c \in S3 : \A x \in S3 : Address[c] <= Address[x]
  <2>1. S3 \subseteq Block /\ n \in S3
    OBVIOUS
  <2> HIDE DEF S3
  <2> QED BY <2>1, LeastBlock, TreeAssumption
<1>6. ASSUME NEW d \in S PROVE ~Worse(c, d)
  <2>1. /\ Work[c] \in Nat /\ Work[d] \in Nat
        /\ seqId[c] \in Nat /\ seqId[d] \in Nat
        /\ Address[c] \in Nat /\ Address[d] \in Nat
    BY TreeAssumption
  <2>2. Work[d] <= Work[c]
    BY <1>3
  <2>3. Work[d] = Work[c] => seqId[c] <= seqId[d]
    BY <1>4
  <2>4. Work[d] = Work[c] /\ seqId[d] = seqId[c] => Address[c] <= Address[d]
    BY <1>5
  <2> QED BY <2>1, <2>2, <2>3, <2>4 DEF Worse, WorseBy
<1>7. c \in S
  OBVIOUS
<1> QED BY <1>6, <1>7 DEF BestOf

-----------------------------------------------------------------------------
(* The shape of the tree. *)

(* The ancestors of a block are blocks. *)
LEMMA PathType == ASSUME NEW b \in Block PROVE Path[b] \subseteq Block
BY TreeAssumption

(* The blocks of a path: they end at the genesis block, have less work the  *)
(* lower they are, one at each height, and each has its own path below it.  *)
PathOK(b) ==
    /\ Genesis \in Path[b] /\ b \in Path[b]
    /\ \A a \in Path[b] :
          /\ Path[a] \subseteq Path[b]
          /\ a # b => Height[a] < Height[b] /\ Work[a] < Work[b]
    /\ \A a, c \in Path[b] : Height[a] <= Height[c] => a \in Path[c]
    /\ \A h \in 0 .. Height[b] : \E a \in Path[b] : Height[a] = h

(* One block further, what a path is stays true. *)
LEMMA PathStep ==
    ASSUME NEW b \in Block \ {Genesis}, PathOK(Parent[b])
    PROVE  PathOK(b)
<1> DEFINE p == Parent[b]
<1>1. /\ p \in Block /\ b \in Block /\ Height[b] = Height[p] + 1 /\ Work[p] < Work[b]
      /\ Path[b] = {b} \cup Path[p] /\ Path[p] \subseteq Block
  BY TreeAssumption
<1>2. \A a \in Block : Height[a] \in Nat /\ Work[a] \in Nat
  BY TreeAssumption
<1>3. PathOK(p)
  OBVIOUS
<1> HIDE DEF p
<1>4. \A a \in Path[p] : Height[a] <= Height[p] /\ Work[a] <= Work[p]
  BY <1>1, <1>2, <1>3 DEF PathOK
<1>5. \A a \in Path[p] : Height[a] < Height[b] /\ Work[a] < Work[b]
  <2>1. ASSUME NEW a \in Path[p] PROVE Height[a] < Height[b] /\ Work[a] < Work[b]
    <3>1. a \in Block BY <1>1
    <3> QED BY <1>1, <1>2, <1>4, <3>1
  <2> QED BY <2>1
<1>6. ASSUME NEW a \in Path[b]
      PROVE  Path[a] \subseteq Path[b] /\ (a # b => Height[a] < Height[b] /\ Work[a] < Work[b])
  BY <1>1, <1>3, <1>5 DEF PathOK
<1>7. ASSUME NEW a \in Path[b], NEW c \in Path[b], Height[a] <= Height[c]
      PROVE  a \in Path[c]
  <2>1. CASE c = b
    BY <2>1
  <2>2. CASE c # b
    <3>1. c \in Path[p] /\ c \in Block /\ a \in Block BY <1>1, <2>2
    <3>2. a # b BY <1>2, <1>5, <1>7, <3>1
    <3> QED BY <1>1, <1>3, <1>7, <3>1, <3>2 DEF PathOK
  <2> QED BY <2>1, <2>2
<1>8. ASSUME NEW h \in 0 .. Height[b] PROVE \E a \in Path[b] : Height[a] = h
  <2>1. h = Height[b] \/ h \in 0 .. Height[p] BY <1>1, <1>2
  <2> QED BY <1>1, <1>3, <2>1 DEF PathOK
<1>9. Genesis \in Path[b] /\ b \in Path[b]
  BY <1>1, <1>3 DEF PathOK
<1> QED BY <1>6, <1>7, <1>8, <1>9 DEF PathOK

(* By induction on the height, it is true of all blocks. *)
LEMMA PathFacts ==
    \A b \in Block :
        /\ Genesis \in Path[b] /\ b \in Path[b]
        /\ \A a \in Path[b] :
              /\ Path[a] \subseteq Path[b]
              /\ a # b => Height[a] < Height[b] /\ Work[a] < Work[b]
        /\ \A a, c \in Path[b] : Height[a] <= Height[c] => a \in Path[c]
        /\ \A h \in 0 .. Height[b] : \E a \in Path[b] : Height[a] = h
<1> DEFINE Bad == {b \in Block : ~PathOK(b)}
           T == {Height[b] : b \in Bad}
<1>1. ASSUME Bad # {} PROVE FALSE
  <2>1. T \subseteq Nat /\ T # {}
    BY <1>1, TreeAssumption
  <2>2. PICK m \in T : \A n \in T : m <= n
    <3> HIDE DEF T
    <3> QED BY <2>1, LeastNumber
  <2>3. PICK b \in Bad : Height[b] = m
    OBVIOUS
  <2>4. b # Genesis
    <3>1. PathOK(Genesis) BY TreeAssumption DEF PathOK
    <3> QED BY <3>1
  <2>5. Parent[b] \in Block /\ Height[b] = Height[Parent[b]] + 1 /\ Height[Parent[b]] \in Nat
    BY <2>4, TreeAssumption
  <2>6. Parent[b] \notin Bad
    <3>1. SUFFICES ASSUME Parent[b] \in Bad PROVE FALSE OBVIOUS
    <3>2. Height[b] <= Height[Parent[b]] BY <2>2, <2>3, <3>1
    <3> QED BY <2>5, <3>2
  <2> QED BY <2>4, <2>5, <2>6, PathStep
<1>2. \A b \in Block : PathOK(b)
  BY <1>1
<1> QED BY <1>2 DEF PathOK

(* What PathFacts says of one block of a path. *)
LEMMA OnPath ==
    ASSUME NEW b \in Block, NEW a \in Path[b]
    PROVE  /\ a \in Block
           /\ Path[a] \subseteq Path[b]
           /\ Height[a] \in Nat /\ Work[a] \in Nat
           /\ Height[a] <= Height[b] /\ Work[a] <= Work[b]
           /\ a # b => Height[a] < Height[b] /\ Work[a] < Work[b]
<1>1. a \in Block /\ b \in Block
  BY PathType
<1>2. Height[a] \in Nat /\ Work[a] \in Nat /\ Height[b] \in Nat /\ Work[b] \in Nat
  BY <1>1, TreeAssumption
<1>3. Path[a] \subseteq Path[b] /\ (a # b => Height[a] < Height[b] /\ Work[a] < Work[b])
  BY PathFacts
<1> QED BY <1>1, <1>2, <1>3

(* A block other than genesis sits directly above its parent's chain. *)
LEMMA ParentPath ==
    ASSUME NEW b \in Block, b # Genesis
    PROVE  /\ Parent[b] \in Path[b] /\ Parent[b] \in Block
           /\ b \in Path[b]
           /\ Path[Parent[b]] = Path[b] \ {b}
           /\ Height[Parent[b]] < Height[b]
<1>1. /\ Parent[b] \in Block
      /\ Height[b] = Height[Parent[b]] + 1
      /\ Path[b] = {b} \cup Path[Parent[b]]
      /\ Height[Parent[b]] \in Nat
  BY TreeAssumption
<1>2. b \notin Path[Parent[b]]
  BY <1>1, OnPath
<1>3. Parent[b] \in Path[Parent[b]]
  BY <1>1, PathFacts
<1> QED BY <1>1, <1>2, <1>3

(* Two ancestors of one block are on one line. *)
LEMMA OnOneLine ==
    ASSUME NEW b \in Block, NEW a \in Path[b], NEW c \in Path[b]
    PROVE  /\ Height[a] <= Height[c] => a \in Path[c]
           /\ a \in Path[c] \/ c \in Path[a]
<1>1. \A x, y \in Path[b] : Height[x] <= Height[y] => x \in Path[y]
  BY PathFacts
<1>2. Height[a] \in Nat /\ Height[c] \in Nat
  BY OnPath
<1> QED BY <1>1, <1>2

(* FindFork returns an active ancestor, and nothing above it on the chain  *)
(* is active.                                                              *)
LEMMA ForkFacts ==
    ASSUME tip \in Block, NEW b \in Block
    PROVE  /\ Fork(b) \in Path[b] \cap Active
           /\ \A g \in Path[b] \cap Active : Height[g] <= Height[Fork(b)]
<1> DEFINE S == Path[b] \cap Active
<1>1. S \subseteq Block /\ S # {}
  BY PathType, PathFacts DEF Active
<1>2. \A x \in S : Height[x] <= Height[b]
  BY OnPath
<1>3. \E m \in S : \A x \in S : Height[x] <= Height[m]
  <2> HIDE DEF S
  <2> QED BY <1>1, <1>2, HighestBlock
<1> QED BY <1>3 DEF Fork

(* The failed block FindMostWorkChain meets first is not active. *)
LEMMA FirstFailedFacts ==
    ASSUME NEW c \in Block, ~Usable(c)
    PROVE  /\ FirstFailed(c) \in Path[c]
           /\ FirstFailed(c) \in Failed \ Active
<1> DEFINE S == Branch(c) \cap Failed
<1>1. S \subseteq Path[c] /\ S # {}
  BY DEF Branch, Usable
<1>2. S \subseteq Block /\ \A x \in S : Height[x] <= Height[c]
  BY <1>1, PathType, OnPath
<1>3. \E m \in S : \A x \in S : Height[x] <= Height[m]
  <2> HIDE DEF S
  <2> QED BY <1>1, <1>2, HighestBlock
<1>4. FirstFailed(c) \in S
  BY <1>3 DEF FirstFailed
<1> QED BY <1>4 DEF Branch

-----------------------------------------------------------------------------
(* One step of FindMostWorkChain and ActivateBestChainStep. *)

(* FindMostWorkChain returns the best usable candidate, or NULL. *)
LEMMA MostWorkFacts ==
    ASSUME TypeOK
    PROVE  MostWork = NoBlock \/ (MostWork \in candidates /\ Usable(MostWork))
<1> DEFINE S == {c \in candidates : Usable(c)}
<1>1. CASE S = {}
  BY <1>1 DEF MostWork
<1>2. CASE S # {}
  <2>1. S \subseteq Block /\ seqId \in [Block -> Nat]
    BY DEF TypeOK
  <2>2. BestOf(S) \in S
    <3> HIDE DEF S
    <3> QED BY <1>2, <2>1, BestExists
  <2> QED BY <1>2, <2>2 DEF MostWork
<1> QED BY <1>1, <1>2

(* Whatever is flagged or taken out of the candidates is a failed block    *)
(* off the active chain or a descendant of one.                            *)
LEMMA DiscardedFacts ==
    ASSUME TypeOK, IndexIsLinked, NEW most,
           NEW x \in MarkedChild(most) \cup Erased(most)
    PROVE  x \in known /\ \E f \in Path[x] : f \in Failed \ Active
<1>1. PICK c \in Discarded(most) :
         \/ x \in Path[c] /\ Height[x] > Height[FirstFailed(c)]
         \/ x = FirstFailed(c)
  BY DEF MarkedChild, Erased
<1>2. c \in Block /\ ~Usable(c) /\ Path[c] \subseteq haveData
  BY DEF Discarded, TypeOK, IndexIsLinked
<1>3. FirstFailed(c) \in Path[c] /\ FirstFailed(c) \in Failed \ Active
  BY <1>2, FirstFailedFacts
<1>4. x \in Path[c] /\ x \in Block
  BY <1>1, <1>2, <1>3, PathType
<1>5. Height[FirstFailed(c)] \in Nat /\ Height[x] \in Nat
  BY <1>2, <1>3, <1>4, OnPath
<1>6. FirstFailed(c) \in Path[x]
  BY <1>1, <1>2, <1>3, <1>4, <1>5, OnOneLine
<1>7. x \in known
  BY <1>2, <1>4 DEF TypeOK
<1> QED BY <1>3, <1>6, <1>7

(* None of it is on the active chain or on the way to a usable block. *)
LEMMA DiscardedIsElsewhere ==
    ASSUME TypeOK, IndexIsLinked, NEW most, NEW b \in Block, Usable(b)
    PROVE  (MarkedChild(most) \cup Erased(most)) \cap (Active \cup Path[b]) = {}
<1> SUFFICES ASSUME NEW x \in MarkedChild(most) \cup Erased(most),
                    x \in Active \cup Path[b]
             PROVE  FALSE
  OBVIOUS
<1>1. PICK f \in Path[x] : f \in Failed \ Active
  BY DiscardedFacts
<1>2. tip \in Block
  BY DEF TypeOK
<1>3. CASE x \in Active
  BY <1>1, <1>2, <1>3, OnPath DEF Active
<1>4. CASE x \in Path[b]
  <2>1. f \in Path[b]
    BY <1>1, <1>4, OnPath
  <2> QED BY <1>1, <2>1 DEF Usable, Branch
<1> QED BY <1>3, <1>4

(* The blocks up to b on the way to most are new to the active chain, and  *)
(* what lies below them is not.                                            *)
LEMMA ToConnectFacts ==
    ASSUME tip \in Block, NEW most \in Block, NEW b \in Path[most]
    PROVE  /\ ToConnect(most, b) \subseteq Path[b] \ Active
           /\ Path[b] \subseteq Active \cup ToConnect(most, b)
<1>0. /\ Fork(most) \in Path[most] \cap Active
      /\ \A g \in Path[most] \cap Active : Height[g] <= Height[Fork(most)]
  BY ForkFacts
<1>1. Height[Fork(most)] \in Nat /\ Height[b] \in Nat
  BY <1>0, OnPath
<1>2. ASSUME NEW c \in ToConnect(most, b) PROVE c \in Path[b] \ Active
  <2>1. c \in Path[most] /\ Height[c] > Height[Fork(most)] /\ Height[c] <= Height[b]
    BY DEF ToConnect
  <2>2. Height[c] \in Nat
    BY <2>1, OnPath
  <2>3. c \notin Active
    BY <1>0, <1>1, <2>1, <2>2
  <2> QED BY <2>1, <2>3, OnOneLine
<1>3. ASSUME NEW c \in Path[b], c \notin ToConnect(most, b) PROVE c \in Active
  <2>1. b \in Block /\ c \in Path[most] /\ Height[c] \in Nat /\ Height[c] <= Height[b]
    BY OnPath
  <2>2. Height[c] <= Height[Fork(most)]
    BY <1>1, <1>3, <2>1 DEF ToConnect
  <2>3. c \in Path[Fork(most)]
    BY <1>0, <2>1, <2>2, OnOneLine
  <2> QED BY <1>0, <2>3, OnPath DEF Active
<1> QED BY <1>2, <1>3

(* A candidate no worse than the tip is off the active chain, unless it is *)
(* the tip, and ActivateBestChainStep finds a block to stop at.            *)
LEMMA StopFacts ==
    ASSUME TypeOK, CandidatesNotWorse, NEW p,
           NEW most \in candidates, most # tip
    PROVE  /\ StopAt(p, most) \in ToConnect(most, most)
           /\ \A c \in ToConnect(most, StopAt(p, most)) \ {StopAt(p, most)} :
                 ~ConnectFails(p, c, most) /\ Work[c] <= Work[tip]
<1> DEFINE Stops(b) == ConnectFails(p, b, most) \/ Work[b] > Work[tip] \/ b = most
           S == {b \in ToConnect(most, most) : Stops(b)}
<1>0. most \in Block /\ tip \in Block
  BY DEF TypeOK
<1>1. most \notin Active
  <2> SUFFICES ASSUME most \in Active PROVE FALSE
    OBVIOUS
  <2>1. Work[most] < Work[tip]
    BY <1>0, OnPath DEF Active
  <2> QED BY <2>1 DEF CandidatesNotWorse, Worse, WorseBy
<1>2. most \in Path[most] /\ Path[most] \subseteq Block
  BY <1>0, PathType, PathFacts
<1>3. most \in S
  BY <1>0, <1>1, <1>2, ToConnectFacts
<1>4. S \subseteq Block
  BY <1>0, <1>2, ToConnectFacts
<1>5. Height \in [Block -> Nat] /\ Work \in [Block -> 0 .. MaxWork] /\ MaxWork \in Nat
  BY TreeAssumption
<1>6. PICK m \in S : \A x \in S : Height[m] <= Height[x]
  <2> HIDE DEF S
  <2> QED BY <1>3, <1>4, <1>5, LeastBlock
<1>7. m \in ToConnect(most, most) /\ m \in Path[most]
  BY DEF ToConnect
<1>8. ASSUME NEW c \in ToConnect(most, m) \ {m}
      PROVE  ~ConnectFails(p, c, most) /\ Work[c] <= Work[tip]
  <2>1. c \in Path[m] /\ c \in ToConnect(most, most)
    <3>1. c \in Path[m]
      BY <1>0, <1>7, ToConnectFacts
    <3>2. Height[c] <= Height[most] /\ c \in Path[most]
      BY <1>0, <1>7, <3>1, OnPath
    <3> QED BY <3>1, <3>2 DEF ToConnect
  <2>2. Height[c] < Height[m] /\ c \in Block /\ m \in Block
    BY <1>0, <1>7, <2>1, OnPath
  <2>3. Height[c] \in Nat /\ Height[m] \in Nat /\ Work[c] \in Nat /\ Work[tip] \in Nat
    BY <1>0, <1>5, <2>2
  <2>4. c \notin S
    BY <1>6, <2>2, <2>3
  <2>5. ~Stops(c)
    BY <2>1, <2>4
  <2> QED BY <2>3, <2>5
<1>9. StopAt(p, most) \in ToConnect(most, most) /\
      \A c \in ToConnect(most, StopAt(p, most)) \ {StopAt(p, most)} :
          ~ConnectFails(p, c, most) /\ Work[c] <= Work[tip]
  <2>1. \E b \in ToConnect(most, most) :
          /\ Stops(b)
          /\ \A c \in ToConnect(most, b) \ {b} :
                ~ConnectFails(p, c, most) /\ Work[c] <= Work[tip]
    BY <1>6, <1>8
  <2> QED BY <2>1 DEF StopAt
<1> QED BY <1>9

-----------------------------------------------------------------------------
(* The inductive invariant.  CandidatesNotWorse is what makes              *)
(* ActivateBestChainStep find a way up, IndexIsLinked what makes every     *)
(* block on that way have its data, and both are needed for the active     *)
(* chain to stay clean.                                                    *)
ChainInv ==
    /\ IndexIsLinked
    /\ CandidatesNotWorse
    /\ ActiveChainClean
    /\ IsFiniteSet(haveData)

IInv == TypeOK /\ ChainInv

(* The genesis state satisfies the inductive invariant. *)
LEMMA InitInv == Init => IInv
<1> SUFFICES ASSUME Init PROVE IInv
  OBVIOUS
<1>0. Genesis \in Block /\ Path[Genesis] = {Genesis}
  BY TreeAssumption
<1>1. TypeOK
  BY <1>0, TreeAssumption DEF Init, TypeOK
<1>2. IndexIsLinked
  <2>1. \A b \in haveData : Path[b] \subseteq haveData
    BY <1>0 DEF Init
  <2> QED BY <1>0, <2>1 DEF Init, IndexIsLinked
<1>3. CandidatesNotWorse
  <2>1. Work[Genesis] \in Nat /\ seqId[Genesis] = 1 /\ Address[Genesis] \in Nat
    BY <1>0, TreeAssumption DEF Init
  <2> QED BY <2>1 DEF Init, CandidatesNotWorse, Worse, WorseBy
<1>4. ActiveChainClean
  BY <1>0 DEF Init, ActiveChainClean, Active, Failed
<1>5. IsFiniteSet(haveData)
  <2>1. {} \cup {Genesis} = {Genesis}
    OBVIOUS
  <2> QED BY <2>1, FS_EmptySet, FS_AddElement DEF Init
<1> QED BY <1>1, <1>2, <1>3, <1>4, <1>5 DEF IInv, ChainInv

(* A step that leaves the index, the candidates and the tip alone. *)
LEMMA ChainUnchanged ==
    ASSUME ChainInv, UNCHANGED <<indexVars, candidates, tip>>
    PROVE  ChainInv'
BY DEF ChainInv, IndexIsLinked, CandidatesNotWorse, Worse, WorseBy,
       ActiveChainClean, Active, Failed, indexVars

(* What is no worse than a block is no worse than its ancestors. *)
LEMMA NotWorseBelow ==
    ASSUME NEW t \in Block, NEW a \in Path[t], NEW c \in Block, ~Worse(c, t)
    PROVE  ~Worse(c, a)
<1>1. Work[a] \in Nat /\ Work[t] \in Nat /\ Work[c] \in Nat
  BY OnPath, TreeAssumption
<1>2. CASE a = t
  BY <1>2
<1>3. CASE a # t
  <2>1. Work[a] < Work[t] /\ ~(Work[c] < Work[t])
    BY <1>3, OnPath DEF Worse, WorseBy
  <2> QED BY <1>1, <2>1 DEF Worse, WorseBy
<1> QED BY <1>2, <1>3

(* A block of the active chain is linked. *)
LEMMA ActiveIsLinked ==
    ASSUME TypeOK, IndexIsLinked, NEW t \in linked, NEW b \in Path[t]
    PROVE  b \in linked
<1>1. t \in Block /\ Path[t] \subseteq haveData
  BY DEF TypeOK, IndexIsLinked
<1>2. Path[b] \subseteq Path[t]
  BY <1>1, OnPath
<1> QED BY <1>1, <1>2 DEF IndexIsLinked

(* ReconsiderBlock only clears flags and adds blocks better than the tip. *)
LEMMA ReconsiderKeepsInv ==
    ASSUME IInv, NEW b \in Block, Reconsider(b),
           UNCHANGED <<known, haveData, scripts, linked, seqId, unlinked, tip>>
    PROVE  /\ ChainInv'
           /\ failedValid' \subseteq known /\ failedChild' \subseteq known
           /\ candidates' \subseteq linked
<1> USE DEF IInv, ChainInv
<1>1. failedValid' \subseteq failedValid /\ failedChild' \subseteq failedChild
  BY DEF Reconsider
<1>2. candidates' \subseteq linked
  BY DEF Reconsider, Readmitted, TypeOK
<1>3. IndexIsLinked'
  BY DEF IndexIsLinked
<1>4. ActiveChainClean'
  BY <1>1 DEF ActiveChainClean, Active, Failed
<1>5. CandidatesNotWorse'
  <2>1. ASSUME NEW c \in candidates' PROVE ~Worse(c, tip)
    <3>1. CASE c \in candidates
      BY <3>1 DEF CandidatesNotWorse
    <3>2. CASE c \in Readmitted(b)
      <4>1. Worse(tip, c) /\ c \in Block /\ tip \in Block
        BY <3>2 DEF Readmitted, TypeOK
      <4>2. /\ Work[c] \in Nat /\ Work[tip] \in Nat
            /\ seqId[c] \in Nat /\ seqId[tip] \in Nat
            /\ Address[c] \in Nat /\ Address[tip] \in Nat
        BY <4>1, TreeAssumption DEF TypeOK
      <4> QED BY <4>1, <4>2 DEF Worse, WorseBy
    <3> QED BY <3>1, <3>2 DEF Reconsider
  <2> QED BY <2>1 DEF CandidatesNotWorse, Worse, WorseBy
<1> QED BY <1>1, <1>2, <1>3, <1>4, <1>5 DEF TypeOK

-----------------------------------------------------------------------------
(* Accepting a block. *)

(* CheckBlock, outside cs_main, changes nothing of the index. *)
LEMMA CheckBlockInv ==
    ASSUME IInv, NEW b \in Block \ {Genesis}, CheckBlock(b)
    PROVE  IInv'
<1>1. ChainInv'
  BY ChainUnchanged DEF IInv, CheckBlock
<1>2. TypeOK'
  <2>1. UNCHANGED <<indexVars, candidates, tip, disputed, aged, calls,
                    reprocessing, process>>
    BY DEF CheckBlock
  <2>2. rejected' \subseteq rejected \cup disputed /\ toReconsider' \subseteq rejected'
    BY DEF CheckBlock, Reject, IInv, TypeOK
  <2>3. checked' \subseteq checked \cup {b}
    BY DEF CheckBlock
  <2> QED BY <2>1, <2>2, <2>3 DEF IInv, TypeOK, indexVars
<1> QED BY <1>1, <1>2 DEF IInv

(* A header that is refused leaves the index alone. *)
LEMMA AcceptRefusedInv ==
    ASSUME IInv, NEW b \in Block \ {Genesis}, AcceptRefused(b)
    PROVE  IInv'
<1>1. ChainInv'
  BY ChainUnchanged DEF IInv, AcceptRefused, Accepting
<1>2. TypeOK'
  BY DEF IInv, TypeOK, AcceptRefused, Accepting, indexVars
<1> QED BY <1>1, <1>2 DEF IInv

(* The checkpoint path of AcceptBlock only reconsiders. *)
LEMMA AcceptReconsidersInv ==
    ASSUME IInv, NEW b \in Block \ {Genesis}, AcceptReconsiders(b)
    PROVE  IInv'
<1>1. /\ Parent[b] \in Block /\ Reconsider(Parent[b])
      /\ UNCHANGED <<known, haveData, scripts, linked, seqId, nBlockSequenceId,
                     unlinked, tip, disputed, rejected, aged, toReconsider,
                     reprocessing>>
      /\ checked' = checked \ {b}
      /\ process' = "activating" /\ calls' = calls \cup {NoBlock, b}
  BY TreeAssumption DEF AcceptReconsiders, Accepting
<1>2. /\ ChainInv' /\ candidates' \subseteq linked
      /\ failedValid' \subseteq known /\ failedChild' \subseteq known
  BY <1>1, ReconsiderKeepsInv
<1>3. TypeOK'
  BY <1>1, <1>2 DEF IInv, TypeOK, Calls
<1> QED BY <1>2, <1>3 DEF IInv

(* A block that is there already leaves the index alone. *)
LEMMA AcceptDuplicateInv ==
    ASSUME IInv, NEW b \in Block \ {Genesis}, AcceptDuplicate(b)
    PROVE  IInv'
<1>1. ChainInv'
  BY ChainUnchanged DEF IInv, AcceptDuplicate, Accepting
<1>2. TypeOK'
  BY DEF IInv, TypeOK, AcceptDuplicate, Accepting, indexVars, Calls
<1> QED BY <1>1, <1>2 DEF IInv

(* A block without data is on nobody's chain yet, so its flag is harmless. *)
LEMMA AcceptInvalidInv ==
    ASSUME IInv, NEW b \in Block \ {Genesis}, AcceptInvalid(b)
    PROVE  IInv'
<1> USE DEF IInv, ChainInv
<1>1. /\ b \notin haveData
      /\ known' = known \cup {b} /\ failedValid' = failedValid \cup {b}
      /\ checked' = checked \ {b}
      /\ UNCHANGED <<failedChild, haveData, scripts, linked, seqId,
                     nBlockSequenceId, unlinked, candidates, calls, process, tip,
                     disputed, rejected, aged, toReconsider, reprocessing>>
  BY DEF AcceptInvalid, Accepting
<1>2. TypeOK'
  BY <1>1 DEF TypeOK
<1>3. b \notin Active
  BY <1>1 DEF ActiveChainClean, TypeOK
<1>4. ActiveChainClean'
  BY <1>1, <1>3 DEF ActiveChainClean, Active, Failed
<1>5. IndexIsLinked' /\ CandidatesNotWorse' /\ IsFiniteSet(haveData')
  BY <1>1 DEF IndexIsLinked, CandidatesNotWorse, Worse, WorseBy
<1> QED BY <1>2, <1>4, <1>5

(* A header without data links nothing. *)
LEMMA AcceptNoSpaceInv ==
    ASSUME IInv, NEW b \in Block \ {Genesis}, AcceptNoSpace(b)
    PROVE  IInv'
<1> USE DEF IInv, ChainInv
<1>1. /\ known' = known \cup {b}
      /\ checked' = checked \ {b}
      /\ UNCHANGED <<failedValid, failedChild, haveData, scripts, linked, seqId,
                     nBlockSequenceId, unlinked, candidates, calls, process, tip,
                     disputed, rejected, aged, toReconsider, reprocessing>>
  BY DEF AcceptNoSpace, Accepting
<1>2. TypeOK'
  BY <1>1 DEF TypeOK
<1>3. ActiveChainClean'
  BY <1>1 DEF ActiveChainClean, Active, Failed
<1>4. IndexIsLinked' /\ CandidatesNotWorse' /\ IsFiniteSet(haveData')
  BY <1>1 DEF IndexIsLinked, CandidatesNotWorse, Worse, WorseBy
<1> QED BY <1>2, <1>3, <1>4

(* ReceivedBlockTransactions links exactly the blocks whose last missing   *)
(* ancestor was b.                                                         *)
LEMMA NowLinkedFacts ==
    ASSUME IInv, NEW b \in Block \ {Genesis}, b \notin haveData, Parent[b] \in linked
    PROVE  NowLinked(b) = {x \in haveData \cup {b} :
                              b \in Path[x] /\ Path[x] \subseteq haveData \cup {b}}
<1> USE DEF IInv, ChainInv
<1>1. /\ b \in Path[b] /\ Path[b] \ {b} = Path[Parent[b]]
      /\ Path[Parent[b]] \subseteq haveData
  BY ParentPath DEF IndexIsLinked
<1>2. ASSUME NEW x \in NowLinked(b)
      PROVE  x \in haveData \cup {b} /\ b \in Path[x] /\ Path[x] \subseteq haveData \cup {b}
  <2>1. x \in unlinked \cup {b} /\ b \in Path[x] /\ Path[x] \ Path[b] \subseteq unlinked
    BY DEF NowLinked
  <2> QED BY <1>1, <2>1 DEF IndexIsLinked
<1>3. ASSUME NEW x \in haveData \cup {b}, b \in Path[x],
             Path[x] \subseteq haveData \cup {b}
      PROVE  x \in NowLinked(b)
  <2>1. x \in unlinked \cup {b}
    BY <1>3 DEF IndexIsLinked
  <2>2. x \in Block
    BY DEF TypeOK
  <2>3. ASSUME NEW y \in Path[x] \ Path[b] PROVE y \in unlinked
    <3>1. y # b /\ y \in haveData /\ y \in Block
      BY <1>1, <1>3, <2>2, PathType
    <3>2. b \in Path[y]
      BY <1>3, <2>2, OnOneLine
    <3> QED BY <3>1, <3>2 DEF IndexIsLinked
  <2> QED BY <1>3, <2>1, <2>3 DEF NowLinked
<1> QED BY <1>2, <1>3

(* ReceivedBlockTransactions links whole subtrees and adds only candidates *)
(* no worse than the tip.                                                  *)
LEMMA AcceptStoredInv ==
    ASSUME IInv, NEW b \in Block \ {Genesis}, AcceptStored(b)
    PROVE  IInv'
<1> USE DEF IInv, ChainInv
<1>1. /\ b \notin haveData
      /\ known' = known \cup {b} /\ haveData' = haveData \cup {b}
      /\ checked' = checked \ {b} /\ calls' = calls \cup {b}
      /\ UNCHANGED <<failedValid, failedChild, scripts, process, tip, disputed,
                     rejected, aged, toReconsider, reprocessing>>
  BY DEF AcceptStored, Accepting
<1>2. IsFiniteSet(haveData')
  BY <1>1, FS_AddElement
<1>3. ActiveChainClean'
  BY <1>1 DEF ActiveChainClean, Active, Failed
<1>4. CASE Parent[b] \in linked
  <2> DEFINE N == NowLinked(b)
  <2>1. /\ linked' = linked \cup N /\ unlinked' = unlinked \ N
        /\ candidates' = candidates \cup {x \in N : ~WorseBy(seqId', x, tip)}
        /\ nBlockSequenceId' = nBlockSequenceId + Cardinality(N)
    BY <1>4 DEF AcceptStored
  <2>2. PICK f \in Numberings(N, nBlockSequenceId) :
          seqId' = [x \in Block |-> IF x \in N THEN f[x] ELSE seqId[x]]
    BY <1>4 DEF AcceptStored
  <2>3. N = {x \in haveData \cup {b} : b \in Path[x] /\ Path[x] \subseteq haveData \cup {b}}
    BY <1>1, <1>4, NowLinkedFacts
  <2> HIDE DEF N
  <2>4. N \subseteq haveData' /\ N \cap linked = {} /\ N \subseteq Block
    BY <1>1, <2>3 DEF IndexIsLinked, TypeOK
  <2>5. Cardinality(N) \in Nat
    <3>1. IsFiniteSet(N)
      BY <1>2, <2>4, FS_Subset
    <3> QED BY <3>1, FS_CardinalityType
  <2>6. seqId' \in [Block -> Nat] /\ nBlockSequenceId' \in Nat
    <3>1. nBlockSequenceId \in Nat /\ seqId \in [Block -> Nat]
      BY DEF TypeOK
    <3>2. nBlockSequenceId .. nBlockSequenceId + Cardinality(N) - 1 \subseteq Nat
      BY <2>5, <3>1
    <3>3. f \in [N -> nBlockSequenceId .. nBlockSequenceId + Cardinality(N) - 1]
      BY <2>2 DEF Numberings
    <3>4. \A x \in N : f[x] \in Nat
      BY <3>2, <3>3
    <3> QED BY <2>1, <2>2, <2>5, <3>1, <3>4
  <2>7. TypeOK'
    BY <1>1, <2>1, <2>4, <2>6 DEF TypeOK, Calls
  <2>8. IndexIsLinked'
    <3>0. b \in Path[b]
      BY ParentPath
    <3>1. linked' = {x \in haveData' : Path[x] \subseteq haveData'}
      BY <1>1, <2>1, <2>3, <3>0 DEF IndexIsLinked
    <3>2. unlinked' = haveData' \ linked'
      <4>1. b \in N
        BY <1>1, <1>4, <2>3, ParentPath DEF IndexIsLinked
      <4> QED BY <1>1, <2>1, <4>1 DEF IndexIsLinked
    <3> QED BY <1>1, <3>1, <3>2 DEF IndexIsLinked
  <2>9. CandidatesNotWorse'
    <3>1. ASSUME NEW c \in candidates' PROVE ~WorseBy(seqId', c, tip)
      <4>1. CASE c \in N /\ ~WorseBy(seqId', c, tip)
        BY <4>1
      <4>2. CASE c \in candidates
        <5>1. c \notin N /\ tip \notin N /\ c \in Block /\ tip \in Block
          BY <2>4, <4>2 DEF TypeOK
        <5>2. seqId'[c] = seqId[c] /\ seqId'[tip] = seqId[tip]
          BY <2>2, <5>1
        <5> QED BY <4>2, <5>2 DEF CandidatesNotWorse, Worse, WorseBy
      <4> QED BY <2>1, <4>1, <4>2
    <3> QED BY <1>1, <3>1 DEF CandidatesNotWorse, Worse, WorseBy
  <2> QED BY <1>2, <1>3, <2>7, <2>8, <2>9
<1>5. CASE Parent[b] \notin linked
  <2>1. /\ unlinked' = unlinked \cup {b}
        /\ UNCHANGED <<linked, seqId, nBlockSequenceId, candidates>>
    BY <1>5 DEF AcceptStored
  <2>2. ASSUME NEW x \in haveData \cup {b}, b \in Path[x]
        PROVE  ~(Path[x] \subseteq haveData \cup {b})
    <3>1. x \in Block /\ Path[b] \subseteq Path[x]
      BY <2>2, OnPath DEF TypeOK
    <3>2. Parent[b] \in Path[b] /\ Path[Parent[b]] = Path[b] \ {b} /\ Parent[b] # b
      BY ParentPath
    <3> QED BY <1>5, <3>1, <3>2 DEF IndexIsLinked
  <2>3. b \in Path[b]
    BY ParentPath
  <2>4. IndexIsLinked'
    <3>1. linked = {x \in haveData' : Path[x] \subseteq haveData'}
      BY <1>1, <2>2, <2>3 DEF IndexIsLinked
    <3>2. unlinked' = haveData' \ linked
      BY <1>1, <2>1, <2>2, <2>3, <3>1 DEF IndexIsLinked
    <3> QED BY <1>1, <2>1, <3>1, <3>2 DEF IndexIsLinked
  <2>5. TypeOK'
    BY <1>1, <2>1 DEF TypeOK, Calls
  <2>6. CandidatesNotWorse'
    BY <1>1, <2>1 DEF CandidatesNotWorse, Worse, WorseBy
  <2> QED BY <1>2, <1>3, <2>4, <2>5, <2>6
<1> QED BY <1>4, <1>5

-----------------------------------------------------------------------------
(* Activating the best chain. *)

(* PruneBlockIndexCandidates keeps the blocks no worse than the tip it ran *)
(* for.                                                                    *)
LEMMA PrunedFacts ==
    ASSUME IInv, NEW most \in Block, NEW b \in Path[most],
           NEW S, S \subseteq candidates, NEW c \in PrunedBelow(S, most, b)
    PROVE  c \in S /\ ~Worse(c, b)
<1> USE DEF IInv, ChainInv
<1>1. CASE ToConnect(most, b) # {}
  BY <1>1 DEF PrunedBelow
<1>2. CASE ToConnect(most, b) = {}
  <2>1. c \in S /\ c \in Block /\ tip \in Block /\ b \in Path[b]
    BY <1>2, OnPath, PathFacts DEF PrunedBelow, TypeOK
  <2>2. b \in Path[tip]
    BY <1>2, <2>1, ToConnectFacts DEF Active
  <2> QED BY <2>1, <2>2, NotWorseBelow DEF CandidatesNotWorse
<1> QED BY <1>1, <1>2

(* The chain moves to a block on the way to a usable candidate. *)
LEMMA MovedChain ==
    ASSUME IInv, NEW most \in candidates, Usable(most), NEW b \in Path[most],
           Connected(most, b), UNCHANGED <<haveData, linked, unlinked>>
    PROVE  /\ tip' \in linked /\ scripts' \subseteq haveData
           /\ IndexIsLinked'
           /\ Active' \subseteq scripts'
           /\ Active' \cap (Failed \cup MarkedChild(most)) = {}
<1> USE DEF IInv, ChainInv
<1>1. /\ tip' = b /\ scripts' = scripts \cup ToConnect(most, b)
      /\ most \in Block /\ tip \in Block /\ most \in linked /\ b \in Block
  BY PathType DEF Connected, TypeOK
<1>2. /\ Path[b] \subseteq Path[most]
      /\ ToConnect(most, b) \subseteq Path[b] \ Active
      /\ Path[b] \subseteq Active \cup ToConnect(most, b)
  BY <1>1, OnPath, ToConnectFacts
<1>3. tip' \in linked /\ scripts' \subseteq haveData
  BY <1>1, <1>2, ActiveIsLinked DEF TypeOK, IndexIsLinked
<1>4. Active' \subseteq scripts'
  BY <1>1, <1>2 DEF Active, ActiveChainClean
<1>5. ASSUME NEW x \in scripts' PROVE Path[x] \subseteq scripts'
  <2>1. CASE x \in scripts
    BY <1>1, <2>1 DEF IndexIsLinked
  <2>2. CASE x \in ToConnect(most, b)
    <3>1. Path[x] \subseteq Path[b]
      BY <1>1, <1>2, <2>2, OnPath
    <3> QED BY <1>1, <1>2, <3>1 DEF ActiveChainClean
  <2> QED BY <1>1, <2>1, <2>2
<1>6. IndexIsLinked'
  BY <1>5 DEF IndexIsLinked
<1>7. Path[b] \cap Failed = {}
  BY <1>2 DEF Usable, Branch, ActiveChainClean
<1>8. Path[b] \cap MarkedChild(most) = {}
  BY <1>1, <1>2, DiscardedIsElsewhere
<1> QED BY <1>1, <1>3, <1>4, <1>6, <1>7, <1>8 DEF Active

(* Who the step is run for, and how its loop goes on, has no part in it. *)
LEMMA ActivatingType ==
    ASSUME IInv, NEW p \in Calls, Activating(p),
           calls' \subseteq calls, process' \in {"running", "activating", "dead"},
           linked' = linked, tip' \in linked, scripts' \subseteq haveData,
           failedValid' \subseteq known, failedChild' \subseteq known,
           candidates' \subseteq linked, toReconsider' \subseteq rejected',
           rejected' \subseteq Disputable
    PROVE  TypeOK' /\ IsFiniteSet(haveData')
BY DEF IInv, ChainInv, TypeOK, Activating

(* also when its loop goes on or returns. *)
LEMMA LoopType ==
    ASSUME TypeOK, NEW p, NEW t, NEW most, GoesOn(p, t, most) \/ Returns(p)
    PROVE  calls' \subseteq calls /\ process' \in {"running", "activating", "dead"}
BY DEF GoesOn, Returns, TypeOK

(* FindMostWorkChain marks and erases nothing of the active chain. *)
LEMMA ActivateDoneInv ==
    ASSUME IInv, NEW p \in Calls, ActivateDone(p)
    PROVE  IInv'
<1> USE DEF IInv, ChainInv
<1>1. PICK most \in {NoBlock, tip} :
         /\ failedChild' = failedChild \cup MarkedChild(most)
         /\ candidates' = candidates \ Erased(most)
  BY DEF ActivateDone
<1>2. /\ Activating(p) /\ Returns(p)
      /\ UNCHANGED <<failedValid, scripts, tip, rejected, toReconsider>>
      /\ UNCHANGED <<known, haveData, linked, seqId, unlinked>>
  BY DEF ActivateDone, Activating
<1>3. tip \in Block /\ Usable(tip)
  BY DEF TypeOK, Usable, Branch, Active
<1>4. Active \cap MarkedChild(most) = {}
  BY <1>3, DiscardedIsElsewhere
<1>5. MarkedChild(most) \subseteq known
  BY DiscardedFacts
<1>6. ActiveChainClean'
  BY <1>1, <1>2, <1>4 DEF ActiveChainClean, Active, Failed
<1>7. IndexIsLinked' /\ CandidatesNotWorse'
  BY <1>1, <1>2 DEF IndexIsLinked, CandidatesNotWorse, Worse, WorseBy
<1>8. TypeOK' /\ IsFiniteSet(haveData')
  <2>1. /\ failedValid' \subseteq known /\ failedChild' \subseteq known
        /\ tip' \in linked /\ scripts' \subseteq haveData /\ candidates' \subseteq linked
        /\ rejected' \subseteq Disputable /\ toReconsider' \subseteq rejected'
    BY <1>1, <1>2, <1>5 DEF TypeOK
  <2> QED BY <1>2, <2>1, LoopType, ActivatingType
<1> QED BY <1>6, <1>7, <1>8

(* The block ActivateBestChain moves to is a usable candidate. *)
LEMMA MostWorkIsCandidate ==
    ASSUME TypeOK, NEW most \in {MostWork} \ {NoBlock, tip}
    PROVE  most \in candidates /\ Usable(most) /\ most # tip /\ most \in Block
BY MostWorkFacts DEF TypeOK

(* The comparison with the tip after a step that leaves the order alone. *)
LEMMA OrderUnchanged ==
    ASSUME UNCHANGED seqId, \A c \in candidates' : ~Worse(c, tip')
    PROVE  CandidatesNotWorse'
BY DEF CandidatesNotWorse, Worse, WorseBy

(* A step that connects blocks leaves a clean chain and no worse           *)
(* candidate.                                                              *)
LEMMA ActivateConnectsInv ==
    ASSUME IInv, NEW p \in Calls, ActivateConnects(p)
    PROVE  IInv'
<1> USE DEF IInv, ChainInv
<1>0. PICK most \in {MostWork} \ {NoBlock, tip} : \E stop \in {StopAt(p, most)} :
         /\ failedChild' = failedChild \cup MarkedChild(most)
         /\ Connected(most, stop)
         /\ candidates' = PrunedBelow(candidates \ Erased(most), most, stop)
         /\ GoesOn(p, stop, most)
  BY DEF ActivateConnects
<1>1. PICK stop \in {StopAt(p, most)} :
         /\ failedChild' = failedChild \cup MarkedChild(most)
         /\ Connected(most, stop)
         /\ candidates' = PrunedBelow(candidates \ Erased(most), most, stop)
         /\ GoesOn(p, stop, most)
  BY <1>0
<1>2. /\ Activating(p) /\ UNCHANGED <<failedValid, rejected, toReconsider>>
      /\ UNCHANGED <<known, haveData, linked, seqId, unlinked>>
  BY DEF ActivateConnects, Activating
<1>3. most \in candidates /\ Usable(most) /\ most # tip /\ most \in Block
  BY MostWorkIsCandidate
<1>4. stop \in Path[most]
  BY <1>3, StopFacts DEF ToConnect
<1>5. /\ tip' \in linked /\ scripts' \subseteq haveData
      /\ IndexIsLinked' /\ Active' \subseteq scripts'
      /\ Active' \cap (Failed \cup MarkedChild(most)) = {}
  BY <1>1, <1>2, <1>3, <1>4, MovedChain
<1>6. ActiveChainClean'
  BY <1>1, <1>2, <1>5 DEF ActiveChainClean, Failed
<1>7. \A c \in candidates' : c \in candidates /\ ~Worse(c, tip')
  BY <1>1, <1>3, <1>4, PrunedFacts DEF Connected
<1>8. CandidatesNotWorse'
  BY <1>2, <1>7, OrderUnchanged
<1>9. TypeOK' /\ IsFiniteSet(haveData')
  <2>1. MarkedChild(most) \subseteq known
    BY DiscardedFacts
  <2>2. /\ failedValid' \subseteq known /\ failedChild' \subseteq known
        /\ candidates' \subseteq linked
        /\ rejected' \subseteq Disputable /\ toReconsider' \subseteq rejected'
    BY <1>1, <1>2, <1>7, <2>1 DEF TypeOK
  <2> QED BY <1>1, <1>2, <1>5, <2>2, LoopType, ActivatingType
<1> QED BY <1>5, <1>6, <1>8, <1>9

(* A failed step ends on the parent of the block that failed: on its way   *)
(* up, or at the fork.                                                     *)
LEMMA ActivateFailsInv ==
    ASSUME IInv, NEW p \in Calls, ActivateFails(p)
    PROVE  IInv'
<1> USE DEF IInv, ChainInv
<1>0. PICK most \in {MostWork} \ {NoBlock, tip} : \E bad \in {StopAt(p, most)} :
         /\ failedChild' = failedChild \cup MarkedChild(most)
         /\ failedValid' = failedValid \cup {bad}
         /\ IF Disputes(p, bad, most) THEN Reject(bad)
               ELSE UNCHANGED <<rejected, toReconsider>>
         /\ Connected(most, Parent[bad])
         /\ candidates' =
               PrunedBelow(candidates \ Erased(most), most, Parent[bad]) \ {bad}
         /\ GoesOn(p, Parent[bad], most)
  BY DEF ActivateFails
<1>1. PICK bad \in {StopAt(p, most)} :
         /\ failedChild' = failedChild \cup MarkedChild(most)
         /\ failedValid' = failedValid \cup {bad}
         /\ IF Disputes(p, bad, most) THEN Reject(bad)
               ELSE UNCHANGED <<rejected, toReconsider>>
         /\ Connected(most, Parent[bad])
         /\ candidates' =
               PrunedBelow(candidates \ Erased(most), most, Parent[bad]) \ {bad}
         /\ GoesOn(p, Parent[bad], most)
  BY <1>0
<1>2. /\ Activating(p)
      /\ UNCHANGED <<known, haveData, linked, seqId, unlinked>>
  BY DEF ActivateFails, Activating
<1>3. most \in candidates /\ Usable(most) /\ most # tip /\ most \in Block
  BY MostWorkIsCandidate
<1>4. bad \in ToConnect(most, most) /\ tip \in Block
  BY <1>3, StopFacts DEF TypeOK
<1>5. bad \in Path[most] /\ bad \in Block /\ bad \notin Active
  <2>1. most \in Path[most]
    BY <1>3, PathFacts
  <2>2. bad \in Path[most] \ Active
    BY <1>3, <1>4, <2>1, ToConnectFacts
  <2> QED BY <1>3, <2>2, PathType
<1>6. bad # Genesis
  BY <1>4, <1>5, PathFacts DEF Active
<1>7. Parent[bad] \in Path[most] /\ bad \notin Path[Parent[bad]]
  BY <1>3, <1>5, <1>6, ParentPath, OnPath
<1>8. /\ tip' \in linked /\ scripts' \subseteq haveData
      /\ IndexIsLinked' /\ Active' \subseteq scripts'
      /\ Active' \cap (Failed \cup MarkedChild(most)) = {}
  BY <1>1, <1>2, <1>3, <1>7, MovedChain
<1>9. ActiveChainClean'
  <2>1. bad \notin Active'
    BY <1>1, <1>7 DEF Active, Connected
  <2> QED BY <1>1, <1>8, <2>1 DEF ActiveChainClean, Failed
<1>10. \A c \in candidates' : c \in candidates /\ ~Worse(c, tip')
  BY <1>1, <1>3, <1>7, PrunedFacts DEF Connected
<1>11. CandidatesNotWorse'
  BY <1>2, <1>10, OrderUnchanged
<1>12. TypeOK' /\ IsFiniteSet(haveData')
  <2>1. MarkedChild(most) \subseteq known
    BY DiscardedFacts
  <2>2. bad \in known
    BY <1>3, <1>5 DEF TypeOK, IndexIsLinked
  <2>3. rejected' \subseteq Disputable /\ toReconsider' \subseteq rejected'
    BY <1>1 DEF TypeOK, Disputes, Reject
  <2>4. /\ failedValid' \subseteq known /\ failedChild' \subseteq known
        /\ candidates' \subseteq linked
    BY <1>1, <1>10, <2>1, <2>2 DEF TypeOK
  <2> QED BY <1>1, <1>2, <1>8, <2>3, <2>4, LoopType, ActivatingType
<1> QED BY <1>8, <1>9, <1>11, <1>12

-----------------------------------------------------------------------------
(* The operator and ReprocessBlocks. *)

(* InvalidateBlock moves the tip below the failed block and brings back    *)
(* only candidates no worse.                                               *)
LEMMA InvalidateBlockInv ==
    ASSUME IInv, NEW b \in Block, InvalidateBlock(b)
    PROVE  IInv'
<1> USE DEF IInv, ChainInv
<1> DEFINE wasActive == {x \in Active : b \in Path[x]}
           newTip    == IF b \in Active THEN Parent[b] ELSE tip
<1>1. /\ b \in known /\ b # Genesis
      /\ failedValid' = failedValid \cup {b}
      /\ failedChild' = failedChild \cup wasActive
      /\ tip' = newTip
      /\ candidates' = (candidates \ ({b} \cup wasActive))
                          \cup Reinstated(Failed \cup {b} \cup wasActive, newTip)
      /\ process' = process /\ calls' = calls \cup {NoBlock}
      /\ UNCHANGED <<known, haveData, scripts, linked, seqId, nBlockSequenceId,
                     unlinked, outside>>
  BY DEF InvalidateBlock, CallsActivate
<1>2. tip \in Block /\ tip \in linked
  BY DEF TypeOK
<1>3. /\ newTip \in Path[tip]
      /\ Path[newTip] \cap ({b} \cup wasActive) = {}
  <2>1. CASE b \in Active
    <3>1. /\ newTip = Parent[b] /\ Parent[b] \in Path[b] /\ b \in Path[b]
          /\ Path[Parent[b]] = Path[b] \ {b}
          /\ Height[Parent[b]] < Height[b] /\ Parent[b] \in Block
      BY <1>1, <2>1, ParentPath
    <3>2. newTip \in Path[tip]
      BY <1>2, <2>1, <3>1, OnPath DEF Active
    <3>3. ASSUME NEW x \in Path[Parent[b]], b \in Path[x] PROVE FALSE
      <4>1. x \in Block /\ Height[x] <= Height[Parent[b]] /\ Height[x] \in Nat
        BY <3>1, OnPath
      <4>2. Height[b] <= Height[x] /\ Height[b] \in Nat /\ Height[Parent[b]] \in Nat
        BY <3>1, <3>3, <4>1, OnPath
      <4> QED BY <3>1, <4>1, <4>2
    <3> QED BY <3>1, <3>2, <3>3
  <2>2. CASE b \notin Active
    <3>1. wasActive = {}
      BY <1>2, <2>2, OnPath DEF Active
    <3> QED BY <1>2, <2>2, <3>1, PathFacts DEF Active
  <2> QED BY <2>1, <2>2
<1>4. newTip \in linked /\ Path[newTip] \subseteq Active
  BY <1>2, <1>3, ActiveIsLinked, OnPath DEF Active
<1>5. ActiveChainClean'
  <2>1. Active' = Path[newTip] /\ Failed' = Failed \cup {b} \cup wasActive
    BY <1>1 DEF Active, Failed
  <2> QED BY <1>1, <1>3, <1>4, <2>1 DEF ActiveChainClean
<1>6. \A c \in candidates' : c \in linked /\ ~Worse(c, newTip)
  <2>1. ASSUME NEW c \in candidates PROVE ~Worse(c, newTip)
    <3>1. c \in Block /\ ~Worse(c, tip)
      BY DEF TypeOK, CandidatesNotWorse
    <3> QED BY <1>2, <1>3, <3>1, NotWorseBelow
  <2>2. \A c \in Reinstated(Failed \cup {b} \cup wasActive, newTip) :
           c \in linked /\ ~Worse(c, newTip)
    BY DEF Reinstated
  <2>3. candidates \subseteq linked
    BY DEF TypeOK
  <2> HIDE DEF newTip, wasActive
  <2> QED BY <1>1, <2>1, <2>2, <2>3
<1>7. CandidatesNotWorse'
  BY <1>1, <1>6, OrderUnchanged
<1>8. IndexIsLinked' /\ IsFiniteSet(haveData')
  BY <1>1 DEF IndexIsLinked
<1>9. TypeOK'
  <2>1. wasActive \subseteq known
    BY DEF ActiveChainClean, TypeOK
  <2> HIDE DEF newTip, wasActive
  <2> QED BY <1>1, <1>4, <1>6, <2>1 DEF TypeOK, Calls, outside
<1> QED BY <1>5, <1>7, <1>8, <1>9

(* The reconsiderblock RPC keeps the invariant. *)
LEMMA ReconsiderBlockInv ==
    ASSUME IInv, NEW b \in Block, ReconsiderBlock(b)
    PROVE  IInv'
<1>1. /\ Reconsider(b) /\ calls' = calls \cup {NoBlock}
      /\ UNCHANGED <<known, haveData, scripts, linked, seqId, nBlockSequenceId,
                     unlinked, tip, outside, process>>
  BY DEF ReconsiderBlock, CallsActivate
<1>2. /\ ChainInv' /\ candidates' \subseteq linked
      /\ failedValid' \subseteq known /\ failedChild' \subseteq known
  BY <1>1, ReconsiderKeepsInv
<1>3. TypeOK'
  BY <1>1, <1>2 DEF IInv, TypeOK, Calls, outside
<1> QED BY <1>2, <1>3 DEF IInv

(* Disputes and ageing rejections do not touch the index. *)
LEMMA DisputeInv ==
    ASSUME IInv, NEW b \in Block, Dispute(b) \/ RejectionAges(b) \/ ReprocessBegin
    PROVE  IInv'
<1>1. ChainInv'
  BY ChainUnchanged DEF IInv, Dispute, RejectionAges, ReprocessBegin
<1>2. CASE Dispute(b)
  BY <1>1, <1>2 DEF IInv, TypeOK, Dispute, indexVars
<1>3. CASE RejectionAges(b)
  BY <1>1, <1>3 DEF IInv, TypeOK, RejectionAges, indexVars
<1>4. CASE ReprocessBegin
  BY <1>1, <1>4 DEF IInv, TypeOK, ReprocessBegin, indexVars
<1> QED BY <1>2, <1>3, <1>4

(* ReprocessBlocks reconsiders as the RPC does. *)
LEMMA ReprocessReconsidersInv ==
    ASSUME IInv, NEW b \in Block, ReprocessReconsiders(b)
    PROVE  IInv'
<1>1. /\ toReconsider' = toReconsider \ {b}
      /\ UNCHANGED <<known, haveData, scripts, linked, seqId, nBlockSequenceId,
                     unlinked, tip, calls, disputed, rejected, aged, checked,
                     reprocessing, process>>
  BY DEF ReprocessReconsiders
<1>2. CASE b \in known
  <2>1. Reconsider(b)
    BY <1>2 DEF ReprocessReconsiders
  <2>2. /\ ChainInv' /\ candidates' \subseteq linked
        /\ failedValid' \subseteq known /\ failedChild' \subseteq known
    BY <1>1, <2>1, ReconsiderKeepsInv
  <2>3. TypeOK'
    BY <1>1, <2>2 DEF IInv, TypeOK
  <2> QED BY <2>2, <2>3 DEF IInv
<1>3. CASE b \notin known
  <2>1. UNCHANGED <<indexVars, candidates, tip>>
    BY <1>1, <1>3 DEF ReprocessReconsiders, indexVars
  <2>2. ChainInv'
    BY <2>1, ChainUnchanged DEF IInv
  <2>3. TypeOK'
    BY <1>1, <2>1 DEF IInv, TypeOK, indexVars
  <2> QED BY <2>2, <2>3 DEF IInv
<1> QED BY <1>2, <1>3

(* DisconnectBlocksAndReprocess takes the tip down its own chain. *)
LEMMA ReprocessDisconnectsInv ==
    ASSUME IInv, ReprocessDisconnects
    PROVE  IInv'
<1> USE DEF IInv, ChainInv
<1> DEFINE h == IF Height[tip] > ReprocessDepth
                  THEN Height[tip] - ReprocessDepth - 1 ELSE 0
<1>1. /\ tip' = CHOOSE b \in Active : Height[b] = h
      /\ reprocessing' = FALSE
      /\ process' = process /\ calls' = calls \cup {NoBlock}
      /\ UNCHANGED <<indexVars, candidates, disputed, rejected, aged, checked,
                     toReconsider>>
  BY DEF ReprocessDisconnects, CallsActivate
<1>2. tip \in Block /\ tip \in linked
  BY DEF TypeOK
<1>3. tip' \in Active
  <2>1. Height[tip] \in Nat /\ ReprocessDepth \in Nat
    BY <1>2, TreeAssumption, ConstantAssumption
  <2>2. h \in 0 .. Height[tip]
    BY <2>1
  <2>3. \E b \in Active : Height[b] = h
    <3> HIDE DEF h
    <3> QED BY <1>2, <2>2, PathFacts DEF Active
  <2> HIDE DEF h
  <2> QED BY <1>1, <2>3
<1>4. tip' \in linked /\ Path[tip'] \subseteq Active
  BY <1>2, <1>3, ActiveIsLinked, OnPath DEF Active
<1>5. ActiveChainClean'
  BY <1>1, <1>4 DEF ActiveChainClean, Active, Failed, indexVars
<1>6. CandidatesNotWorse'
  <2>1. ASSUME NEW c \in candidates PROVE ~Worse(c, tip')
    <3>1. c \in Block /\ ~Worse(c, tip)
      BY DEF TypeOK, CandidatesNotWorse
    <3>2. tip' \in Path[tip]
      BY <1>3 DEF Active
    <3> QED BY <1>2, <3>1, <3>2, NotWorseBelow
  <2> QED BY <1>1, <2>1, OrderUnchanged DEF indexVars
<1>7. IndexIsLinked' /\ IsFiniteSet(haveData')
  BY <1>1 DEF IndexIsLinked, indexVars
<1>8. TypeOK'
  <2> HIDE DEF h
  <2> QED BY <1>1, <1>4 DEF TypeOK, Calls, indexVars
<1> QED BY <1>5, <1>6, <1>7, <1>8

-----------------------------------------------------------------------------
(* Every step keeps the inductive invariant. *)
LEMMA NextInv == IInv /\ [Next]_vars => IInv'
<1> SUFFICES ASSUME IInv, [Next]_vars PROVE IInv'
  OBVIOUS
<1>1. ASSUME NEW b \in Block \ {Genesis}, Receive(b) PROVE IInv'
  BY <1>1, CheckBlockInv, AcceptRefusedInv, AcceptReconsidersInv, AcceptDuplicateInv,
     AcceptInvalidInv, AcceptNoSpaceInv, AcceptStoredInv DEF Receive
<1>2. ASSUME NEW p \in Calls, Activate(p) PROVE IInv'
  BY <1>2, ActivateDoneInv, ActivateConnectsInv, ActivateFailsInv DEF Activate
<1>3. ASSUME NEW b \in Block, InvalidateBlock(b) PROVE IInv'
  BY <1>3, InvalidateBlockInv
<1>4. ASSUME NEW b \in Block, Dispute(b) \/ RejectionAges(b) PROVE IInv'
  BY <1>4, DisputeInv
<1>5. ASSUME NEW b \in Block, ReconsiderBlock(b) PROVE IInv'
  BY <1>5, ReconsiderBlockInv
<1>6. CASE Reprocess
  <2>1. CASE ReprocessBegin
    BY <2>1, DisputeInv, TreeAssumption
  <2>2. ASSUME NEW b \in Block, ReprocessReconsiders(b) PROVE IInv'
    BY <2>2, ReprocessReconsidersInv
  <2>3. CASE ReprocessDisconnects
    BY <2>3, ReprocessDisconnectsInv
  <2> QED BY <1>6, <2>1, <2>2, <2>3 DEF Reprocess
<1>7. CASE UNCHANGED vars
  <2>1. ChainInv'
    BY <1>7, ChainUnchanged DEF IInv, vars
  <2>2. TypeOK'
    BY <1>7 DEF IInv, TypeOK, vars, indexVars, outside
  <2> QED BY <2>1, <2>2 DEF IInv
<1> QED
  BY <1>1, <1>2, <1>3, <1>4, <1>5, <1>6, <1>7
  DEF Next, ReconsiderNext, NetworkNext

(* The inductive invariant holds in every reachable state. *)
LEMMA Invariance == Spec => []IInv
BY InitInv, NextInv, PTL DEF Spec

(* Every variable keeps its type, in every tree, with any number of        *)
(* threads, operator commands and transaction locks.                       *)
THEOREM TypeCorrect == Spec => []TypeOK
BY Invariance, PTL DEF IInv

(* AcceptBlock leaves exactly the blocks with a missing ancestor unlinked, *)
(* in any order of arrival.                                                *)
THEOREM IndexCorrect == Spec => []IndexIsLinked
BY Invariance, PTL DEF IInv, ChainInv

(* No step leaves a block in setBlockIndexCandidates that sorts worse than *)
(* the tip, also when the tip moves down.                                  *)
THEOREM CandidatesCorrect == Spec => []CandidatesNotWorse
BY Invariance, PTL DEF IInv, ChainInv

(* FindMostWorkChain may trust the active chain: none of its blocks is     *)
(* ever failed or unchecked between two critical sections.                 *)
THEOREM ActiveChainCorrect == Spec => []ActiveChainClean
BY Invariance, PTL DEF IInv, ChainInv

(* PruneBlockIndexCandidates leaves the new tip or a block above it, so    *)
(* that its assertion holds: the only steps that move the tip up connect   *)
(* blocks towards MostWork, which no pruning and no discarding removes.    *)
LEMMA PruneStep ==
    ASSUME IInv, [Next]_vars, Work[tip'] > Work[tip]
    PROVE  \E c \in candidates' : tip' \in Path[c]
<1> USE DEF IInv, ChainInv
<1>0. tip \in Block /\ Work[tip] \in Nat
  BY TreeAssumption DEF TypeOK
<1>1. ASSUME NEW p \in Calls, ActivateConnects(p)
      PROVE  \E c \in candidates' : tip' \in Path[c]
  <2>1. PICK most \in {MostWork} \ {NoBlock, tip} : \E stop \in {StopAt(p, most)} :
           /\ Connected(most, stop)
           /\ candidates' = PrunedBelow(candidates \ Erased(most), most, stop)
    BY <1>1 DEF ActivateConnects
  <2>2. PICK stop \in {StopAt(p, most)} :
           /\ Connected(most, stop)
           /\ candidates' = PrunedBelow(candidates \ Erased(most), most, stop)
    BY <2>1
  <2>3. most \in candidates /\ Usable(most) /\ most # tip /\ most \in Block
    BY MostWorkIsCandidate
  <2>4. stop \in Path[most] /\ most \in Path[most]
    BY <2>3, StopFacts, PathFacts DEF ToConnect
  <2>5. most \notin Erased(most)
    BY <2>3, <2>4, DiscardedIsElsewhere
  <2>6. ~Worse(most, stop)
    <3>1. ~Worse(most, most)
      BY <2>3, TreeAssumption DEF Worse, WorseBy, TypeOK
    <3> QED BY <2>3, <2>4, <3>1, NotWorseBelow
  <2>7. most \in candidates'
    BY <2>2, <2>3, <2>5, <2>6 DEF PrunedBelow
  <2> QED BY <2>2, <2>4, <2>7 DEF Connected
<1>2. ASSUME NEW p \in Calls, ActivateFails(p) PROVE FALSE
  <2>1. PICK most \in {MostWork} \ {NoBlock, tip} : \E bad \in {StopAt(p, most)} :
           Connected(most, Parent[bad])
    BY <1>2 DEF ActivateFails
  <2>2. PICK bad \in {StopAt(p, most)} : Connected(most, Parent[bad])
    BY <2>1
  <2>3. most \in candidates /\ Usable(most) /\ most # tip /\ most \in Block
    BY MostWorkIsCandidate
  <2>4. /\ bad \in ToConnect(most, most)
        /\ \A c \in ToConnect(most, bad) \ {bad} : Work[c] <= Work[tip]
    BY <2>3, StopFacts
  <2>5. bad \in Path[most] \ Active /\ bad \in Block
    BY <1>0, <2>3, <2>4, ToConnectFacts, PathFacts, PathType
  <2>6. bad # Genesis
    BY <1>0, <2>5, PathFacts DEF Active
  <2>7. Parent[bad] \in Path[bad] /\ Parent[bad] # bad
    BY <2>5, <2>6, ParentPath
  <2>8. Parent[bad] \in Active \cup ToConnect(most, bad)
    BY <1>0, <2>3, <2>5, <2>7, ToConnectFacts
  <2>9. Work[Parent[bad]] <= Work[tip]
    BY <1>0, <2>4, <2>7, <2>8, OnPath DEF Active
  <2>10. Work[Parent[bad]] \in Nat
    BY <2>5, TreeAssumption
  <2> QED BY <1>0, <2>2, <2>9, <2>10 DEF Connected
<1>3. ASSUME tip' \in Active PROVE FALSE
  BY <1>0, <1>3, OnPath DEF Active
<1>4. ASSUME NEW b \in Block, InvalidateBlock(b) PROVE tip' \in Active
  <2>1. b \in Active => Parent[b] \in Active
    BY <1>0, <1>4, ParentPath, OnPath DEF InvalidateBlock, Active
  <2> QED BY <1>0, <1>4, <2>1, PathFacts DEF InvalidateBlock, Active
<1>5. ASSUME ReprocessDisconnects PROVE tip' \in Active
  <2> DEFINE h == IF Height[tip] > ReprocessDepth
                    THEN Height[tip] - ReprocessDepth - 1 ELSE 0
  <2>1. Height[tip] \in Nat /\ ReprocessDepth \in Nat
    BY <1>0, TreeAssumption, ConstantAssumption
  <2>2. h \in 0 .. Height[tip]
    BY <2>1
  <2>3. tip' = CHOOSE b \in Active : Height[b] = h
    BY <1>5 DEF ReprocessDisconnects
  <2> HIDE DEF h
  <2>4. \E b \in Active : Height[b] = h
    BY <1>0, <2>2, PathFacts DEF Active
  <2> QED BY <2>3, <2>4
<1>6. ASSUME tip' = tip PROVE FALSE
  BY <1>0, <1>6
<1>7. ASSUME NEW b \in Block, Receive(b) PROVE tip' = tip
  BY <1>7 DEF Receive, CheckBlock, AcceptRefused, AcceptReconsiders, AcceptDuplicate,
     AcceptInvalid, AcceptNoSpace, AcceptStored, Accepting
<1>8. ASSUME NEW p \in Calls, ActivateDone(p) PROVE tip' = tip
  BY <1>8 DEF ActivateDone
<1>9. ASSUME NEW b \in Block,
             \/ Dispute(b) \/ RejectionAges(b) \/ ReconsiderBlock(b)
             \/ ReprocessBegin \/ ReprocessReconsiders(b) \/ UNCHANGED vars
      PROVE  tip' = tip
  BY <1>9 DEF Dispute, RejectionAges, ReconsiderBlock, ReprocessBegin,
     ReprocessReconsiders, vars
<1> QED
  BY <1>0, <1>1, <1>2, <1>3, <1>4, <1>5, <1>6, <1>7, <1>8, <1>9
  DEF Next, ReconsiderNext, NetworkNext, Reprocess, Activate

(* Whenever the tip gains work, PruneBlockIndexCandidates leaves a         *)
(* candidate on top of it.                                                 *)
THEOREM PruneCorrect == Spec => PruneLeavesSuccessor
<1>1. IInv /\ [Next]_vars
        => [Work[tip'] > Work[tip] => \E c \in candidates' : tip' \in Path[c]]_vars
  BY PruneStep
<1> QED BY <1>1, Invariance, PTL DEF Spec, PruneLeavesSuccessor

-----------------------------------------------------------------------------
(* What ActivateBestChain comes to.  A step that fails half way leaves the *)
(* tip lower than it was, with good blocks between the two tips out of     *)
(* setBlockIndexCandidates: the set holds what is no worse than a floor    *)
(* somewhere above the tip, which the steps that follow reach again.       *)

(* Nothing good from the floor up is missing from the set, and the chain   *)
(* of the floor connects.                                                  *)
Floor(m) ==
    /\ m \in linked
    /\ Path[m] \cap (Failed \cup BadScripts) = {}
    /\ ~Worse(m, tip)
    /\ \A b \in linked \ Failed : ~Worse(b, m) => b \in candidates

FloorInv ==
    /\ scripts \cap BadScripts = {}
    /\ Checkpoints \cap Failed \subseteq linked
    /\ BestChainActive
    /\ \E m \in Block : Floor(m) /\ (Quiet => m = tip)

(* No transaction lock and no vote turns against a block that was checked. *)
Undisputed == Disputable = {}

(* A checkpoint is a valid block on a valid chain, and the operator does   *)
(* not invalidate it himself.                                              *)
CheckpointsValid ==
    /\ Checkpoints \cap Operable = {}
    /\ \A c \in Checkpoints : Path[c] \cap (BadScripts \cup NonFinal) = {}

(* CBlockIndexWorkComparator is a strict total order. *)
LEMMA WorseOrder ==
    ASSUME NEW seq \in [Block -> Nat], NEW a \in Block, NEW b \in Block, NEW c \in Block
    PROVE  /\ ~WorseBy(seq, a, a)
           /\ ~WorseBy(seq, a, b) /\ ~WorseBy(seq, b, a) => a = b
           /\ WorseBy(seq, a, b) => ~WorseBy(seq, b, a)
           /\ ~WorseBy(seq, a, b) /\ ~WorseBy(seq, b, c) => ~WorseBy(seq, a, c)
<1>1. \A x \in {a, b, c} : Work[x] \in Nat /\ seq[x] \in Nat /\ Address[x] \in Nat
  BY TreeAssumption
<1>2. Address[a] = Address[b] => a = b
  BY AddressAssumption
<1> QED BY <1>1, <1>2 DEF WorseBy

(* The same for the order of the moment. *)
LEMMA WorseIsOrder ==
    ASSUME TypeOK
    PROVE  /\ \A a \in Block : ~Worse(a, a)
           /\ \A a, b \in Block : ~Worse(a, b) /\ ~Worse(b, a) => a = b
           /\ \A a, b \in Block : Worse(a, b) => ~Worse(b, a)
           /\ \A a, b, c \in Block : ~Worse(a, b) /\ ~Worse(b, c) => ~Worse(a, c)
<1>1. seqId \in [Block -> Nat]
  BY DEF TypeOK
<1> QED BY <1>1, WorseOrder DEF Worse

(* The floor is a candidate FindMostWorkChain may take, so it takes one    *)
(* that is no worse than any.                                              *)
LEMMA MostWorkIsBest ==
    ASSUME TypeOK, NEW m \in Block, Floor(m)
    PROVE  /\ m \in candidates /\ Usable(m)
           /\ MostWork # NoBlock /\ MostWork \in candidates /\ Usable(MostWork)
           /\ \A c \in candidates : Usable(c) => ~Worse(MostWork, c)
<1> DEFINE S == {c \in candidates : Usable(c)}
<1>1. m \in Path[m]
  BY PathFacts
<1>2. m \in candidates
  BY <1>1, WorseIsOrder DEF Floor
<1>3. Usable(m)
  BY DEF Floor, Usable, Branch
<1>4. S \subseteq Block /\ S # {} /\ seqId \in [Block -> Nat] /\ NoBlock \notin Block
  BY <1>2, <1>3, TreeAssumption DEF TypeOK
<1>5. BestOf(S) \in S /\ \A d \in S : ~Worse(BestOf(S), d)
  <2> HIDE DEF S
  <2> QED BY <1>4, BestExists
<1>6. MostWork = BestOf(S)
  BY <1>4 DEF MostWork
<1> HIDE DEF S
<1>7. MostWork \in S /\ MostWork # NoBlock /\ \A d \in S : ~Worse(MostWork, d)
  BY <1>4, <1>5, <1>6
<1> QED BY <1>2, <1>3, <1>7 DEF S

(* A floor, seen from one state and stated of the next. *)
LEMMA FloorAfter ==
    ASSUME NEW m \in Block, seqId' = seqId, linked' = linked, m \in linked,
           Path[m] \cap (Failed' \cup BadScripts) = {}, ~Worse(m, tip'),
           \A b \in linked \ Failed' : ~Worse(b, m) => b \in candidates'
    PROVE  Floor(m)'
BY DEF Floor, Worse, WorseBy

(* The tip may always be one: its chain is clean and was connected. *)
LEMMA TipAfter ==
    ASSUME TypeOK, IInv', seqId' = seqId, linked' = linked, scripts' \cap BadScripts = {},
           \A b \in linked \ Failed' : ~Worse(b, tip') => b \in candidates'
    PROVE  \E t \in Block : t = tip' /\ Floor(t)'
<1>1. tip' \in Block /\ tip' \in linked
  BY DEF IInv, TypeOK
<1>2. Path[tip'] \cap (Failed' \cup BadScripts) = {}
  BY DEF IInv, ChainInv, ActiveChainClean, Active
<1>3. ~Worse(tip', tip')
  BY <1>1, WorseIsOrder
<1>4. PICK t \in Block : t = tip'
  BY <1>1
<1>5. Floor(t)'
  BY <1>1, <1>2, <1>3, <1>4, FloorAfter
<1> QED BY <1>4, <1>5

-----------------------------------------------------------------------------
(* A step that leaves the index, the set and the tip alone. *)
LEMMA FloorUnchanged ==
    ASSUME FloorInv, Quiet' => Quiet,
           UNCHANGED <<linked, failedValid, failedChild, seqId, candidates, tip, scripts>>
    PROVE  FloorInv'
<1>1. Failed' = Failed
  BY DEF Failed
<1>2. PICK m \in Block : Floor(m) /\ (Quiet => m = tip)
  BY DEF FloorInv
<1>3. Floor(m)' /\ (Quiet' => m = tip')
  BY <1>1, <1>2, FloorAfter DEF Floor
<1>4. BestChainActive'
  BY <1>1 DEF FloorInv, BestChainActive, Better, Worse, WorseBy
<1> QED BY <1>1, <1>3, <1>4 DEF FloorInv

(* The genesis state. *)
LEMMA FloorInit == Init => FloorInv
<1> SUFFICES ASSUME Init PROVE FloorInv
  OBVIOUS
<1>1. IInv /\ tip = Genesis /\ Genesis \in Block /\ linked = {Genesis}
  BY InitInv, TreeAssumption DEF Init
<1>2. Path[Genesis] = {Genesis} /\ Genesis \notin BadScripts
  BY TreeAssumption, ConstantAssumption
<1>3. ~Worse(Genesis, Genesis)
  BY <1>1, WorseIsOrder DEF IInv
<1>4. Floor(Genesis)
  BY <1>1, <1>2, <1>3 DEF Init, Floor, Failed
<1>5. BestChainActive
  BY <1>1, <1>3 DEF BestChainActive, Better
<1> QED BY <1>1, <1>2, <1>4, <1>5 DEF FloorInv, Init, Failed

(* Receiving a block. *)
LEMMA CheckBlockFloor ==
    ASSUME FloorInv, NEW b \in Block, CheckBlock(b)
    PROVE  FloorInv'
<1>1. UNCHANGED <<indexVars, candidates, tip, calls, process>>
  BY DEF CheckBlock
<1> QED BY <1>1, FloorUnchanged DEF indexVars, Quiet

(* AcceptBlock: the block is refused by its header or by its contents. *)
LEMMA AcceptRefusedFloor ==
    ASSUME FloorInv, NEW b \in Block, AcceptRefused(b)
    PROVE  FloorInv'
<1>1. UNCHANGED <<indexVars, candidates, tip, calls, process>>
  BY DEF AcceptRefused, Accepting
<1> QED BY <1>1, FloorUnchanged DEF indexVars, Quiet

(* AcceptBlock: the block is there already. *)
LEMMA AcceptDuplicateFloor ==
    ASSUME FloorInv, NEW b \in Block, AcceptDuplicate(b)
    PROVE  FloorInv'
<1>1. UNCHANGED <<indexVars, candidates, tip>> /\ calls' # {}
  BY DEF AcceptDuplicate, Accepting
<1> QED BY <1>1, FloorUnchanged DEF indexVars, Quiet

(* AcceptBlock: the header is kept, the block could not be written. *)
LEMMA AcceptNoSpaceFloor ==
    ASSUME FloorInv, NEW b \in Block, AcceptNoSpace(b)
    PROVE  FloorInv'
<1>1. UNCHANGED <<linked, failedValid, failedChild, seqId, candidates, tip, scripts,
                  calls, process>>
  BY DEF AcceptNoSpace, Accepting
<1> QED BY <1>1, FloorUnchanged DEF Quiet

(* A header that fails has no block above it that is linked. *)
LEMMA AcceptInvalidFloor ==
    ASSUME CheckpointsValid, IInv, FloorInv, NEW b \in Block, AcceptInvalid(b)
    PROVE  FloorInv'
<1>1. /\ b \notin haveData /\ b \in NonFinal
      /\ failedValid' = failedValid \cup {b}
      /\ UNCHANGED <<failedChild, linked, seqId, candidates, tip, scripts, calls, process>>
  BY DEF AcceptInvalid, Accepting
<1>2. Failed' = Failed \cup {b}
  BY <1>1 DEF Failed
<1>3. b \notin Checkpoints
  BY <1>1, PathFacts, ConstantAssumption DEF CheckpointsValid
<1>4. \A x \in linked : b \notin Path[x]
  BY <1>1 DEF IInv, ChainInv, IndexIsLinked
<1>5. PICK m \in Block : Floor(m) /\ (Quiet => m = tip)
  BY DEF FloorInv
<1>6. Floor(m)'
  BY <1>1, <1>2, <1>4, <1>5, FloorAfter DEF Floor
<1>7. BestChainActive'
  BY <1>1, <1>2, <1>4 DEF FloorInv, BestChainActive, Better, Worse, WorseBy, Quiet
<1> QED BY <1>1, <1>2, <1>3, <1>5, <1>6, <1>7 DEF FloorInv, Quiet

(* Blocks that become linked are candidates unless worse than the tip.     *)
LEMMA AcceptStoredFloor ==
    ASSUME IInv, IInv', FloorInv, NEW b \in Block \ {Genesis}, AcceptStored(b)
    PROVE  FloorInv'
<1> USE DEF IInv, ChainInv
<1>1. /\ b \notin haveData /\ calls' # {}
      /\ UNCHANGED <<failedValid, failedChild, scripts, tip, process>>
  BY DEF AcceptStored, Accepting
<1>2. Failed' = Failed /\ ~Quiet'
  BY <1>1 DEF Failed, Quiet
<1>3. PICK m \in Block : Floor(m)
  BY DEF FloorInv
<1>4. CASE Parent[b] \in linked
  <2> DEFINE N == NowLinked(b)
  <2>1. /\ linked' = linked \cup N
        /\ candidates' = candidates \cup {x \in N : ~WorseBy(seqId', x, tip)}
        /\ \E f \in Numberings(N, nBlockSequenceId) :
              seqId' = [x \in Block |-> IF x \in N THEN f[x] ELSE seqId[x]]
    BY <1>4 DEF AcceptStored
  <2>2. N \cap linked = {}
    BY <1>1, <1>4, NowLinkedFacts DEF IndexIsLinked
  <2> HIDE DEF N
  <2>3. tip \in Block /\ tip \in linked /\ linked \subseteq Block
    BY DEF TypeOK
  <2>4. \A x \in linked : seqId'[x] = seqId[x]
    BY <2>1, <2>2, <2>3
  <2>5. \A x, y \in linked : WorseBy(seqId', x, y) <=> Worse(x, y)
    BY <2>4 DEF Worse, WorseBy
  <2>6. m \in linked /\ ~WorseBy(seqId', m, tip)
    BY <1>3, <2>3, <2>5 DEF Floor
  <2>7. ASSUME NEW x \in linked' \ Failed, ~WorseBy(seqId', x, m)
        PROVE  x \in candidates'
    <3>1. CASE x \in linked
      BY <1>3, <2>1, <2>5, <2>6, <2>7, <3>1 DEF Floor
    <3>2. CASE x \in N
      <4>1. seqId' \in [Block -> Nat] /\ x \in Block
        BY DEF TypeOK
      <4>2. ~WorseBy(seqId', x, tip)
        BY <2>3, <2>6, <2>7, <4>1, WorseOrder
      <4> QED BY <2>1, <3>2, <4>2
    <3> QED BY <2>1, <3>1, <3>2
  <2>8. Floor(m)'
    BY <1>1, <1>2, <1>3, <2>1, <2>6, <2>7 DEF Floor, Worse
  <2> QED BY <1>1, <1>2, <2>1, <2>8 DEF FloorInv, BestChainActive
<1>5. CASE Parent[b] \notin linked
  <2>1. UNCHANGED <<linked, seqId, candidates>>
    BY <1>5 DEF AcceptStored
  <2> QED BY <1>1, <1>2, <2>1, FloorUnchanged
<1> QED BY <1>4, <1>5

(* The checkpoint that is reconsidered is linked and becomes a candidate   *)
(* itself; if it is better than the floor, it is the new floor.            *)
LEMMA AcceptReconsidersFloor ==
    ASSUME CheckpointsValid, IInv, FloorInv,
           NEW b \in Block \ {Genesis}, AcceptReconsiders(b)
    PROVE  FloorInv'
<1> DEFINE c == Parent[b]
<1>1. /\ c \in Block /\ c \in Failed \cap Checkpoints
      /\ failedValid' = failedValid \ Cleared(c) /\ failedChild' = failedChild \ Cleared(c)
      /\ candidates' = candidates \cup Readmitted(c)
      /\ calls' # {}
      /\ UNCHANGED <<linked, seqId, scripts, tip>>
  BY TreeAssumption DEF AcceptReconsiders, Accepting, ParentIsGood, Reconsider
<1>2. c \in linked /\ Path[c] \cap BadScripts = {}
  BY <1>1 DEF FloorInv, CheckpointsValid
<1>3. tip \in Block /\ linked \subseteq Block /\ tip \notin Failed
  <2>1. tip \in Block /\ linked \subseteq Block
    BY DEF IInv, TypeOK
  <2>2. tip \in Path[tip]
    BY <2>1, PathFacts
  <2> QED BY <2>1, <2>2 DEF IInv, ChainInv, ActiveChainClean, Active
<1> HIDE DEF c
<1>4. Failed' = Failed \ Cleared(c) /\ Path[c] \cap Failed' = {}
  BY <1>1 DEF Failed, Cleared
<1>5. PICK m \in Block : Floor(m)
  BY DEF FloorInv
<1>6. /\ m \in linked /\ Path[m] \cap (Failed \cup BadScripts) = {} /\ ~Worse(m, tip)
      /\ \A x \in linked \ Failed : ~Worse(x, m) => x \in candidates
  BY <1>5 DEF Floor
(* What is good again is above the checkpoint, and a candidate, or below it. *)
<1>7. ASSUME NEW x \in linked \ Failed', ~Worse(x, m)
      PROVE  x \in candidates' \/ Worse(x, c)
  <2>1. CASE x \notin Failed
    BY <1>1, <1>6, <1>7, <2>1
  <2>2. CASE x \in Failed /\ c \in Path[x]
    <3>1. ~Worse(x, tip)
      BY <1>3, <1>6, <1>7, WorseIsOrder DEF IInv
    <3>2. Worse(tip, x)
      BY <1>3, <2>2, <3>1, WorseIsOrder DEF IInv
    <3> QED BY <1>1, <2>2, <3>2 DEF Readmitted
  <2>3. CASE x \in Failed /\ c \notin Path[x]
    <3>1. x \in Path[c]
      BY <1>4, <2>3 DEF Cleared
    <3>2. c \in Path[c]
      BY <1>1, PathFacts
    <3> QED BY <1>1, <2>3, <3>1, <3>2, OnPath DEF Worse, WorseBy
  <2> QED BY <2>1, <2>2, <2>3
<1>8. \E n \in Block : Floor(n)'
  <2>1. CASE Worse(c, m)
    <3>1. ASSUME NEW x \in linked \ Failed', ~Worse(x, m) PROVE x \in candidates'
      <4>1. ~Worse(x, c)
        <5>1. ~Worse(m, c)
          BY <1>1, <1>3, <2>1, WorseIsOrder DEF IInv
        <5> QED BY <1>1, <1>3, <3>1, <5>1, WorseIsOrder DEF IInv
      <4> QED BY <1>7, <3>1, <4>1
    <3>2. Path[m] \cap (Failed' \cup BadScripts) = {}
      BY <1>4, <1>6
    <3> QED BY <1>1, <1>6, <3>1, <3>2, FloorAfter
  <2>2. CASE ~Worse(c, m)
    <3>1. ~Worse(c, tip)
      BY <1>1, <1>3, <1>6, <2>2, WorseIsOrder DEF IInv
    <3>2. ASSUME NEW x \in linked \ Failed', ~Worse(x, c) PROVE x \in candidates'
      <4>1. ~Worse(x, m)
        BY <1>1, <1>3, <2>2, <3>2, WorseIsOrder DEF IInv
      <4> QED BY <1>7, <3>2, <4>1
    <3>3. Path[c] \cap (Failed' \cup BadScripts) = {}
      BY <1>2, <1>4
    <3> QED BY <1>1, <1>2, <3>1, <3>2, <3>3, FloorAfter
  <2> QED BY <2>1, <2>2
<1>9. ~Quiet'
  BY <1>1 DEF Quiet
<1>10. (scripts \cap BadScripts = {})' /\ (Checkpoints \cap Failed \subseteq linked)'
  BY <1>1, <1>4 DEF FloorInv
<1> QED BY <1>8, <1>9, <1>10 DEF FloorInv, BestChainActive

-----------------------------------------------------------------------------
(* FindMostWorkChain flags and erases only linked blocks that are failed.  *)
LEMMA DiscardedIsFailed ==
    ASSUME TypeOK, IndexIsLinked, NEW most
    PROVE  MarkedChild(most) \subseteq linked /\ Erased(most) \subseteq Failed \cup MarkedChild(most)
<1>1. ASSUME NEW c \in Discarded(most)
      PROVE  /\ \A x \in Path[c] : x \in linked
             /\ FirstFailed(c) \in Failed
  <2>1. c \in linked /\ c \in Block /\ ~Usable(c)
    BY DEF Discarded, TypeOK
  <2> QED BY <2>1, ActiveIsLinked, FirstFailedFacts
<1>2. MarkedChild(most) \subseteq linked
  BY <1>1 DEF MarkedChild
<1>3. Erased(most) \subseteq Failed \cup MarkedChild(most)
  BY <1>1 DEF Erased
<1> QED BY <1>2, <1>3

(* Nothing left to do: the floor is reached, and the tip is the best.      *)
LEMMA ActivateDoneFloor ==
    ASSUME IInv, FloorInv, NEW p \in Calls, ActivateDone(p)
    PROVE  FloorInv'
<1> USE DEF IInv, ChainInv
<1>1. PICK m \in Block : Floor(m)
  BY DEF FloorInv
<1>2. PICK most \in {MostWork} \cap {NoBlock, tip} :
         /\ failedChild' = failedChild \cup MarkedChild(most)
         /\ candidates' = candidates \ Erased(most)
  BY DEF ActivateDone
<1>3. UNCHANGED <<failedValid, scripts, tip, linked, seqId>>
  BY DEF ActivateDone, Activating
<1>4. /\ m \in candidates /\ Usable(m)
      /\ most = tip /\ most \in candidates /\ most \in Block
      /\ \A c \in candidates : Usable(c) => ~Worse(tip, c)
  BY <1>1, <1>2, MostWorkIsBest DEF TypeOK
<1>5. m = tip
  BY <1>1, <1>4, WorseIsOrder DEF Floor
<1>6. Failed' = Failed \cup MarkedChild(most)
  BY <1>2, <1>3 DEF Failed
<1>7. Path[m] \cap MarkedChild(most) = {}
  BY <1>4, DiscardedIsElsewhere
<1>8. Floor(m)'
  <2>1. \A b \in linked \ Failed' : ~Worse(b, m) => b \in candidates'
    BY <1>1, <1>2, <1>6, DiscardedIsFailed DEF Floor
  <2> QED BY <1>1, <1>3, <1>6, <1>7, <2>1, FloorAfter DEF Floor
<1>9. BestChainActive'
  <2>1. ASSUME NEW b \in linked, Path[b] \cap Failed' = {} PROVE ~Worse(tip, b)
    <3>1. b \in Block /\ b \notin Failed /\ Usable(b)
      BY <1>6, <2>1, PathFacts DEF TypeOK, Usable, Branch
    <3>2. Worse(tip, b) => b \in candidates
      BY <1>1, <1>4, <1>5, <3>1, WorseIsOrder DEF Floor
    <3> QED BY <1>4, <3>1, <3>2
  <2> QED BY <1>3, <2>1 DEF BestChainActive, Better, Worse, WorseBy
<1>10. Checkpoints \cap Failed' \subseteq linked
  BY <1>6, DiscardedIsFailed DEF FloorInv
<1> QED BY <1>3, <1>5, <1>8, <1>9, <1>10 DEF FloorInv

(* When the tip moves, the higher of it and the old floor is a floor, if   *)
(* only failed blocks and blocks worse than the tip left the set.          *)
LEMMA MovedFloor ==
    ASSUME IInv, IInv', NEW m \in Block, Floor(m),
           seqId' = seqId, linked' = linked, scripts' \cap BadScripts = {},
           Failed \subseteq Failed', Path[m] \cap Failed' = {},
           \A b \in linked \ Failed' :
               b \in candidates /\ ~Worse(b, tip') => b \in candidates'
    PROVE  \E t \in Block : Floor(t)' /\ (~Worse(tip', m) => t = tip')
<1>1. tip' \in Block /\ linked \subseteq Block /\ TypeOK
  BY DEF IInv, TypeOK
<1>2. /\ m \in linked /\ Path[m] \cap BadScripts = {}
      /\ \A b \in linked \ Failed : ~Worse(b, m) => b \in candidates
  BY DEF Floor
<1>3. CASE Worse(tip', m)
  <2>1. ~Worse(m, tip')
    BY <1>1, <1>3, WorseIsOrder
  <2>2. \A b \in linked \ Failed' : ~Worse(b, m) => b \in candidates'
    BY <1>1, <1>2, <2>1, WorseIsOrder
  <2>3. Floor(m)'
    BY <1>2, <2>1, <2>2, FloorAfter
  <2> QED BY <1>3, <2>3
<1>4. CASE ~Worse(tip', m)
  <2>1. \A b \in linked \ Failed' : ~Worse(b, tip') => b \in candidates'
    BY <1>1, <1>2, <1>4, WorseIsOrder
  <2> QED BY <1>1, <2>1, TipAfter
<1> QED BY <1>3, <1>4

(* Blocks are connected, up to one better than the tip was. *)
LEMMA ActivateConnectsFloor ==
    ASSUME IInv, IInv', FloorInv, NEW p \in Calls, ActivateConnects(p)
    PROVE  FloorInv'
<1>1. PICK m \in Block : Floor(m)
  BY DEF FloorInv
<1>2. TypeOK /\ IndexIsLinked /\ CandidatesNotWorse
  BY DEF IInv, ChainInv
<1>3. PICK most \in {MostWork} \ {NoBlock, tip} : \E stop \in {StopAt(p, most)} :
         /\ ~ConnectFails(p, stop, most)
         /\ failedChild' = failedChild \cup MarkedChild(most)
         /\ Connected(most, stop)
         /\ candidates' = PrunedBelow(candidates \ Erased(most), most, stop)
         /\ GoesOn(p, stop, most)
  BY DEF ActivateConnects
<1>4. PICK stop \in {StopAt(p, most)} :
         /\ ~ConnectFails(p, stop, most)
         /\ failedChild' = failedChild \cup MarkedChild(most)
         /\ Connected(most, stop)
         /\ candidates' = PrunedBelow(candidates \ Erased(most), most, stop)
         /\ GoesOn(p, stop, most)
  BY <1>3
<1>5. /\ p \in calls /\ UNCHANGED <<failedValid, linked, seqId>>
      /\ tip' = stop /\ scripts' = scripts \cup ToConnect(most, stop)
  BY <1>4 DEF ActivateConnects, Activating, Connected
<1>6. /\ m \in candidates /\ Usable(m)
      /\ most \in candidates /\ Usable(most) /\ most # tip /\ most \in Block
      /\ \A c \in candidates : Usable(c) => ~Worse(most, c)
  BY <1>1, <1>2, MostWorkIsBest, MostWorkIsCandidate
<1>7. Failed' = Failed \cup MarkedChild(most)
  BY <1>4, <1>5 DEF Failed
<1>8. scripts' \cap BadScripts = {}
  <2>1. \A c \in ToConnect(most, stop) : ~ConnectFails(p, c, most)
    BY <1>2, <1>4, <1>6, StopFacts
  <2> QED BY <1>5, <2>1 DEF ConnectFails, FloorInv
<1>9. PICK t \in Block : Floor(t)' /\ (~Worse(tip', m) => t = tip')
  <2>1. Path[m] \cap Failed' = {}
    BY <1>1, <1>2, <1>6, <1>7, DiscardedIsElsewhere DEF Floor
  <2>2. \A b \in linked \ Failed' :
           b \in candidates /\ ~Worse(b, tip') => b \in candidates'
    BY <1>2, <1>4, <1>5, <1>7, DiscardedIsFailed DEF PrunedBelow
  <2> QED BY <1>1, <1>5, <1>7, <1>8, <2>1, <2>2, MovedFloor
(* The call returns at most, which no chain it might take beats. *)
<1>10. ASSUME Quiet' PROVE stop = most
  BY <1>4, <1>5, <1>10 DEF GoesOn, Returns, Quiet
<1>11. Quiet' => t = tip'
  BY <1>5, <1>6, <1>9, <1>10
<1>12. BestChainActive'
  <2>1. ASSUME Quiet', NEW b \in linked, Path[b] \cap Failed' = {} PROVE ~Worse(most, b)
    <3>1. b \in Block /\ b \notin Failed /\ Usable(b)
      BY <1>2, <1>7, <2>1, PathFacts DEF TypeOK, Usable, Branch
    <3>2. Worse(most, b) => ~Worse(b, m)
      BY <1>2, <1>6, <3>1, WorseIsOrder
    <3>3. Worse(most, b) => b \in candidates
      BY <1>1, <3>1, <3>2 DEF Floor
    <3> QED BY <1>6, <3>1, <3>3
  <2> QED BY <1>5, <1>10, <2>1 DEF BestChainActive, Better, Worse, WorseBy
<1>13. Checkpoints \cap Failed' \subseteq linked
  BY <1>2, <1>7, DiscardedIsFailed DEF FloorInv
<1> QED BY <1>5, <1>8, <1>9, <1>11, <1>12, <1>13 DEF FloorInv

(* A step that fails leaves the floor: only bad scripts fail, and its      *)
(* chain has none.                                                         *)
LEMMA ActivateFailsFloor ==
    ASSUME Undisputed, IInv, IInv', FloorInv, NEW p \in Calls, ActivateFails(p)
    PROVE  FloorInv'
<1>1. PICK m \in Block : Floor(m)
  BY DEF FloorInv
<1>2. TypeOK /\ IndexIsLinked /\ CandidatesNotWorse
  BY DEF IInv, ChainInv
<1>3. PICK most \in {MostWork} \ {NoBlock, tip} : \E bad \in {StopAt(p, most)} :
         /\ ConnectFails(p, bad, most)
         /\ failedChild' = failedChild \cup MarkedChild(most)
         /\ failedValid' = failedValid \cup {bad}
         /\ Connected(most, Parent[bad])
         /\ candidates' =
               PrunedBelow(candidates \ Erased(most), most, Parent[bad]) \ {bad}
         /\ GoesOn(p, Parent[bad], most)
  BY DEF ActivateFails
<1>4. PICK bad \in {StopAt(p, most)} :
         /\ ConnectFails(p, bad, most)
         /\ failedChild' = failedChild \cup MarkedChild(most)
         /\ failedValid' = failedValid \cup {bad}
         /\ Connected(most, Parent[bad])
         /\ candidates' =
               PrunedBelow(candidates \ Erased(most), most, Parent[bad]) \ {bad}
         /\ GoesOn(p, Parent[bad], most)
  BY <1>3
<1>5. /\ p \in calls /\ UNCHANGED <<linked, seqId>>
      /\ tip' = Parent[bad] /\ scripts' = scripts \cup ToConnect(most, Parent[bad])
  BY <1>4 DEF ActivateFails, Activating, Connected
<1>6. /\ m \in candidates /\ Usable(m)
      /\ most \in candidates /\ Usable(most) /\ most # tip /\ most \in Block /\ most \in linked
  BY <1>1, <1>2, MostWorkIsBest, MostWorkIsCandidate DEF TypeOK
<1>7. bad \in BadScripts
  BY <1>2, <1>4 DEF ConnectFails, Disputes, Undisputed, TypeOK
<1>8. /\ bad \in Path[most] /\ bad \in Block /\ bad \in linked /\ bad # Genesis
      /\ \A c \in ToConnect(most, bad) \ {bad} : ~ConnectFails(p, c, most)
  <2>1. bad \in ToConnect(most, most) /\ bad \in Path[most]
    BY <1>2, <1>6, StopFacts DEF ToConnect
  <2>2. bad # Genesis
    BY <1>7, ConstantAssumption
  <2> QED BY <1>2, <1>6, <2>1, <2>2, StopFacts, ActiveIsLinked, PathType
<1>9. Failed' = Failed \cup MarkedChild(most) \cup {bad}
  BY <1>4 DEF Failed
<1>10. /\ Parent[bad] \in Path[bad] /\ Parent[bad] \in Path[most]
       /\ Height[Parent[bad]] < Height[bad] /\ Height[bad] <= Height[most]
       /\ Height[Parent[bad]] \in Nat /\ Height[bad] \in Nat /\ Height[most] \in Nat
  <2>1. /\ Parent[bad] \in Path[bad] /\ Parent[bad] \in Block
        /\ Height[Parent[bad]] < Height[bad]
    BY <1>8, ParentPath
  <2>2. Path[bad] \subseteq Path[most] /\ Height[bad] <= Height[most]
    BY <1>6, <1>8, OnPath
  <2> QED BY <1>6, <1>8, <2>1, <2>2, TreeAssumption
<1>11. scripts' \cap BadScripts = {}
  <2>1. ASSUME NEW c \in ToConnect(most, Parent[bad]) PROVE c \in ToConnect(most, bad) \ {bad}
    <3>1. c \in Path[most] /\ Height[c] > Height[Fork(most)] /\ Height[c] <= Height[Parent[bad]]
      BY DEF ToConnect
    <3>2. Height[c] \in Nat
      BY <1>6, <3>1, OnPath
    <3> QED BY <1>10, <3>1, <3>2 DEF ToConnect
  <2> QED BY <1>5, <1>8, <2>1 DEF ConnectFails, FloorInv
<1>12. \E t \in Block : Floor(t)'
  <2>1. Path[m] \cap Failed' = {}
    BY <1>1, <1>2, <1>6, <1>7, <1>9, DiscardedIsElsewhere DEF Floor
  <2>2. \A b \in linked \ Failed' :
           b \in candidates /\ ~Worse(b, tip') => b \in candidates'
    BY <1>2, <1>4, <1>5, <1>9, DiscardedIsFailed DEF PrunedBelow
  <2> QED BY <1>1, <1>5, <1>9, <1>11, <2>1, <2>2, MovedFloor
<1>13. ~Quiet'
  BY <1>4, <1>5, <1>10 DEF GoesOn, Returns, Quiet
<1>14. Checkpoints \cap Failed' \subseteq linked
  BY <1>2, <1>8, <1>9, DiscardedIsFailed DEF FloorInv
<1> QED BY <1>5, <1>11, <1>12, <1>13, <1>14 DEF FloorInv, BestChainActive

(* InvalidateBlock brings every block back that is no worse than the tip   *)
(* it leaves.                                                              *)
LEMMA InvalidateBlockFloor ==
    ASSUME CheckpointsValid, IInv, IInv', FloorInv, NEW b \in Block, InvalidateBlock(b)
    PROVE  FloorInv'
<1> DEFINE wasActive == {x \in Active : b \in Path[x]}
           newTip    == IF b \in Active THEN Parent[b] ELSE tip
<1>1. /\ b \in Operable /\ tip' = newTip
      /\ failedValid' = failedValid \cup {b} /\ failedChild' = failedChild \cup wasActive
      /\ candidates' = (candidates \ ({b} \cup wasActive))
                          \cup Reinstated(Failed \cup {b} \cup wasActive, newTip)
      /\ calls' # {} /\ UNCHANGED <<scripts, linked, seqId>>
  BY DEF InvalidateBlock, CallsActivate
<1>2. TypeOK /\ wasActive \subseteq linked
  BY ActiveIsLinked DEF IInv, ChainInv, TypeOK, Active
<1> HIDE DEF newTip, wasActive
<1>3. Failed' = Failed \cup {b} \cup wasActive
  BY <1>1 DEF Failed
<1>4. \A x \in linked \ Failed' : ~Worse(x, tip') => x \in candidates'
  BY <1>1, <1>3 DEF Reinstated
<1>5. scripts' \cap BadScripts = {}
  BY <1>1 DEF FloorInv
<1>6. \E t \in Block : t = tip' /\ Floor(t)'
  BY <1>1, <1>2, <1>4, <1>5, TipAfter
<1>7. Checkpoints \cap Failed' \subseteq linked
  BY <1>1, <1>2, <1>3 DEF FloorInv, CheckpointsValid
<1>8. ~Quiet'
  BY <1>1 DEF Quiet
<1> QED BY <1>1, <1>5, <1>6, <1>7, <1>8 DEF FloorInv, BestChainActive

-----------------------------------------------------------------------------
(* Every step of the network and of invalidateblock keeps a floor. *)
LEMMA FloorNext ==
    ASSUME Undisputed, CheckpointsValid
    PROVE  IInv /\ FloorInv /\ IInv' /\ [NetworkNext]_vars => FloorInv'
<1> SUFFICES ASSUME IInv, FloorInv, IInv', [NetworkNext]_vars PROVE FloorInv'
  OBVIOUS
<1>1. ASSUME NEW b \in Block \ {Genesis}, Receive(b) PROVE FloorInv'
  BY <1>1, CheckBlockFloor, AcceptRefusedFloor, AcceptReconsidersFloor, AcceptDuplicateFloor,
     AcceptInvalidFloor, AcceptNoSpaceFloor, AcceptStoredFloor DEF Receive
<1>2. ASSUME NEW p \in Calls, Activate(p) PROVE FloorInv'
  BY <1>2, ActivateDoneFloor, ActivateConnectsFloor, ActivateFailsFloor DEF Activate
<1>3. ASSUME NEW b \in Block, InvalidateBlock(b) PROVE FloorInv'
  BY <1>3, InvalidateBlockFloor
<1>4. CASE (\E b \in Block : Dispute(b) \/ RejectionAges(b)) \/ UNCHANGED vars
  <2>1. UNCHANGED <<indexVars, candidates, tip, calls, process>>
    BY <1>4 DEF Dispute, RejectionAges, vars
  <2> QED BY <2>1, FloorUnchanged DEF indexVars, Quiet
<1> QED BY <1>1, <1>2, <1>3, <1>4 DEF NetworkNext

(* The floor is kept, with the invariant of the index, by every step. *)
LEMMA FloorInvariance ==
    ASSUME Undisputed, CheckpointsValid PROVE NetworkSpec => [](IInv /\ FloorInv)
<1>1. Init => IInv /\ FloorInv
  BY InitInv, FloorInit
<1>2. IInv /\ FloorInv /\ [NetworkNext]_vars => (IInv /\ FloorInv)'
  <2>1. [NetworkNext]_vars => [Next]_vars
    BY DEF Next, ReconsiderNext
  <2> QED BY <2>1, NextInv, FloorNext
<1> QED BY <1>1, <1>2, PTL DEF NetworkSpec

(* BestChainActive: where no transaction lock disputes a block and the     *)
(* checkpoints are on valid chains, every interleaving of arrivals, of     *)
(* threads in ActivateBestChain and of invalidateblock ends, once all      *)
(* calls have returned, on a chain that none without a failed block beats. *)
THEOREM BestChainCorrect ==
    ASSUME Undisputed, CheckpointsValid PROVE NetworkSpec => []BestChainActive
<1>1. FloorInv => BestChainActive
  BY DEF FloorInv
<1> QED BY <1>1, FloorInvariance, PTL

(* GoodBlocksAreCandidates: and with every good block that is no worse     *)
(* than its tip in setBlockIndexCandidates.                                *)
THEOREM GoodBlocksCorrect ==
    ASSUME Undisputed, CheckpointsValid PROVE NetworkSpec => []GoodBlocksAreCandidates
<1>1. IInv /\ FloorInv => GoodBlocksAreCandidates
  <2> SUFFICES ASSUME IInv, FloorInv, Quiet,
                      NEW b \in linked, Path[b] \cap Failed = {}, ~Worse(b, tip)
               PROVE  b \in candidates
    BY DEF GoodBlocksAreCandidates
  <2>1. b \in Path[b]
    BY PathFacts DEF IInv, TypeOK
  <2>2. Floor(tip)
    BY DEF FloorInv
  <2> QED BY <2>1, <2>2 DEF Floor
<1> QED BY <1>1, FloorInvariance, PTL

=============================================================================
