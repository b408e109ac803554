------------------------- MODULE MasternodesProofs -------------------------
(* Proofs about Masternodes and MasternodeSync: for any nodes, connections, *)
(* times and numbers of broadcasts, and for any limits of the stages of the *)
(* synchronisation.                                                         *)
EXTENDS Masternodes, MasternodeSync, SequenceTheorems, TLAPS

-----------------------------------------------------------------------------
(* The synchronisation. *)

Request == {"SPORKS"} \cup Item
Stage == Request \cup {"INITIAL", "FINISHED", "FAILED"}
Age == Nat \cup {Never}

SyncTypeOK ==
    /\ asset \in Stage
    /\ {attempt, started, syncCount, toCome, nResets} \subseteq Nat
    /\ last \in [Item -> Age]
    /\ failed \in Age
    /\ vNodes \in Seq(SUBSET Request)
    /\ Len(vNodes) <= MaxPeers
    /\ {fBlockchainSynced, at600, enforced, enabled} \subseteq BOOLEAN
    /\ owed \subseteq {"chain", "items"}

(* The stages that are behind have left what the node that finishes owes.   *)
StagesBehind ==
    /\ "items" \in owed => enforced
    /\ asset \in {"MNW", "BUDGET", "FINISHED"} =>
         /\ "chain" \in owed => fBlockchainSynced
         /\ "items" \in owed => last["LIST"] # Never
    /\ asset \in {"BUDGET", "FINISHED"} /\ "items" \in owed => last["MNW"] # Never

SyncInv == SyncTypeOK /\ StagesBehind


(* The stages of RequestedMasternodeAssets. *)
LEMMA StageLemma == Stage = {"SPORKS", "LIST", "MNW", "BUDGET", "INITIAL", "FINISHED", "FAILED"}
  BY DEF Stage, Request, Item

(* Growing older keeps a time a time, and something that happened one that  *)
(* did (the comparisons with GetTime in Process).                           *)
LEMMA GrownLemma ==
  ASSUME NEW age \in Age, NEW limit \in Nat
  PROVE  /\ Grown(age, limit) \in Age
         /\ age # Never => Grown(age, limit) # Never
  BY TimeAssumption DEF Grown, Age

(* One step of time: every age is still one, and what came has come. *)
LEMMA GrownAges ==
  ASSUME SyncTypeOK
  PROVE  /\ GrownItems \in [Item -> Age]
         /\ \A i \in Item : last[i] # Never => GrownItems[i] # Never
         /\ GrownStart \in Nat
         /\ GrownFailure \in Age
  <1>1. ASSUME NEW i \in Item
        PROVE  GrownItems[i] \in Age /\ (last[i] # Never => GrownItems[i] # Never)
    <2>1. last[i] \in Age BY DEF SyncTypeOK
    <2>2. QuietTime \in Nat /\ QuietTime + 1 \in Age /\ QuietTime + 1 # Never
      BY TimeAssumption DEF Age
    <2>3. Grown(last[i], QuietTime) \in Age
          /\ (last[i] # Never => Grown(last[i], QuietTime) # Never)
      BY <2>1, <2>2, GrownLemma
    <2>4. GrownItems[i] = IF Past(i) /\ last[i] # Never THEN QuietTime + 1
                          ELSE Grown(last[i], QuietTime)
      BY DEF GrownItems
    <2> QED BY <2>2, <2>3, <2>4
  <1>2. GrownItems \in [Item -> Age] BY <1>1 DEF GrownItems
  <1>3. GrownStart \in Nat
    BY TimeAssumption, GrownLemma DEF GrownStart, SyncTypeOK, Age, Grown
  <1>4. GrownFailure \in Age
    BY TimeAssumption, GrownLemma DEF GrownFailure, SyncTypeOK
  <1> QED BY <1>1, <1>2, <1>3, <1>4

(* Asking a peer changes what it has been asked, not which peers there are  *)
(* (the loop over vNodes in Process).                                       *)
LEMMA AskedLemma ==
  ASSUME NEW nodes \in Seq(SUBSET Request), NEW what \in Request
  PROVE  Asked(nodes, what) \in Seq(SUBSET Request) /\ Len(Asked(nodes, what)) = Len(nodes)
  <1> DEFINE first == CHOOSE i \in Unasked(nodes, what) :
                         \A j \in Unasked(nodes, what) : i <= j
  <1> HIDE DEF first
  <1>1. Asked(nodes, what) = [nodes EXCEPT ![first] = @ \cup {what}]
    BY DEF Asked, first
  <1>2. CASE first \in 1 .. Len(nodes)
    <2>1. nodes[first] \cup {what} \in SUBSET Request BY <1>2
    <2> QED BY <1>1, <1>2, <2>1, ExceptSeq
  <1>3. CASE first \notin 1 .. Len(nodes)
    <2>1. DOMAIN nodes = 1 .. Len(nodes) /\ nodes = [i \in DOMAIN nodes |-> nodes[i]]
      BY SeqDef
    <2>2. Asked(nodes, what) = nodes BY <1>1, <1>3, <2>1
    <2> QED BY <2>2
  <1> QED BY <1>2, <1>3

(* ClearFulfilledRequest forgets what each peer was asked. *)
LEMMA PeersLemma ==
  ASSUME SyncTypeOK
  PROVE  /\ [i \in DOMAIN vNodes |-> {}] \in Seq(SUBSET Request)
         /\ Len([i \in DOMAIN vNodes |-> {}]) = Len(vNodes)
  BY DEF SyncTypeOK

(* A node that starts, before it has looked for peers. *)
LEMMA SyncInitOK == SyncInit => SyncInv
  <1> SUFFICES ASSUME SyncInit PROVE SyncInv OBVIOUS
  <1>1. asset = "INITIAL" /\ vNodes = <<>> BY DEF SyncInit
  <1>2. vNodes \in Seq(SUBSET Request) /\ Len(vNodes) <= MaxPeers
    BY <1>1, TimeAssumption
  <1>3. StagesBehind /\ owed \subseteq {"chain", "items"}
    BY <1>1 DEF StagesBehind, SyncInit, OwedFromStart
  <1>4. {attempt, started, syncCount, toCome, nResets} \subseteq Nat
    BY TimeAssumption DEF SyncInit
  <1>5. last \in [Item -> Age] /\ failed \in Age
    BY DEF SyncInit, NoItems, Age
  <1>6. {fBlockchainSynced, at600, enforced, enabled} \subseteq BOOLEAN
    BY DEF SyncInit
  <1> QED BY <1>1, <1>2, <1>3, <1>4, <1>5, <1>6, StageLemma DEF SyncInv, SyncTypeOK

(* What a step changes of the stages, of the right type. *)
StageTypes ==
    /\ asset' \in Stage /\ attempt' \in Nat /\ started' \in Nat /\ failed' \in Age
    /\ vNodes' \in Seq(SUBSET Request) /\ Len(vNodes') <= MaxPeers

(* Nothing is lost by what came before, nor owed that was not. *)
Keeps ==
    /\ owed' \subseteq owed
    /\ fBlockchainSynced' = fBlockchainSynced /\ enforced' = enforced
    /\ \A i \in Item : last[i] # Never => last'[i] # Never

(* The two ways on: to the next stage, or on with this one. *)
LEMMA StayLemma ==
  ASSUME SyncInv, asset' = asset, Keeps
  PROVE  StagesBehind'
  <1>1. "LIST" \in Item /\ "MNW" \in Item BY DEF Item
  <1> QED BY <1>1 DEF Keeps, SyncInv, StagesBehind

(* GetNextAsset leaves a stage that has had what is owed of it. *)
LEMMA NextAssetLemma ==
  ASSUME SyncInv, asset \in Request, asset' = Following[asset], Keeps,
         asset \in Item /\ "chain" \in owed' => fBlockchainSynced,
         asset \in {"LIST", "MNW"} /\ "items" \in owed => last[asset] # Never
  PROVE  StagesBehind'
  <1>1. StagesBehind BY DEF SyncInv
  <1>2. "LIST" \in Item /\ "MNW" \in Item BY DEF Item
  <1>3. /\ asset = "SPORKS" => asset' = "LIST"
        /\ asset = "LIST" => asset' = "MNW"
        /\ asset = "MNW" => asset' = "BUDGET"
        /\ asset = "BUDGET" => asset' = "FINISHED"
    BY DEF Following
  <1>4. asset \in {"SPORKS", "LIST", "MNW", "BUDGET"} BY DEF Request, Item
  <1>5. CASE asset = "SPORKS" BY <1>1, <1>3, <1>5 DEF StagesBehind, Keeps
  <1>6. CASE asset = "LIST" BY <1>1, <1>2, <1>3, <1>6 DEF StagesBehind, Keeps, Item
  <1>7. CASE asset = "MNW" BY <1>1, <1>2, <1>3, <1>7 DEF StagesBehind, Keeps, Item
  <1>8. CASE asset = "BUDGET" BY <1>1, <1>2, <1>3, <1>8 DEF StagesBehind, Keeps, Item
  <1> QED BY <1>4, <1>5, <1>6, <1>7, <1>8

(* A stage that goes on, or is left, stays one of the seven. *)
LEMMA InStageTypes ==
  ASSUME SyncTypeOK, InStage
  PROVE  StageTypes
  <1> DEFINE Peered == vNodes' \in Seq(SUBSET Request) /\ Len(vNodes') <= MaxPeers
             Staged == asset' \in Stage /\ attempt' \in Nat /\ started' \in Nat /\ failed' \in Age
  <1>n. /\ vNodes \in Seq(SUBSET Request) /\ Len(vNodes) <= MaxPeers
        /\ asset \in Stage /\ attempt \in Nat
    BY DEF SyncTypeOK
  <1>p. MaxPeers \in Nat /\ Attempts \in Nat /\ 0 \in Age BY TimeAssumption DEF Age
  <1>r. asset \in Request BY DEF InStage, Request
  <1>1. ASSUME NEW done \in Nat, GetNextAsset(done) PROVE Staged
    <2>1. Following[asset] \in Stage BY <1>r DEF Following, Request, Item, Stage
    <2> QED BY <1>1, <2>1, GrownAges DEF GetNextAsset
  <1>2. ASSUME Ages, asset' = asset, attempt' = attempt \/ attempt' = attempt + 1 PROVE Staged
    BY <1>2, <1>n, GrownAges DEF Ages
  <1>3. ASSUME vNodes' = vNodes \/ vNodes' = Asked(vNodes, asset) PROVE Peered
    BY <1>3, <1>n, <1>r, AskedLemma
  <1>q. SUFFICES Peered /\ Staged BY DEF StageTypes
  <1> HIDE DEF Peered, Staged
  <1>4. CASE StageEnds BY <1>1, <1>3, <1>4 DEF StageEnds
  <1>5. CASE AskSporks
    <2>1. Peered BY <1>3, <1>5 DEF AskSporks
    <2>2. Staged BY <1>1, <1>2, <1>5 DEF AskSporks
    <2> QED BY <2>1, <2>2
  <1>6. CASE AskItems
    <2>1. Peered BY <1>3, <1>6 DEF AskItems
    <2>2. CASE TimedOut /\ asset # "BUDGET" /\ enforced
      <3>1. asset' = "FAILED" /\ attempt' = 0 /\ started' = GrownStart /\ failed' = 0
        BY <1>6, <2>2 DEF AskItems, GiveUp
      <3>2. Staged BY <3>1, <1>p, GrownAges, StageLemma DEF Staged
      <3> QED BY <2>1, <3>2
    <2>3. CASE TimedOut /\ ~(asset # "BUDGET" /\ enforced)
      <3>1. GetNextAsset(0) BY <1>6, <2>3 DEF AskItems, GiveUp
      <3> QED BY <1>1, <2>1, <3>1
    <2>4. CASE ~TimedOut
      <3>1. asset' = asset /\ Ages /\ (attempt' = attempt \/ attempt' = attempt + 1)
        BY <1>6, <2>4 DEF AskItems
      <3> QED BY <1>2, <2>1, <3>1
    <2> QED BY <2>2, <2>3, <2>4
  <1> QED BY <1>4, <1>5, <1>6 DEF InStage

(* A call of Process in a stage; the masternodes and votes that are owed    *)
(* are there when it goes on from their stages.                             *)
LEMMA InStageOwes ==
  ASSUME SyncInv, InStage, Keeps, asset \in Item /\ "chain" \in owed' => fBlockchainSynced
  PROVE  StagesBehind'
  <1>r. asset \in Request BY DEF InStage, Request
  <1>e. "items" \in owed => enforced BY DEF SyncInv, StagesBehind
  <1>1. CASE StageEnds
    <2>1. asset' = Following[asset] BY <1>1 DEF StageEnds, GetNextAsset
    <2>2. asset \in {"LIST", "MNW"} => last[asset] # Never BY <1>1 DEF StageEnds, Quiet
    <2> QED BY <2>1, <2>2, <1>r, NextAssetLemma
  <1>2. CASE AskSporks
    <2>1. asset = "SPORKS" /\ (asset' = asset \/ asset' = Following[asset])
      BY <1>2 DEF AskSporks, GetNextAsset
    <2> QED BY <2>1, <1>r, StayLemma, NextAssetLemma
  <1>3. CASE AskItems
    <2>1. CASE TimedOut /\ asset # "BUDGET" /\ enforced
      <3>1. asset' = "FAILED" BY <1>3, <2>1 DEF AskItems, GiveUp
      <3> QED BY <3>1, <1>e DEF StagesBehind, Keeps
    <2>2. CASE TimedOut /\ ~(asset # "BUDGET" /\ enforced)
      <3>1. asset' = Following[asset] BY <1>3, <2>2 DEF AskItems, GiveUp, GetNextAsset
      <3>2. ~(asset \in {"LIST", "MNW"} /\ "items" \in owed) BY <2>2, <1>e
      <3> QED BY <3>1, <3>2, <1>r, NextAssetLemma
    <2>3. CASE ~TimedOut
      <3>1. asset' = asset BY <1>3, <2>3 DEF AskItems
      <3> QED BY <3>1, StayLemma
    <2> QED BY <2>1, <2>2, <2>3
  <1> QED BY <1>1, <1>2, <1>3 DEF InStage

(* Begin starts with what is owed anew, or still. *)
LEMMA BeginKeepsSyncInv ==
  ASSUME SyncInv, Begin
  PROVE  SyncInv'
  <1>t. SyncTypeOK /\ StagesBehind BY DEF SyncInv
  <1>1. asset' = "SPORKS" /\ started' = 0 /\ attempt' \in {0, 1} /\ worldVars' = worldVars
    BY DEF Begin
  <1>2. last' \in [Item -> Age] /\ failed' \in Age /\ syncCount' \in Nat
    BY <1>t, GrownAges DEF Begin, Age, NoItems, SyncTypeOK
  <1>3. owed' \subseteq {"chain", "items"} /\ ("items" \in owed' => enforced)
    BY <1>t DEF Begin, OwedFromStart, SyncTypeOK, StagesBehind
  <1>4. StagesBehind' BY <1>1, <1>3 DEF StagesBehind, worldVars
  <1>5. PICK nodes \in {[i \in DOMAIN vNodes |-> {}], vNodes} :
          vNodes' = nodes \/ vNodes' = Asked(nodes, "SPORKS")
    BY DEF Begin
  <1>6. nodes \in Seq(SUBSET Request) /\ Len(nodes) = Len(vNodes)
    BY <1>5, <1>t, PeersLemma DEF SyncTypeOK
  <1>7. "SPORKS" \in Request BY DEF Request
  <1>8. vNodes' \in Seq(SUBSET Request) /\ Len(vNodes') <= MaxPeers
    BY <1>5, <1>6, <1>7, <1>t, AskedLemma DEF SyncTypeOK
  <1> QED BY <1>1, <1>2, <1>3, <1>4, <1>8, <1>t, StageLemma DEF SyncInv, SyncTypeOK, worldVars

(* One call of Process keeps the invariant, whatever it finds. *)
LEMMA ProcessKeepsSyncInv == SyncInv /\ Process => SyncInv'
  <1> SUFFICES ASSUME SyncInv, Process PROVE SyncInv' OBVIOUS
  <1>t. SyncTypeOK /\ owed \subseteq {"chain", "items"} BY DEF SyncInv, SyncTypeOK
  <1>1. CASE Begin BY <1>1, BeginKeepsSyncInv
  <1>2. CASE /\ InStage /\ last' = GrownItems
             /\ owed' = IF asset = "SPORKS" \/ fBlockchainSynced THEN owed ELSE owed \ {"chain"}
             /\ UNCHANGED <<worldVars, syncCount>>
    <2>1. Keeps BY <1>2, <1>t, GrownAges DEF Keeps, worldVars
    <2>2. asset \in Item /\ "chain" \in owed' => fBlockchainSynced BY <1>2 DEF Item
    <2>3. StageTypes /\ StagesBehind' BY <1>2, <1>t, <2>1, <2>2, InStageTypes, InStageOwes
    <2>4. last' \in [Item -> Age] /\ owed' \subseteq {"chain", "items"}
      BY <1>2, <1>t, GrownAges
    <2> QED BY <1>2, <1>t, <2>3, <2>4 DEF StageTypes, SyncInv, SyncTypeOK, worldVars
  <1>3. CASE Waits /\ last' = GrownItems /\ UNCHANGED <<worldVars, syncCount, owed>>
    <2>1. Stay /\ vNodes' = vNodes BY <1>3 DEF Waits
    <2>2. Keeps BY <1>3, <1>t, GrownAges DEF Keeps, worldVars
    <2>3. StagesBehind' BY <2>1, <2>2, StayLemma DEF Stay
    <2> QED BY <1>3, <1>t, <2>1, <2>3, GrownAges DEF Stay, Ages, SyncInv, SyncTypeOK, worldVars
  <1> QED BY <1>1, <1>2, <1>3 DEF Process

(* A peer less. *)
LEMMA RemoveLemma ==
  ASSUME NEW S, NEW s \in Seq(S), NEW i \in 1 .. Len(s)
  PROVE  RemoveAt(s, i) \in Seq(S) /\ Len(RemoveAt(s, i)) = Len(s) - 1
  <1> DEFINE a == SubSeq(s, 1, i - 1)
             b == SubSeq(s, i + 1, Len(s))
  <1>0. Len(s) \in Nat /\ i - 1 \in Int /\ i + 1 \in Int BY LenProperties
  <1>1. a \in Seq(S) /\ Len(a) = i - 1
    <2>1. \A j \in 1 .. i - 1 : s[j] \in S BY <1>0, ElementOfSeq
    <2>2. a \in Seq(S) /\ Len(a) = IF 1 <= i - 1 THEN i - 1 - 1 + 1 ELSE 0
      BY <1>0, <2>1, SubSeqProperties
    <2> QED BY <1>0, <2>2
  <1>2. b \in Seq(S) /\ Len(b) = Len(s) - i
    <2>1. ASSUME NEW j \in i + 1 .. Len(s) PROVE s[j] \in S
      <3>1. j \in 1 .. Len(s) BY <1>0
      <3> QED BY <3>1, ElementOfSeq
    <2>2. PICK n \in Nat : n = Len(s) BY <1>0
    <2>3. PICK m \in Int : m = i + 1 BY <1>0
    <2>4. SubSeq(s, m, n) \in Seq(S) /\ Len(SubSeq(s, m, n)) = IF m <= n THEN n - m + 1 ELSE 0
      <3>1. \A j \in m .. n : s[j] \in S BY <2>1, <2>2, <2>3
      <3>2. m \in Int /\ n \in Int BY <2>2, <2>3
      <3> QED BY <3>1, <3>2, SubSeqProperties
    <2> QED BY <1>0, <2>2, <2>3, <2>4
  <1> HIDE DEF a, b
  <1>3. a \o b \in Seq(S) /\ Len(a \o b) = Len(a) + Len(b)
    BY <1>1, <1>2, ConcatProperties
  <1>4. RemoveAt(s, i) = a \o b BY DEF RemoveAt, a, b
  <1>5. Len(a) + Len(b) = Len(s) - 1 BY <1>0, <1>1, <1>2
  <1> QED BY <1>3, <1>4, <1>5, Zenon

(* The other steps of the node and of its peers. *)
LEMMA PeersKeepSyncInv ==
  ASSUME SyncInv, LocksTaken \/ NewPeer \/ \E i \in DOMAIN vNodes : Disconnect(i)
  PROVE  SyncInv'
  <1>t. SyncTypeOK /\ StagesBehind BY DEF SyncInv
  <1>1. CASE LocksTaken
    <2>1. Keeps BY <1>1, <1>t, GrownAges DEF Keeps, LocksTaken, worldVars
    <2>2. StagesBehind' BY <1>1, <2>1, StayLemma DEF LocksTaken, Stay
    <2> QED BY <1>1, <1>t, <2>2, GrownAges
      DEF LocksTaken, Stay, Ages, SyncInv, SyncTypeOK, worldVars
  <1>2. CASE NewPeer
    <2>1. vNodes' \in Seq(SUBSET Request) /\ Len(vNodes') <= MaxPeers
      BY <1>2, <1>t, TimeAssumption DEF NewPeer, SyncTypeOK
    <2>2. UNCHANGED <<stageVars, worldVars, syncCount, owed>> BY <1>2 DEF NewPeer
    <2>3. SyncTypeOK' BY <2>1, <2>2, <1>t DEF SyncTypeOK, stageVars, worldVars
    <2>4. StagesBehind' BY <2>2, <1>t DEF StagesBehind, stageVars, worldVars
    <2> QED BY <2>3, <2>4 DEF SyncInv
  <1>3. ASSUME NEW i \in DOMAIN vNodes, Disconnect(i) PROVE SyncInv'
    <2>1. vNodes' = RemoveAt(vNodes, i) BY <1>3 DEF Disconnect
    <2>2. vNodes \in Seq(SUBSET Request) /\ i \in 1 .. Len(vNodes) /\ Len(vNodes) \in Nat
      BY <1>t DEF SyncTypeOK
    <2>5. vNodes' \in Seq(SUBSET Request) /\ Len(vNodes') = Len(vNodes) - 1
      BY <2>1, <2>2, RemoveLemma
    <2>3. Len(vNodes) <= MaxPeers /\ MaxPeers \in Nat
      BY <1>t, TimeAssumption DEF SyncTypeOK
    <2>4. Len(vNodes') = Len(vNodes) - 1 /\ Len(vNodes) \in Nat
      BY <2>2, <2>5
    <2>6. Len(vNodes') <= MaxPeers
      BY <2>3, <2>4
    <2>7. UNCHANGED <<stageVars, worldVars, syncCount, owed>> BY <1>3 DEF Disconnect
    <2>8. SyncTypeOK' BY <2>5, <2>6, <2>7, <1>t DEF SyncTypeOK, stageVars, worldVars
    <2>9. StagesBehind' BY <2>7, <1>t DEF StagesBehind, stageVars, worldVars
    <2> QED BY <2>8, <2>9 DEF SyncInv
  <1> QED BY <1>1, <1>2, <1>3

(* What comes from peers and from the chain, and mnsync reset. *)
LEMMA WorldKeepsSyncInv ==
  ASSUME SyncInv,
         \/ (\E i \in Item : Added(i)) \/ LoseMasternodes
         \/ BlockchainSynced \/ TipMoves \/ SporkChanges \/ Reset \/ ResetOverwritten
  PROVE  SyncInv'
  <1>t. SyncTypeOK /\ StagesBehind BY DEF SyncInv
  <1>1. ASSUME NEW i \in Item, Added(i) PROVE SyncInv'
    <2>a. last' = [last EXCEPT ![i] = 0] /\ toCome > 0 /\ toCome' = toCome - 1
      BY <1>1 DEF Added
    <2>b. 0 \in Age /\ 0 # Never
      BY TimeAssumption DEF Age
    <2>c. toCome \in Nat
      BY <1>t DEF SyncTypeOK
    <2>1. last' = [last EXCEPT ![i] = 0] /\ 0 \in Age /\ 0 # Never /\ toCome' \in Nat
      BY <2>a, <2>b, <2>c
    <2>2. last' \in [Item -> Age] /\ \A j \in Item : last[j] # Never => last'[j] # Never
      BY <2>1, <1>t DEF SyncTypeOK
    <2>3. StagesBehind' BY <1>1, <1>t, <2>2 DEF StagesBehind, Added, Item
    <2>4. enabled' \in BOOLEAN BY <1>1, <1>t DEF Added, SyncTypeOK
    <2> QED BY <1>1, <1>t, <2>1, <2>2, <2>3, <2>4 DEF Added, SyncInv, SyncTypeOK
  <1>2. CASE LoseMasternodes
    BY <1>2, <1>t DEF LoseMasternodes, SyncInv, SyncTypeOK, StagesBehind, stageVars
  <1>3. CASE BlockchainSynced
    BY <1>3, <1>t DEF BlockchainSynced, SyncInv, SyncTypeOK, StagesBehind, stageVars
  <1>4. CASE TipMoves
    <2>1. at600' \in BOOLEAN BY <1>4 DEF TipMoves
    <2> QED BY <2>1, <1>4, <1>t DEF TipMoves, SyncInv, SyncTypeOK, StagesBehind, stageVars
  <1>5. CASE SporkChanges
    <2>1. enforced' \in BOOLEAN /\ owed' \subseteq {"chain"} /\ owed' \subseteq owed
      BY <1>5, <1>t DEF SporkChanges, SyncTypeOK
    <2> QED BY <2>1, <1>5, <1>t DEF SporkChanges, SyncInv, SyncTypeOK, StagesBehind, stageVars
  <1>6. ASSUME Resets
        PROVE  /\ last' \in [Item -> Age] /\ nResets' \in Nat
               /\ {fBlockchainSynced', at600', enforced', enabled'} \subseteq BOOLEAN
               /\ {syncCount', toCome'} \subseteq Nat /\ enforced' = enforced
    <2>1. fBlockchainSynced \in BOOLEAN /\ fBlockchainSynced' \in {fBlockchainSynced, FALSE}
      BY <1>6, <1>t DEF Resets, SyncTypeOK
    <2>2. fBlockchainSynced' \in BOOLEAN BY <2>1
    <2>3. UNCHANGED <<at600, enforced, enabled, toCome, syncCount>> /\ last' = NoItems
          /\ nResets' = nResets + 1
      BY <1>6 DEF Resets
    <2> QED BY <2>2, <2>3, <1>t DEF NoItems, Age, SyncTypeOK
  <1>7. CASE Reset
    <2>1. /\ asset' = "INITIAL" /\ attempt' = 0 /\ started' = 0 /\ failed' = Never
          /\ owed' = OwedFromStart /\ vNodes' = vNodes /\ Resets
      BY <1>7 DEF Reset
    <2>2. StagesBehind' /\ owed' \subseteq {"chain", "items"}
      BY <1>6, <2>1 DEF StagesBehind, OwedFromStart
    <2> QED BY <1>6, <1>t, <2>1, <2>2, StageLemma DEF SyncInv, SyncTypeOK, Age
  <1>8. CASE ResetOverwritten
    <2>1. StageTypes /\ Resets /\ owed' = {} BY <1>8, <1>t, InStageTypes DEF ResetOverwritten
    <2>2. StagesBehind' BY <2>1 DEF StagesBehind
    <2> QED BY <1>6, <2>1, <2>2 DEF StageTypes, SyncInv, SyncTypeOK
  <1> QED BY <1>1, <1>2, <1>3, <1>4, <1>5, <1>7, <1>8

(* SyncInv is an invariant of the synchronisation. *)
LEMMA SyncInvariance == SyncSpec => []SyncInv
  <1>1. SyncInv /\ [SyncNext]_syncVars => SyncInv'
    <2> SUFFICES ASSUME SyncInv, [SyncNext]_syncVars PROVE SyncInv' OBVIOUS
    <2>1. CASE UNCHANGED syncVars
      BY <2>1 DEF SyncInv, SyncTypeOK, StagesBehind, syncVars, stageVars, worldVars
    <2>2. CASE SyncNext
      BY <2>2, ProcessKeepsSyncInv, PeersKeepSyncInv, WorldKeepsSyncInv DEF SyncNext
    <2> QED BY <2>1, <2>2
  <1> QED BY <1>1, SyncInitOK, PTL DEF SyncSpec

(* The stages, times, requests and counts of the synchronisation keep their *)
(* types: the stage is one of the seven, and a peer is asked for what there *)
(* is (masternode-sync.cpp).                                                *)
THEOREM SyncTypeCorrect == SyncSpec => []SyncTypeOK
  BY SyncInvariance, PTL DEF SyncInv

(* Whatever peers send and however often they come and go, a node does not  *)
(* finish without a recent chain, unless Process went on at block 600, nor  *)
(* without masternodes and votes, unless payments were not enforced at some *)
(* time since the last reset (CMasternodeSync::Process), or a reset was     *)
(* overwritten.                                                             *)
THEOREM FinishedCorrect == SyncSpec => []FinishedIsReady
  <1>1. SyncInv => FinishedIsReady BY DEF SyncInv, StagesBehind, FinishedIsReady
  <1> QED BY <1>1, SyncInvariance, PTL

-----------------------------------------------------------------------------
(* The masternode list. *)

Known == 0 .. OldestSeen
EntryType ==
    [mnb : Broadcast, ping : Known, state : {"ENABLED", "EXPIRED", "REMOVE", "VIN_SPENT"}]
Message ==
    [type : {"mnb"}, from : Node, to : Node, mnb : Broadcast]
        \cup [type : {"mnp", "dseg"}, from : Node, to : Node, mnb : {None}]

(* What each node has, and what is between them. *)
ListsOK ==
    /\ list \in [Node -> EntryType \cup {None}]
    /\ seen \in [Node -> [Broadcast -> Known \cup {None}]]
    /\ pinged \subseteq Node
    /\ late \subseteq Node \X Broadcast
NetworkOK ==
    /\ messages \subseteq Message
    /\ known \subseteq (SUBSET Node) \X Broadcast
    /\ cut \subseteq Node

(* The chain, the masternode itself and who signs for it. *)
ActiveOK ==
    /\ collateral \in [Node -> {"young", "good", "spent"}]
    /\ status \in {"INITIAL", "INPUT_TOO_NEW", "NOT_CAPABLE", "STARTED"}
    /\ hasVin \in BOOLEAN
    /\ wallet \in Node
    /\ signed \in 0 .. MaxBroadcasts
    /\ fresh \subseteq 1 .. signed /\ early \subseteq 1 .. signed
    /\ nFaults \in Nat

TypeOK == ListsOK /\ NetworkOK /\ ActiveOK

(* Nothing is listed or on the way that was not signed. *)
OnlySigned ==
    /\ \A n \in Node : list[n] # None => list[n].mnb <= signed
    /\ \A m \in messages : m.type = "mnb" => m.mnb <= signed

(* The broadcasts that are too early come before all others. *)
EarlyFirst ==
    /\ \A b \in early, c \in (1 .. signed) \ early : b < c
    /\ early # 1 .. signed => \E n \in Node : collateral[n] # "young"

(* A masternode is listed by others than the node that signs for it only if *)
(* its collateral is old enough, and was when the broadcast was signed.     *)
(* CheckInputsAndAdd looks at both; CheckAndUpdate, which replaces the      *)
(* broadcast of a listed masternode, looks at neither.                      *)
ListedAreConfirmed ==
    \A n \in Node \ {wallet} :
        list[n] # None => list[n].mnb \notin early /\ collateral[n] # "young"

ListInv == TypeOK /\ ServedIsCurrent /\ OnlySigned /\ EarlyFirst /\ ListedAreConfirmed

(* What follows from the assumptions on times and names. *)
LEMMA Consts ==
  /\ OldestSeen \in Nat /\ Removal \in Nat /\ Removal < OldestSeen
  /\ PingValid \in Nat /\ 0 < PingValid /\ Hot \in Node
  /\ Known \subseteq Nat /\ 0 \in Known
  /\ None \notin Known /\ None \notin EntryType
  /\ Broadcast \subseteq Nat
  <1>1. None \notin EntryType
    <2>1. Known \subseteq Nat /\ Broadcast \subseteq Nat BY DEF Known, Broadcast
    <2> QED BY <2>1, MasternodesAssumption DEF EntryType
  <1> QED BY <1>1, MasternodesAssumption DEF OldestSeen, Known, Broadcast

(* CMasternode::Check changes the state only, and a masternode that is not  *)
(* to be removed has been pinged within the time of removal.                *)
LEMMA CheckLemma ==
  ASSUME NEW n, NEW e \in EntryType, NEW busy \in BOOLEAN
  PROVE  /\ Check(n, e, busy) \in EntryType
         /\ Check(n, e, busy).mnb = e.mnb /\ Check(n, e, busy).ping = e.ping
         /\ Check(n, e, busy).state \notin {"REMOVE", "VIN_SPENT"} => e.ping < Removal
  <1> DEFINE old == e.state
             new == CASE old = "VIN_SPENT" -> old
                      [] old # "VIN_SPENT" /\ e.ping >= Removal -> "REMOVE"
                      [] old # "VIN_SPENT" /\ e.ping \in Expiration .. Removal - 1 -> "EXPIRED"
                      [] OTHER -> IF busy THEN old
                                  ELSE IF collateral[n] = "spent" THEN "VIN_SPENT"
                                  ELSE "ENABLED"
  <1>1. Check(n, e, busy) = [e EXCEPT !.state = new] BY DEF Check
  <1>2. /\ old \in {"ENABLED", "EXPIRED", "REMOVE", "VIN_SPENT"}
        /\ e.ping \in Nat /\ Removal \in Nat /\ Expiration \in Nat /\ Expiration < Removal
    BY Consts, MasternodesAssumption DEF EntryType
  <1>3. new \in {"ENABLED", "EXPIRED", "REMOVE", "VIN_SPENT"}
    <2>1. CASE old = "VIN_SPENT" BY <2>1
    <2>2. CASE old # "VIN_SPENT" /\ e.ping >= Removal BY <2>2, <1>2
    <2>3. CASE old # "VIN_SPENT" /\ ~(e.ping >= Removal) BY <2>3, <1>2
    <2> QED BY <2>1, <2>2, <2>3
  <1>4. new \notin {"REMOVE", "VIN_SPENT"} => e.ping < Removal
    BY <1>2
  <1> HIDE DEF new
  <1> QED BY <1>1, <1>3, <1>4 DEF EntryType

(* A newer broadcast replaces the one of the entry; its ping may not. *)
LEMMA UpdateLemma ==
  ASSUME NEW e \in EntryType, NEW b \in Broadcast, NEW age \in Known
  PROVE  /\ UpdateFromNewBroadcast(e, b, age) \in EntryType
         /\ UpdateFromNewBroadcast(e, b, age).mnb = b
         /\ UpdateFromNewBroadcast(e, b, age).ping
              = IF TakesPing(e, age) THEN age ELSE e.ping
  BY DEF UpdateFromNewBroadcast, EntryType

(* A ping changes nothing else of an entry. *)
LEMMA PingLemma ==
  ASSUME NEW e \in EntryType
  PROVE  /\ [e EXCEPT !.ping = 0] \in EntryType
         /\ [e EXCEPT !.ping = 0].mnb = e.mnb /\ [e EXCEPT !.ping = 0].ping = 0
  BY Consts DEF EntryType

(* A new entry, of a broadcast with its ping. *)
LEMMA EntryLemma ==
  ASSUME NEW b \in Broadcast, NEW age \in Known
  PROVE  /\ Entry(b, age) \in EntryType
         /\ Entry(b, age).mnb = b /\ Entry(b, age).ping = age
  BY DEF Entry, EntryType

(* The messages that nodes send are messages. *)
LEMMA MessagesLemma ==
  ASSUME NEW n \in Node, NEW b \in Broadcast, NEW peers \in SUBSET Node
  PROVE  /\ Announce(n, b, peers) \subseteq Message
         /\ \A m \in Announce(n, b, peers) : m.type = "mnb" /\ m.mnb = b
         /\ Dseg(n, peers) \subseteq Message
         /\ \A m \in Dseg(n, peers) : m.type = "dseg"
         /\ RelayPing(n) \subseteq Message
         /\ \A m \in RelayPing(n) : m.type = "mnp"
  <1>1. Peers(n) \subseteq Node BY DEF Peers
  <1>2. /\ Announce(n, b, peers) \subseteq [type : {"mnb"}, from : Node, to : Node, mnb : Broadcast]
        /\ \A m \in Announce(n, b, peers) : m.type = "mnb" /\ m.mnb = b
    <2>1. ASSUME NEW m \in Announce(n, b, peers)
          PROVE  \E p \in Node : m = [type |-> "mnb", from |-> n, to |-> p, mnb |-> b]
      BY <2>1 DEF Announce
    <2> QED BY <2>1
  <1>3. /\ Dseg(n, peers) \subseteq [type : {"mnp", "dseg"}, from : Node, to : Node, mnb : {None}]
        /\ \A m \in Dseg(n, peers) : m.type = "dseg"
    BY DEF Dseg
  <1>4. /\ RelayPing(n) \subseteq [type : {"mnp", "dseg"}, from : Node, to : Node, mnb : {None}]
        /\ \A m \in RelayPing(n) : m.type = "mnp"
    BY <1>1 DEF RelayPing
  <1> QED BY <1>2, <1>3, <1>4 DEF Message

(* The bound on faults is a number. *)
LEMMA BusyLemma ==
  ASSUME NEW busy \in BOOLEAN, nFaults \in Nat, CountBusy(busy)
  PROVE  nFaults' \in Nat
  BY DEF CountBusy

(* What is sent keeps the network as it is said to be. *)
LEMMA NetworkStep ==
  ASSUME ListInv, signed' \in Nat, signed <= signed',
         NEW taken, NEW new \in SUBSET Message, Send(taken, new),
         \A m \in new : m.type = "mnb" => m.mnb <= signed'
  PROVE  /\ NetworkOK'
         /\ \A m \in messages' : m.type = "mnb" => m.mnb <= signed'
  <1>1. messages' \subseteq messages \cup new /\ cut' = cut BY DEF Send
  <1>2. messages \subseteq Message /\ known \subseteq (SUBSET Node) \X Broadcast
        /\ signed \in Nat /\ cut \subseteq Node
    BY DEF ListInv, TypeOK, NetworkOK, ActiveOK
  <1>3. \A m \in messages : m.type = "mnb" => m.mnb <= signed BY DEF ListInv, OnlySigned
  <1>4. \A m \in Message : m.type = "mnb" =>
            m.from \in Node /\ m.to \in Node /\ m.mnb \in Broadcast
    BY DEF Message
  <1>5. known' \subseteq (SUBSET Node) \X Broadcast
    <2>1. known' = known \cup {<<{m.from, m.to}, m.mnb>> : m \in {k \in new : k.type = "mnb"}}
      BY DEF Send
    <2>2. ASSUME NEW m \in new, m.type = "mnb"
          PROVE  <<{m.from, m.to}, m.mnb>> \in (SUBSET Node) \X Broadcast
      BY <2>2, <1>4
    <2> QED BY <2>1, <2>2, <1>2
  <1>6. ASSUME NEW m \in messages', m.type = "mnb" PROVE m.mnb <= signed'
    <2>1. CASE m \in messages
      <3>1. m.mnb \in Nat BY <2>1, <1>2, <1>4, <1>6, Consts
      <3> QED BY <2>1, <3>1, <1>2, <1>3, <1>6
    <2>2. CASE m \in new BY <2>2, <1>6
    <2> QED BY <1>1, <2>1, <2>2
  <1> QED BY <1>1, <1>2, <1>5, <1>6 DEF NetworkOK

(* A step of a node decides only for itself what is late. *)
LateKept(n) ==
    \A p \in Node \ {n}, b \in Broadcast : <<p, b>> \in late => <<p, b>> \in late'

(* A step of the list of one node. *)
LEMMA NodeStep ==
  ASSUME ListInv, signed' \in Nat, signed <= signed',
         early' \cap (1 .. signed) = early,
         wallet' = wallet, collateral' = collateral,
         pinged' \subseteq Node, late' \subseteq Node \X Broadcast,
         NEW n \in Node, LateKept(n), NEW e \in EntryType \cup {None},
         NEW s \in [Broadcast -> Known \cup {None}],
         list' = [list EXCEPT ![n] = e], seen' = [seen EXCEPT ![n] = s],
         e # None =>
           /\ e.mnb <= signed'
           /\ <<n, e.mnb>> \notin late' => s[e.mnb] = e.ping
           /\ n # wallet => e.mnb \notin early' /\ collateral[n] # "young"
  PROVE  /\ ListsOK' /\ ServedIsCurrent' /\ ListedAreConfirmed'
         /\ \A k \in Node : list'[k] # None => list'[k].mnb <= signed'
  <1>1. /\ list \in [Node -> EntryType \cup {None}]
        /\ seen \in [Node -> [Broadcast -> Known \cup {None}]]
        /\ signed \in Nat
    BY DEF ListInv, TypeOK, ListsOK, ActiveOK
  <1>2. ListsOK' BY <1>1 DEF ListsOK
  <1>3. /\ list'[n] = e /\ seen'[n] = s
        /\ \A k \in Node \ {n} : list'[k] = list[k] /\ seen'[k] = seen[k]
    BY <1>1
  <1>4. \A k \in Node : list[k] # None => list[k].mnb \in Nat /\ list[k].mnb \in 1 .. signed
    BY <1>1, Consts DEF ListInv, OnlySigned, EntryType, Broadcast
  <1>5. ServedIsCurrent'
    <2>1. \A k \in Node \ {n} : list[k] # None =>
             list[k].mnb \in Broadcast /\ (<<k, list[k].mnb>> \in late => <<k, list[k].mnb>> \in late')
      BY <1>1 DEF LateKept, EntryType
    <2> QED BY <1>3, <2>1 DEF ServedIsCurrent, ListInv
  <1>6. \A k \in Node : list'[k] # None => list'[k].mnb <= signed'
    BY <1>1, <1>3, <1>4
  <1>7. ListedAreConfirmed' BY <1>3, <1>4 DEF ListedAreConfirmed, ListInv
  <1> QED BY <1>2, <1>5, <1>6, <1>7

(* A step that changes neither the chain nor what is signed. *)
Unsigned == signVars' = signVars /\ collateral' = collateral /\ wallet' = wallet

(* A step that signs nothing leaves what is early as it is. *)
LEMMA ActiveStep ==
  ASSUME ListInv, Unsigned, nFaults' \in Nat, hasVin' \in BOOLEAN,
         status' \in {"INITIAL", "INPUT_TOO_NEW", "NOT_CAPABLE", "STARTED"}
  PROVE  /\ ActiveOK' /\ EarlyFirst'
         /\ signed' = signed /\ signed \in Nat
         /\ early' \cap (1 .. signed) = early
  <1>1. /\ signed' = signed /\ fresh' = fresh /\ early' = early
        /\ collateral' = collateral /\ wallet' = wallet
    BY DEF Unsigned, signVars
  <1>2. ActiveOK /\ EarlyFirst BY DEF ListInv, TypeOK
  <1>3. ActiveOK' BY <1>1, <1>2 DEF ActiveOK
  <1>4. EarlyFirst' BY <1>1, <1>2 DEF EarlyFirst
  <1>5. early \subseteq 1 .. signed /\ signed \in Nat BY <1>2 DEF ActiveOK
  <1>6. early' \cap (1 .. signed) = early BY <1>1, <1>5
  <1> QED BY <1>1, <1>3, <1>4, <1>5, <1>6

(* A step that leaves the lists alone. *)
LEMMA SameLists ==
  ASSUME ListInv, Unsigned, list' = list, seen' = seen, late' = late, pinged' \subseteq Node
  PROVE  /\ ListsOK' /\ ServedIsCurrent' /\ ListedAreConfirmed'
         /\ \A k \in Node : list'[k] # None => list'[k].mnb <= signed'
  BY DEF ListInv, TypeOK, ListsOK, ServedIsCurrent, ListedAreConfirmed, OnlySigned,
         Unsigned, signVars

(* What a step does to the lists, the network and the rest, put together. *)
LEMMA ListInvParts ==
  ASSUME ListsOK', NetworkOK', ActiveOK', ServedIsCurrent', EarlyFirst', ListedAreConfirmed',
         \A k \in Node : list'[k] # None => list'[k].mnb <= signed',
         \A m \in messages' : m.type = "mnb" => m.mnb <= signed'
  PROVE  ListInv'
  BY DEF ListInv, TypeOK, OnlySigned

(* A step of one node that signs nothing. *)
LEMMA UnsignedStep ==
  ASSUME ListInv, Unsigned, nFaults' \in Nat, hasVin' \in BOOLEAN,
         status' \in {"INITIAL", "INPUT_TOO_NEW", "NOT_CAPABLE", "STARTED"},
         pinged' \subseteq Node, late' \subseteq Node \X Broadcast,
         NetworkOK', \A m \in messages' : m.type = "mnb" => m.mnb <= signed,
         NEW n \in Node, LateKept(n), NEW e \in EntryType \cup {None},
         NEW s \in [Broadcast -> Known \cup {None}],
         list' = [list EXCEPT ![n] = e], seen' = [seen EXCEPT ![n] = s],
         e # None =>
           /\ e.mnb <= signed
           /\ <<n, e.mnb>> \notin late' => s[e.mnb] = e.ping
           /\ n # wallet => e.mnb \notin early /\ collateral[n] # "young"
  PROVE  ListInv'
  <1>1. /\ ActiveOK' /\ EarlyFirst' /\ signed' = signed /\ signed \in Nat
        /\ early' \cap (1 .. signed) = early
    BY ActiveStep
  <1>2. early' = early /\ wallet' = wallet /\ collateral' = collateral
    BY DEF Unsigned, signVars
  <1>3. /\ e # None =>
             /\ e.mnb <= signed'
             /\ <<n, e.mnb>> \notin late' => s[e.mnb] = e.ping
             /\ n # wallet => e.mnb \notin early' /\ collateral[n] # "young"
        /\ signed <= signed' /\ signed' \in Nat
    BY <1>1, <1>2
  <1>4. /\ ListsOK' /\ ServedIsCurrent' /\ ListedAreConfirmed'
        /\ \A k \in Node : list'[k] # None => list'[k].mnb <= signed'
    BY <1>1, <1>2, <1>3, NodeStep
  <1> QED BY <1>1, <1>4, ListInvParts

(* The steps that only take a message, and note that it came. *)
LEMMA TakenOnly ==
  ASSUME ListInv, Unsigned, list' = list, seen' = seen, late' = late, pinged' \subseteq Node,
         activeVars' = activeVars, nFaults' = nFaults,
         NEW taken, NEW new \in SUBSET Message, Send(taken, new),
         \A m \in new : m.type # "mnb"
  PROVE  ListInv'
  <1>1. /\ hasVin' \in BOOLEAN /\ nFaults' \in Nat
        /\ status' \in {"INITIAL", "INPUT_TOO_NEW", "NOT_CAPABLE", "STARTED"}
    BY DEF ListInv, TypeOK, ActiveOK, activeVars
  <1>2. /\ ActiveOK' /\ EarlyFirst' /\ signed' = signed /\ signed \in Nat
    BY <1>1, ActiveStep
  <1>3. NetworkOK' /\ \A m \in messages' : m.type = "mnb" => m.mnb <= signed'
    BY <1>2, NetworkStep
  <1> QED BY <1>2, <1>3, SameLists, ListInvParts

(* What messages there can be. *)
LEMMA MessageLemma ==
  ASSUME ListInv, NEW m \in messages
  PROVE  /\ m.from \in Node /\ m.to \in Node
         /\ m.type = "mnb" => m.mnb \in Broadcast /\ m.mnb <= signed
         /\ {} \in SUBSET Message
  BY DEF ListInv, TypeOK, NetworkOK, OnlySigned, Message

(* A broadcast that is known, or not there any more. *)
LEMMA IgnoreMnbKeeps ==
  ASSUME ListInv, NEW n \in Node, NEW m \in messages, IgnoreMnb(n, m)
  PROVE  ListInv'
  <1>1. /\ Unsigned /\ list' = list /\ seen' = seen /\ late' = late /\ pinged' \subseteq Node
        /\ activeVars' = activeVars /\ nFaults' = nFaults
    BY DEF IgnoreMnb, Unsigned, ListInv, TypeOK, ListsOK
  <1>2. Send({m}, {}) BY DEF IgnoreMnb
  <1> QED BY <1>1, <1>2, TakenOnly

(* A ping that is not taken, or that makes the node ask for the entry. *)
LEMMA IgnorePingKeeps ==
  ASSUME ListInv, NEW n \in Node, NEW m \in messages, IgnorePing(n, m) \/ AskForMN(n, m)
  PROVE  ListInv'
  <1>1. /\ Unsigned /\ list' = list /\ seen' = seen /\ late' = late /\ pinged' \subseteq Node
        /\ activeVars' = activeVars /\ nFaults' = nFaults
    BY DEF IgnorePing, AskForMN, Unsigned, ListInv, TypeOK, ListsOK
  <1>2. PICK new \in SUBSET Message : Send({m}, new) /\ \A k \in new : k.type # "mnb"
    <2>1. CASE IgnorePing(n, m)
      <3>1. Send({m}, {}) BY <2>1 DEF IgnorePing
      <3> QED BY <3>1
    <2>2. CASE AskForMN(n, m)
      <3>1. Send({m}, Dseg(n, {m.from})) /\ {m.from} \subseteq Node
        BY <2>2, MessageLemma DEF AskForMN
      <3>2. /\ Dseg(n, {m.from}) \subseteq [type : {"mnp", "dseg"}, from : Node, to : Node,
                                            mnb : {None}]
            /\ \A k \in Dseg(n, {m.from}) : k.type = "dseg"
        BY <3>1 DEF Dseg
      <3> QED BY <3>1, <3>2 DEF Message
    <2> QED BY <2>1, <2>2
  <1> QED BY <1>1, <1>2, TakenOnly

(* What is fetched is a broadcast that was signed. *)
LEMMA FetchedLemma ==
  ASSUME ListInv, NEW n \in Node, NEW m \in messages, Fetched(n, m)
  PROVE  /\ m.mnb \in Broadcast /\ m.mnb <= signed /\ m.from \in Node
         /\ seen[m.from][m.mnb] \in Known /\ seen[n][m.mnb] = None
         /\ \A age \in Known : [seen EXCEPT ![n][m.mnb] = age] =
                [seen EXCEPT ![n] = [seen[n] EXCEPT ![m.mnb] = age]]
         /\ \A age \in Known \cup {None} :
                [seen[n] EXCEPT ![m.mnb] = age] \in [Broadcast -> Known \cup {None}]
         /\ seen[n] \in [Broadcast -> Known \cup {None}]
         /\ list[n] \in EntryType \cup {None}
  <1>1. /\ m.mnb \in Broadcast /\ m.mnb <= signed /\ m.from \in Node
        /\ seen[n][m.mnb] = None /\ seen[m.from][m.mnb] # None
    BY MessageLemma DEF Fetched
  <1>2. /\ seen \in [Node -> [Broadcast -> Known \cup {None}]]
        /\ list \in [Node -> EntryType \cup {None}]
    BY DEF ListInv, TypeOK, ListsOK
  <1> QED BY <1>1, <1>2

(* An older broadcast is noted, and its entry served as before. *)
LEMMA RefuseOlderKeeps ==
  ASSUME ListInv, NEW n \in Node, NEW m \in messages, RefuseOlder(n, m)
  PROVE  ListInv'
  <1> DEFINE age == seen[m.from][m.mnb]
             s == [seen[n] EXCEPT ![m.mnb] = age]
  <1>0. Fetched(n, m) /\ Send({m}, {}) /\ list[n] # None /\ list[n].mnb > m.mnb
    BY DEF RefuseOlder, Older
  <1>1. /\ Unsigned /\ late' = late /\ pinged' = pinged /\ list' = list
        /\ activeVars' = activeVars /\ nFaults' = nFaults /\ seen' = [seen EXCEPT ![n][m.mnb] = age]
    BY DEF RefuseOlder, Unsigned
  <1>2. /\ hasVin' \in BOOLEAN /\ nFaults' \in Nat
        /\ status' \in {"INITIAL", "INPUT_TOO_NEW", "NOT_CAPABLE", "STARTED"}
    BY <1>1 DEF ListInv, TypeOK, ActiveOK, activeVars
  <1>3. signed' = signed /\ signed \in Nat
    BY <1>1 DEF Unsigned, signVars, ListInv, TypeOK, ActiveOK
  <1>4. NetworkOK' /\ \A k \in messages' : k.type = "mnb" => k.mnb <= signed
    BY <1>0, <1>3, NetworkStep
  <1>5. /\ age \in Known /\ s \in [Broadcast -> Known \cup {None}]
        /\ seen' = [seen EXCEPT ![n] = s] /\ list[n] \in EntryType \cup {None}
    BY <1>0, <1>1, FetchedLemma
  <1>6. list' = [list EXCEPT ![n] = list[n]]
    BY <1>1 DEF ListInv, TypeOK, ListsOK
  <1>7. list[n].mnb # m.mnb /\ list[n].mnb \in Broadcast
    BY <1>0, <1>5, FetchedLemma, Consts DEF EntryType
  <1>8. s[list[n].mnb] = seen[n][list[n].mnb]
    BY <1>0, <1>7, FetchedLemma
  <1>9. /\ list[n].mnb <= signed
        /\ <<n, list[n].mnb>> \notin late' => s[list[n].mnb] = list[n].ping
        /\ n # wallet => list[n].mnb \notin early /\ collateral[n] # "young"
    BY <1>0, <1>1, <1>8 DEF ListInv, OnlySigned, ServedIsCurrent, ListedAreConfirmed
  <1>t. pinged' \subseteq Node /\ late' \subseteq Node \X Broadcast /\ LateKept(n)
    BY <1>1 DEF ListInv, TypeOK, ListsOK, LateKept
  <1> HIDE DEF age, s
  <1> QED BY <1>1, <1>2, <1>4, <1>5, <1>6, <1>9, <1>t, UnsignedStep

(* What CheckAndUpdate makes of an entry, or of none. *)
LEMMA CheckAndUpdateLemma ==
  ASSUME NEW n \in Node, NEW old \in EntryType \cup {None}, NEW b \in Broadcast,
         NEW age \in Known, NEW busy \in BOOLEAN
  PROVE  LET e == CheckAndUpdate(n, old, b, age, busy)
         IN  /\ ~Updates(old, b) => e = old
             /\ Updates(old, b) => /\ old # None /\ e \in EntryType /\ e.mnb = b /\ b > old.mnb
                                   /\ e # None
             /\ e \in EntryType \cup {None}
  <1>1. CASE ~Updates(old, b) BY <1>1 DEF CheckAndUpdate
  <1>2. CASE Updates(old, b)
    <2>1. old # None /\ b > old.mnb BY <1>2 DEF Updates, Enabled
    <2>2. /\ UpdateFromNewBroadcast(old, b, age) \in EntryType
          /\ UpdateFromNewBroadcast(old, b, age).mnb = b
      BY <2>1, UpdateLemma
    <2>3. /\ Check(n, UpdateFromNewBroadcast(old, b, age), busy) \in EntryType
          /\ Check(n, UpdateFromNewBroadcast(old, b, age), busy).mnb = b
      BY <2>2, CheckLemma
    <2> QED BY <1>2, <2>1, <2>3, Consts DEF CheckAndUpdate
  <1> QED BY <1>1, <1>2

(* A broadcast that is not early is not made so by one that is newer. *)
LEMMA NotEarlyLemma ==
  ASSUME ListInv, NEW n \in Node \ {wallet}, list[n] # None,
         NEW b \in Broadcast, b <= signed, b > list[n].mnb
  PROVE  b \notin early /\ collateral[n] # "young"
  <1>1. list[n] \in EntryType /\ list[n].mnb \in Broadcast
    BY DEF ListInv, TypeOK, ListsOK, EntryType
  <1>2. list[n].mnb \notin early /\ collateral[n] # "young" /\ list[n].mnb <= signed
    BY DEF ListInv, ListedAreConfirmed, OnlySigned
  <1>3. list[n].mnb \in (1 .. signed) \ early /\ list[n].mnb \in Nat /\ b \in Nat
    BY <1>1, <1>2 DEF ListInv, TypeOK, ActiveOK, Broadcast
  <1>4. b \in early => b < list[n].mnb BY <1>3 DEF ListInv, EarlyFirst
  <1> QED BY <1>2, <1>3, <1>4

(* The types that the proofs of the steps need. *)
LEMMA ActiveTypes ==
  ASSUME ListInv
  PROVE  /\ hasVin \in BOOLEAN /\ nFaults \in Nat /\ signed \in Nat /\ signed <= MaxBroadcasts
         /\ status \in {"INITIAL", "INPUT_TOO_NEW", "NOT_CAPABLE", "STARTED"}
         /\ pinged \subseteq Node /\ late \subseteq Node \X Broadcast
         /\ list \in [Node -> EntryType \cup {None}]
         /\ seen \in [Node -> [Broadcast -> Known \cup {None}]]
         /\ messages \subseteq Message
         /\ NetworkOK /\ \A m \in messages : m.type = "mnb" => m.mnb <= signed
         /\ wallet \in Node /\ Hot \in Node
  BY MasternodesAssumption
  DEF ListInv, TypeOK, ActiveOK, ListsOK, NetworkOK, OnlySigned

(* A broadcast that updates the entry, or changes nothing. *)
LEMMA KeepEntryKeeps ==
  ASSUME ListInv, NEW n \in Node, NEW m \in messages, NEW busy \in BOOLEAN,
         KeepEntry(n, m, busy)
  PROVE  ListInv'
  <1> DEFINE age == seen[m.from][m.mnb]
             e == CheckAndUpdate(n, list[n], m.mnb, age, busy)
             updated == Updates(list[n], m.mnb)
             takesPing == updated /\ TakesPing(list[n], age)
             s == [seen[n] EXCEPT ![m.mnb] = age]
             new == IF updated /\ Enabled(e)
                    THEN Announce(n, m.mnb, Peers(n)) \cup (IF takesPing THEN RelayPing(n) ELSE {})
                    ELSE {}
  <1>0. /\ Fetched(n, m) /\ ~Older(n, m.mnb) /\ Send({m}, new)
        /\ list' = [list EXCEPT ![n] = e] /\ seen' = [seen EXCEPT ![n][m.mnb] = age]
        /\ pinged' = IF takesPing /\ Enabled(e) THEN pinged \cup {n} ELSE pinged
        /\ CountBusy(busy)
        /\ late' = IF updated /\ e.ping = age THEN late \ {<<n, m.mnb>>}
                   ELSE late \cup {k \in {<<n, m.mnb>>} : updated}
        /\ Unsigned /\ activeVars' = activeVars
    BY DEF KeepEntry, Unsigned
  <1>1. /\ m.mnb \in Broadcast /\ m.mnb <= signed /\ age \in Known
        /\ s \in [Broadcast -> Known \cup {None}] /\ seen' = [seen EXCEPT ![n] = s]
        /\ list[n] \in EntryType \cup {None} /\ seen[n][m.mnb] = None
        /\ seen[n] \in [Broadcast -> Known \cup {None}]
    BY <1>0, FetchedLemma
  <1>2. /\ ~updated => e = list[n]
        /\ updated => /\ list[n] # None /\ e \in EntryType /\ e.mnb = m.mnb
                      /\ m.mnb > list[n].mnb
        /\ e \in EntryType \cup {None}
    BY <1>1, CheckAndUpdateLemma
  <1>3. new \subseteq Message /\ \A k \in new : k.type = "mnb" => k.mnb <= signed
    <2>1. Peers(n) \in SUBSET Node BY DEF Peers
    <2>2. new \subseteq Announce(n, m.mnb, Peers(n)) \cup RelayPing(n) OBVIOUS
    <2>3. /\ Announce(n, m.mnb, Peers(n)) \subseteq Message
          /\ \A k \in Announce(n, m.mnb, Peers(n)) : k.mnb = m.mnb
          /\ RelayPing(n) \subseteq Message /\ \A k \in RelayPing(n) : k.type = "mnp"
      BY <1>1, <2>1, MessagesLemma
    <2> HIDE DEF new
    <2> QED BY <1>1, <2>2, <2>3
  <1>4. /\ hasVin' \in BOOLEAN /\ nFaults' \in Nat /\ signed' = signed /\ signed \in Nat
        /\ status' \in {"INITIAL", "INPUT_TOO_NEW", "NOT_CAPABLE", "STARTED"}
    BY <1>0, ActiveTypes, BusyLemma DEF activeVars, Unsigned, signVars
  <1> HIDE DEF new
  <1>5. NetworkOK' /\ \A k \in messages' : k.type = "mnb" => k.mnb <= signed
    <2>1. new \in SUBSET Message /\ signed <= signed' /\ signed' \in Nat BY <1>3, <1>4
    <2> QED BY <1>0, <1>3, <1>4, <2>1, NetworkStep
  <1>6. pinged' \subseteq Node BY <1>0, ActiveTypes
  <1>7. LateKept(n) /\ late' \subseteq Node \X Broadcast
    BY <1>0, <1>1, ActiveTypes DEF LateKept
  <1> HIDE DEF updated, e, age
  <1>8. ASSUME e # None
        PROVE  /\ e.mnb <= signed
               /\ <<n, e.mnb>> \notin late' => s[e.mnb] = e.ping
               /\ n # wallet => e.mnb \notin early /\ collateral[n] # "young"
    <2>1. CASE updated
      <3>1. e.mnb = m.mnb /\ e.mnb <= signed BY <2>1, <1>1, <1>2
      <3>2. e.ping # age => <<n, e.mnb>> \in late' BY <2>1, <3>1, <1>0
      <3>3. s[e.mnb] = age BY <3>1, <1>1
      <3>4. n # wallet => e.mnb \notin early /\ collateral[n] # "young"
        BY <2>1, <3>1, <1>1, <1>2, NotEarlyLemma
      <3> QED BY <3>1, <3>2, <3>3, <3>4
    <2>2. CASE ~updated
      <3>1. e = list[n] /\ late' = late BY <2>2, <1>0, <1>2
      <3>2. /\ e.mnb <= signed /\ (n # wallet => e.mnb \notin early /\ collateral[n] # "young")
            /\ <<n, e.mnb>> \notin late => seen[n][e.mnb] = e.ping
        BY <1>8, <3>1 DEF ListInv, OnlySigned, ListedAreConfirmed, ServedIsCurrent
      <3>3. e.mnb \in Broadcast /\ e.ping \in Known
        BY <1>2, <1>8 DEF EntryType
      <3>4. <<n, e.mnb>> \notin late => e.mnb # m.mnb
        BY <3>2, <3>3, <1>1, Consts
      <3> QED BY <3>1, <3>2, <3>3, <3>4, <1>1
    <2> QED BY <2>1, <2>2
  <1> HIDE DEF s
  <1> QED BY <1>0, <1>1, <1>2, <1>4, <1>5, <1>6, <1>7, <1>8, UnsignedStep

(* A broadcast for which there was no enabled entry. *)
LEMMA AddEntryKeeps ==
  ASSUME ListInv, NEW n \in Node, NEW m \in messages, NEW busy \in BOOLEAN,
         AddEntry(n, m, busy)
  PROVE  ListInv'
  <1> DEFINE age == seen[m.from][m.mnb]
             adds == ~busy /\ collateral[n] = "good" /\ m.mnb \notin early
             e == IF adds THEN Entry(m.mnb, age) ELSE None
             v == IF Forgets(n, busy) THEN None ELSE age
             s == [seen[n] EXCEPT ![m.mnb] = v]
             new == IF adds THEN Announce(n, m.mnb, Peers(n)) ELSE {}
  <1>0. /\ Fetched(n, m) /\ Send({m}, new)
        /\ list' = [list EXCEPT ![n] = e] /\ seen' = [seen EXCEPT ![n][m.mnb] = v]
        /\ pinged' = pinged /\ CountBusy(busy) /\ Unsigned
        /\ late' = IF adds THEN late \ {<<n, m.mnb>>} ELSE late
        /\ IF adds /\ n = Hot THEN status' = "STARTED" /\ hasVin' = TRUE
           ELSE UNCHANGED activeVars
    BY DEF AddEntry, Unsigned
  <1>1. /\ m.mnb \in Broadcast /\ m.mnb <= signed /\ age \in Known
        /\ seen[n] \in [Broadcast -> Known \cup {None}]
    BY <1>0, FetchedLemma
  <1>2. v \in Known \cup {None} /\ s \in [Broadcast -> Known \cup {None}]
    BY <1>1
  <1>3. seen' = [seen EXCEPT ![n] = s] BY <1>0, <1>2, ActiveTypes
  <1>4. /\ e \in EntryType \cup {None}
        /\ e # None => adds /\ e.mnb = m.mnb /\ e.ping = age
    BY <1>1, EntryLemma
  <1>5. adds => v = age BY DEF Forgets
  <1>6. new \in SUBSET Message /\ \A k \in new : k.type = "mnb" => k.mnb <= signed
    <2>1. Peers(n) \in SUBSET Node BY DEF Peers
    <2> QED BY <1>1, <2>1, MessagesLemma
  <1>7. /\ hasVin' \in BOOLEAN /\ nFaults' \in Nat /\ signed' = signed /\ signed \in Nat
        /\ status' \in {"INITIAL", "INPUT_TOO_NEW", "NOT_CAPABLE", "STARTED"}
    BY <1>0, ActiveTypes, BusyLemma DEF activeVars, Unsigned, signVars
  <1> HIDE DEF new
  <1>8. NetworkOK' /\ \A k \in messages' : k.type = "mnb" => k.mnb <= signed
    <2>1. signed <= signed' /\ signed' \in Nat BY <1>7
    <2> QED BY <1>0, <1>6, <1>7, <2>1, NetworkStep
  <1>9. ASSUME e # None
        PROVE  /\ e.mnb <= signed
               /\ <<n, e.mnb>> \notin late' => s[e.mnb] = e.ping
               /\ n # wallet => e.mnb \notin early /\ collateral[n] # "young"
    <2>1. adds /\ e.mnb = m.mnb /\ e.ping = age BY <1>4, <1>9
    <2> HIDE DEF e, v, age
    <2>2. s[m.mnb] = v BY <1>1
    <2> QED BY <2>1, <2>2, <1>1, <1>5
  <1>t. pinged' \subseteq Node /\ late' \subseteq Node \X Broadcast /\ LateKept(n)
    BY <1>0, ActiveTypes DEF LateKept
  <1> HIDE DEF s, e
  <1> QED BY <1>0, <1>2, <1>3, <1>4, <1>7, <1>8, <1>9, <1>t, UnsignedStep

(* A ping that is taken goes to the entry and to its broadcast. *)
LEMMA PingOfBroadcastLemma ==
  ASSUME NEW n \in Node, seen[n] \in [Broadcast -> Known \cup {None}], NEW e \in EntryType
  PROVE  /\ PingOfBroadcast(n, e) \in [Broadcast -> Known \cup {None}]
         /\ seen[n][e.mnb] # None => PingOfBroadcast(n, e)[e.mnb] = 0
  BY Consts DEF PingOfBroadcast, EntryType

(* A ping is taken by the entry and by its broadcast. *)
LEMMA PingStep ==
  ASSUME ListInv, Unsigned, NEW n \in Node, list[n] # None,
         nFaults' \in Nat, hasVin' \in BOOLEAN,
         status' \in {"INITIAL", "INPUT_TOO_NEW", "NOT_CAPABLE", "STARTED"},
         NEW e \in EntryType, e.mnb = list[n].mnb, e.ping = 0,
         list' = [list EXCEPT ![n] = e],
         NEW old \in EntryType, old.mnb = list[n].mnb,
         seen' = [seen EXCEPT ![n] = PingOfBroadcast(n, old)],
         PingedTogether(n, old), pinged' \subseteq Node,
         NEW taken, NEW new \in SUBSET Message, Send(taken, new),
         \A k \in new : k.type # "mnb"
  PROVE  ListInv'
  <1>1. /\ seen[n] \in [Broadcast -> Known \cup {None}] /\ list[n] \in EntryType
        /\ list[n].ping \in Known
    BY ActiveTypes DEF EntryType
  <1>2. /\ PingOfBroadcast(n, old) \in [Broadcast -> Known \cup {None}]
        /\ seen[n][e.mnb] # None => PingOfBroadcast(n, old)[e.mnb] = 0
    BY <1>1, PingOfBroadcastLemma
  <1>3. /\ e.mnb <= signed
        /\ <<n, e.mnb>> \notin late' => PingOfBroadcast(n, old)[e.mnb] = e.ping
        /\ n # wallet => e.mnb \notin early /\ collateral[n] # "young"
    BY <1>1, <1>2, Consts
    DEF ListInv, OnlySigned, ListedAreConfirmed, ServedIsCurrent, PingedTogether
  <1>4. NetworkOK' /\ \A k \in messages' : k.type = "mnb" => k.mnb <= signed
    <2>1. signed' = signed /\ signed <= signed' /\ signed' \in Nat
      BY ActiveTypes DEF Unsigned, signVars
    <2> QED BY <2>1, NetworkStep
  <1>5. LateKept(n) /\ late' \subseteq Node \X Broadcast
    BY ActiveTypes DEF PingedTogether, LateKept
  <1> QED BY <1>2, <1>3, <1>4, <1>5, UnsignedStep

(* A ping is no broadcast. *)
LEMMA RelayLemma ==
  ASSUME NEW n \in Node
  PROVE  RelayPing(n) \in SUBSET Message /\ \A k \in RelayPing(n) : k.type # "mnb"
  <1>1. Peers(n) \subseteq Node BY DEF Peers
  <1>2. /\ RelayPing(n) \subseteq [type : {"mnp", "dseg"}, from : Node, to : Node, mnb : {None}]
        /\ \A m \in RelayPing(n) : m.type = "mnp"
    BY <1>1 DEF RelayPing
  <1> QED BY <1>2 DEF Message

(* A ping that comes from a peer. *)
LEMMA TakePingKeeps ==
  ASSUME ListInv, NEW n \in Node, NEW m \in messages, NEW busy \in BOOLEAN,
         TakePing(n, m, busy)
  PROVE  ListInv'
  <1> DEFINE e == Check(n, [list[n] EXCEPT !.ping = 0], busy)
             new == IF Enabled(e) THEN RelayPing(n) ELSE {}
  <1>0. /\ TakesPings(list[n]) /\ Send({m}, new)
        /\ pinged' = pinged \cup {n} /\ list' = [list EXCEPT ![n] = e]
        /\ seen' = [seen EXCEPT ![n] = PingOfBroadcast(n, e)]
        /\ CountBusy(busy) /\ PingedTogether(n, e) /\ Unsigned /\ activeVars' = activeVars
    BY DEF TakePing, Unsigned
  <1>1. list[n] # None /\ list[n] \in EntryType
    BY <1>0, ActiveTypes DEF TakesPings, Enabled
  <1>2. e \in EntryType /\ e.mnb = list[n].mnb /\ e.ping = 0
    <2>1. PICK p \in EntryType : /\ p = [list[n] EXCEPT !.ping = 0]
                                 /\ p.mnb = list[n].mnb /\ p.ping = 0
      BY <1>1, PingLemma
    <2> QED BY <2>1, CheckLemma
  <1>3. new \in SUBSET Message /\ \A k \in new : k.type # "mnb"
    <2> HIDE DEF e
    <2>1. new \subseteq RelayPing(n) OBVIOUS
    <2> QED BY <2>1, RelayLemma
  <1>4. /\ hasVin' \in BOOLEAN /\ nFaults' \in Nat /\ pinged' \subseteq Node
        /\ status' \in {"INITIAL", "INPUT_TOO_NEW", "NOT_CAPABLE", "STARTED"}
    BY <1>0, ActiveTypes, BusyLemma DEF activeVars
  <1> HIDE DEF e, new
  <1> QED BY <1>0, <1>1, <1>2, <1>3, <1>4, PingStep

(* dseg: a broadcast that had been forgotten comes back from the entry. *)
LEMMA AnswerDsegKeeps ==
  ASSUME ListInv, NEW n \in Node, NEW m \in messages, AnswerDseg(n, m)
  PROVE  ListInv'
  <1>0. /\ pinged' = pinged /\ list' = list /\ Unsigned
        /\ activeVars' = activeVars /\ nFaults' = nFaults
    BY DEF AnswerDseg, Unsigned
  <1>1. CASE ~Enabled(list[n])
    <2>1. Send({m}, {}) /\ seen' = seen /\ late' = late BY <1>1 DEF AnswerDseg
    <2> QED BY <1>0, <2>1, TakenOnly, ActiveTypes
  <1>2. CASE Enabled(list[n])
    <2> DEFINE e == list[n]
               v == IF seen[n][e.mnb] = None THEN e.ping ELSE seen[n][e.mnb]
               s == [seen[n] EXCEPT ![e.mnb] = v]
    <2>1. /\ Send({m}, Announce(n, e.mnb, {m.from}))
          /\ seen' = [seen EXCEPT ![n][e.mnb] = IF @ = None THEN e.ping ELSE @]
          /\ late' = IF seen[n][e.mnb] = None THEN late \ {<<n, e.mnb>>} ELSE late
      BY <1>2 DEF AnswerDseg
    <2>2. /\ e \in EntryType /\ e # None /\ e.mnb \in Broadcast /\ e.ping \in Known
          /\ seen[n] \in [Broadcast -> Known \cup {None}]
      BY <1>2, ActiveTypes DEF Enabled, EntryType
    <2>3. e.mnb <= signed /\ (<<n, e.mnb>> \notin late => seen[n][e.mnb] = e.ping)
          /\ (n # wallet => e.mnb \notin early /\ collateral[n] # "young")
      BY <2>2 DEF ListInv, OnlySigned, ServedIsCurrent, ListedAreConfirmed
    <2>4. /\ v \in Known \cup {None} /\ s \in [Broadcast -> Known \cup {None}]
          /\ seen' = [seen EXCEPT ![n] = s]
      BY <2>1, <2>2, ActiveTypes
    <2>5. <<n, e.mnb>> \notin late' => s[e.mnb] = e.ping
      BY <2>1, <2>2, <2>3
    <2>6. list' = [list EXCEPT ![n] = e] BY <1>0, ActiveTypes
    <2>7. /\ Announce(n, e.mnb, {m.from}) \in SUBSET Message
          /\ \A k \in Announce(n, e.mnb, {m.from}) : k.type = "mnb" => k.mnb <= signed
      <3>1. {m.from} \in SUBSET Node BY MessageLemma
      <3> QED BY <2>2, <2>3, <3>1, MessagesLemma
    <2>8. NetworkOK' /\ \A k \in messages' : k.type = "mnb" => k.mnb <= signed
      <3>1. signed' = signed /\ signed <= signed' /\ signed' \in Nat
        BY <1>0, ActiveTypes DEF Unsigned, signVars
      <3> QED BY <2>1, <2>7, <3>1, NetworkStep
    <2>9. /\ hasVin' \in BOOLEAN /\ nFaults' \in Nat /\ pinged' \subseteq Node
          /\ status' \in {"INITIAL", "INPUT_TOO_NEW", "NOT_CAPABLE", "STARTED"}
          /\ LateKept(n) /\ late' \subseteq Node \X Broadcast
      BY <1>0, <2>1, ActiveTypes DEF activeVars, LateKept
    <2> HIDE DEF e, s
    <2> QED BY <1>0, <2>2, <2>3, <2>4, <2>5, <2>6, <2>8, <2>9, UnsignedStep
  <1> QED BY <1>1, <1>2

(* Receiving: one of these for each message. *)
LEMMA ReceiveKeeps ==
  ASSUME ListInv, NEW n \in Node, Receive(n)
  PROVE  ListInv'
  <1>1. PICK m \in messages :
           \/ IgnoreMnb(n, m) \/ RefuseOlder(n, m)
           \/ \E busy \in Busy : KeepEntry(n, m, busy) \/ AddEntry(n, m, busy)
           \/ IgnorePing(n, m) \/ AskForMN(n, m) \/ AnswerDseg(n, m)
           \/ \E busy \in Busy : TakePing(n, m, busy)
    BY DEF Receive
  <1>2. Busy \subseteq BOOLEAN BY DEF Busy
  <1>3. ASSUME NEW busy \in Busy, KeepEntry(n, m, busy) \/ AddEntry(n, m, busy)
        PROVE  ListInv'
    BY <1>2, <1>3, KeepEntryKeeps, AddEntryKeeps
  <1>4. ASSUME NEW busy \in Busy, TakePing(n, m, busy) PROVE ListInv'
    BY <1>2, <1>4, TakePingKeeps
  <1> QED BY <1>1, <1>3, <1>4, IgnoreMnbKeeps, RefuseOlderKeeps, IgnorePingKeeps,
             AnswerDsegKeeps

-----------------------------------------------------------------------------
(* Steps that only look at the masternode itself. *)
LEMMA QuietStep ==
  ASSUME ListInv, Unsigned, list' = list, seen' = seen, late' = late, pinged' = pinged,
         messages' = messages, known' = known, cut' = cut,
         nFaults' \in Nat, hasVin' \in BOOLEAN,
         status' \in {"INITIAL", "INPUT_TOO_NEW", "NOT_CAPABLE", "STARTED"}
  PROVE  ListInv'
  <1>1. ActiveOK' /\ EarlyFirst' /\ signed' = signed BY ActiveStep
  <1>2. NetworkOK' /\ \A m \in messages' : m.type = "mnb" => m.mnb <= signed'
    <2>1. NetworkOK /\ \A m \in messages : m.type = "mnb" => m.mnb <= signed
      BY ActiveTypes
    <2> QED BY <2>1, <1>1 DEF NetworkOK
  <1>3. pinged' \subseteq Node BY ActiveTypes
  <1> QED BY <1>1, <1>2, <1>3, SameLists, ListInvParts

(* An entry after Check, when there was one. *)
LEMMA CheckedLemma ==
  ASSUME ListInv, NEW n \in Node, NEW busy \in BOOLEAN, Checked(n, busy) # None
  PROVE  /\ list[n] # None /\ list[n] \in EntryType
         /\ Checked(n, busy) \in EntryType
         /\ Checked(n, busy).mnb = list[n].mnb /\ Checked(n, busy).ping = list[n].ping
         /\ Checked(n, busy).state \notin {"REMOVE", "VIN_SPENT"} => list[n].ping < Removal
  <1>1. list[n] # None BY DEF Checked
  <1>2. list[n] \in EntryType BY <1>1, ActiveTypes
  <1>3. Checked(n, busy) = Check(n, list[n], busy) BY <1>1 DEF Checked
  <1> QED BY <1>1, <1>2, <1>3, CheckLemma

(* Check alone, whatever else the node decides. *)
LEMMA CheckStep ==
  ASSUME ListInv, Unsigned, NEW n \in Node, NEW busy \in BOOLEAN,
         list' = [list EXCEPT ![n] = Checked(n, busy)],
         seen' = seen, late' = late, pinged' = pinged,
         messages' = messages, known' = known, cut' = cut,
         nFaults' \in Nat, hasVin' \in BOOLEAN,
         status' \in {"INITIAL", "INPUT_TOO_NEW", "NOT_CAPABLE", "STARTED"}
  PROVE  ListInv'
  <1> DEFINE e == Checked(n, busy)
  <1>1. e \in EntryType \cup {None} BY CheckedLemma
  <1>2. seen' = [seen EXCEPT ![n] = seen[n]] /\ seen[n] \in [Broadcast -> Known \cup {None}]
    BY ActiveTypes
  <1>3. e # None =>
          /\ e.mnb <= signed
          /\ <<n, e.mnb>> \notin late' => seen[n][e.mnb] = e.ping
          /\ n # wallet => e.mnb \notin early /\ collateral[n] # "young"
    BY CheckedLemma DEF ListInv, OnlySigned, ServedIsCurrent, ListedAreConfirmed
  <1>4. NetworkOK' /\ \A m \in messages' : m.type = "mnb" => m.mnb <= signed
    <2>1. NetworkOK /\ \A m \in messages : m.type = "mnb" => m.mnb <= signed
      BY ActiveTypes
    <2> QED BY <2>1 DEF NetworkOK
  <1>5. pinged' \subseteq Node /\ LateKept(n) /\ late' \subseteq Node \X Broadcast
    BY ActiveTypes DEF LateKept
  <1> HIDE DEF e
  <1> QED BY <1>1, <1>2, <1>3, <1>4, <1>5, UnsignedStep DEF e

(* An entry that CheckAndRemove leaves is served as it was.                 *)
LEMMA RemoveEntryLemma ==
  ASSUME ListInv, NEW n \in Node, NEW e \in EntryType \cup {None}, NEW force \in BOOLEAN,
         e # None => /\ list[n] # None /\ e.mnb = list[n].mnb /\ e.ping = list[n].ping
                     /\ e.state \notin {"REMOVE", "VIN_SPENT"} => e.ping < Removal
  PROVE  LET r == CheckAndRemoveList(n, e, force)
             s == CheckAndRemoveSeen(n, e, force)
         IN  /\ r \in EntryType \cup {None} /\ s \in [Broadcast -> Known \cup {None}]
             /\ r # None =>
                  /\ r.mnb <= signed
                  /\ <<n, r.mnb>> \notin late => s[r.mnb] = r.ping
                  /\ n # wallet => r.mnb \notin early /\ collateral[n] # "young"
  <1> DEFINE r == CheckAndRemoveList(n, e, force)
             s == CheckAndRemoveSeen(n, e, force)
  <1>1. r \in EntryType \cup {None} BY DEF CheckAndRemoveList
  <1>2. seen[n] \in [Broadcast -> Known \cup {None}] BY ActiveTypes
  <1>3. s \in [Broadcast -> Known \cup {None}] BY <1>2 DEF CheckAndRemoveSeen
  <1>4. ASSUME r # None
        PROVE  /\ r.mnb <= signed
               /\ <<n, r.mnb>> \notin late => s[r.mnb] = r.ping
               /\ n # wallet => r.mnb \notin early /\ collateral[n] # "young"
    <2>1. r = e /\ e # None /\ ~Removed(e, force) BY <1>4 DEF CheckAndRemoveList
    <2>2. e.state \notin {"REMOVE", "VIN_SPENT"} BY <2>1 DEF Removed
    <2>3. e \in EntryType /\ e.mnb \in Broadcast /\ e.ping \in Known BY <2>1 DEF EntryType
    <2>4. e.ping < Removal /\ e.ping # OldestSeen
      BY <2>1, <2>2, <2>3, Consts
    <2>5. /\ e.mnb <= signed /\ (n # wallet => e.mnb \notin early /\ collateral[n] # "young")
          /\ <<n, e.mnb>> \notin late => seen[n][e.mnb] = e.ping
      BY <2>1 DEF ListInv, OnlySigned, ServedIsCurrent, ListedAreConfirmed
    <2>6. s[e.mnb] = IF seen[n][e.mnb] = OldestSeen THEN None ELSE seen[n][e.mnb]
      BY <2>1, <2>3 DEF CheckAndRemoveSeen
    <2> QED BY <2>1, <2>4, <2>5, <2>6
  <1> QED BY <1>1, <1>3, <1>4

(* CheckAndRemove removes an entry with all its broadcasts. *)
LEMMA CheckAndRemoveKeeps ==
  ASSUME ListInv, NEW n \in Node, NEW busy \in BOOLEAN, CheckAndRemove(n, busy)
  PROVE  ListInv'
  <1> DEFINE e == Checked(n, busy)
             r == CheckAndRemoveList(n, e, FALSE)
             s == CheckAndRemoveSeen(n, e, FALSE)
  <1>1. /\ list' = [list EXCEPT ![n] = r] /\ seen' = [seen EXCEPT ![n] = s]
        /\ CountBusy(busy) /\ Unsigned /\ pinged' = pinged /\ late' = late
        /\ activeVars' = activeVars /\ netVars' = netVars
    BY DEF CheckAndRemove, Unsigned
  <1>2. e \in EntryType \cup {None} /\
        (e # None => /\ list[n] # None /\ e.mnb = list[n].mnb /\ e.ping = list[n].ping
                     /\ e.state \notin {"REMOVE", "VIN_SPENT"} => e.ping < Removal)
    BY CheckedLemma
  <1> HIDE DEF e
  <1>3. /\ r \in EntryType \cup {None} /\ s \in [Broadcast -> Known \cup {None}]
        /\ r # None =>
             /\ r.mnb <= signed
             /\ <<n, r.mnb>> \notin late => s[r.mnb] = r.ping
             /\ n # wallet => r.mnb \notin early /\ collateral[n] # "young"
    BY <1>2, RemoveEntryLemma
  <1>4. NetworkOK' /\ \A m \in messages' : m.type = "mnb" => m.mnb <= signed
    <2>1. NetworkOK /\ \A m \in messages : m.type = "mnb" => m.mnb <= signed
      BY ActiveTypes
    <2> QED BY <2>1, <1>1 DEF NetworkOK, netVars
  <1>5. /\ hasVin' \in BOOLEAN /\ nFaults' \in Nat /\ pinged' \subseteq Node
        /\ status' \in {"INITIAL", "INPUT_TOO_NEW", "NOT_CAPABLE", "STARTED"}
        /\ LateKept(n) /\ late' \subseteq Node \X Broadcast
    BY <1>1, ActiveTypes, BusyLemma DEF activeVars, LateKept
  <1> HIDE DEF r, s
  <1> QED BY <1>1, <1>3, <1>4, <1>5, UnsignedStep

(* A restart with the saved list, or without after a crash. *)
LEMMA RestartKeeps ==
  ASSUME ListInv, NEW n \in Node, NEW crash \in BOOLEAN, NEW asked \in {{}, Peers(n)},
         Restart(n, crash, asked)
  PROVE  ListInv'
  <1> DEFINE e == IF crash THEN None ELSE Checked(n, FALSE)
             r == CheckAndRemoveList(n, e, TRUE)
             s == IF crash THEN [b \in Broadcast |-> None] ELSE CheckAndRemoveSeen(n, e, TRUE)
  <1>1. /\ list' = [list EXCEPT ![n] = r] /\ seen' = [seen EXCEPT ![n] = s]
        /\ nFaults' = nFaults + 1
        /\ pinged' = (IF crash THEN pinged \ {n} ELSE pinged) /\ late' = late
        /\ messages' = {m \in messages : n \notin {m.from, m.to}} \cup Dseg(n, asked)
        /\ known' = {k \in known : n \notin k[1]} /\ cut' = cut /\ Unsigned
        /\ IF n = Hot THEN status' = "INITIAL" /\ hasVin' = FALSE ELSE UNCHANGED activeVars
    BY DEF Restart, Unsigned
  <1>2. e \in EntryType \cup {None} /\
        (e # None => /\ list[n] # None /\ e.mnb = list[n].mnb /\ e.ping = list[n].ping
                     /\ e.state \notin {"REMOVE", "VIN_SPENT"} => e.ping < Removal)
    <2>1. CASE crash BY <2>1
    <2>2. CASE ~crash
      <3>1. e = Checked(n, FALSE) BY <2>2
      <3> HIDE DEF e
      <3> QED BY <3>1, CheckedLemma
    <2> QED BY <2>1, <2>2
  <1>c. crash => e = None BY DEF e
  <1> HIDE DEF e
  <1>3. /\ r \in EntryType \cup {None} /\ s \in [Broadcast -> Known \cup {None}]
        /\ r # None =>
             /\ r.mnb <= signed
             /\ <<n, r.mnb>> \notin late => s[r.mnb] = r.ping
             /\ n # wallet => r.mnb \notin early /\ collateral[n] # "young"
    <2>1. /\ r \in EntryType \cup {None}
          /\ CheckAndRemoveSeen(n, e, TRUE) \in [Broadcast -> Known \cup {None}]
          /\ r # None =>
               /\ r.mnb <= signed
               /\ <<n, r.mnb>> \notin late => CheckAndRemoveSeen(n, e, TRUE)[r.mnb] = r.ping
               /\ n # wallet => r.mnb \notin early /\ collateral[n] # "young"
      BY <1>2, RemoveEntryLemma
    <2>2. crash => r = None BY <1>c DEF CheckAndRemoveList, Removed
    <2> QED BY <2>1, <2>2
  <1>4. NetworkOK' /\ \A m \in messages' : m.type = "mnb" => m.mnb <= signed
    <2>1. NetworkOK /\ \A m \in messages : m.type = "mnb" => m.mnb <= signed
      BY ActiveTypes
    <2>2. asked \subseteq Node BY DEF Peers
    <2>3. /\ Dseg(n, asked) \subseteq [type : {"mnp", "dseg"}, from : Node, to : Node,
                                       mnb : {None}]
          /\ \A k \in Dseg(n, asked) : k.type = "dseg"
      BY <2>2 DEF Dseg
    <2>4. Dseg(n, asked) \subseteq Message BY <2>3 DEF Message
    <2> QED BY <2>1, <2>3, <2>4, <1>1 DEF NetworkOK
  <1>5. /\ hasVin' \in BOOLEAN /\ nFaults' \in Nat /\ pinged' \subseteq Node
        /\ status' \in {"INITIAL", "INPUT_TOO_NEW", "NOT_CAPABLE", "STARTED"}
        /\ LateKept(n) /\ late' \subseteq Node \X Broadcast
    <2> HIDE DEF r, s
    <2>1. pinged' \subseteq Node BY <1>1, ActiveTypes
    <2>2. nFaults' \in Nat /\ LateKept(n) /\ late' \subseteq Node \X Broadcast
      BY <1>1, ActiveTypes DEF LateKept
    <2>3. /\ hasVin' \in BOOLEAN
          /\ status' \in {"INITIAL", "INPUT_TOO_NEW", "NOT_CAPABLE", "STARTED"}
      BY <1>1, ActiveTypes DEF activeVars
    <2> QED BY <2>1, <2>2, <2>3
  <1> HIDE DEF r, s
  <1> QED BY <1>1, <1>3, <1>4, <1>5, UnsignedStep

-----------------------------------------------------------------------------
(* A new broadcast comes after all others, and is early when they all are.  *)
LEMMA RegisterKeeps ==
  ASSUME ListInv, NEW busy \in BOOLEAN, Register(wallet, {}, busy),
         wallet' = wallet, collateral' = collateral, late' = late,
         nFaults' \in Nat, hasVin' \in BOOLEAN,
         status' \in {"INITIAL", "INPUT_TOO_NEW", "NOT_CAPABLE", "STARTED"}
  PROVE  ListInv'
  <1> DEFINE n == wallet
             b == signed + 1
             old == list[n]
             up == UpdateFromNewBroadcast(old, b, 0)
             e == IF old = None THEN Entry(b, 0)
                  ELSE IF TakesPing(old, 0) THEN Check(n, up, busy) ELSE up
             s == [seen[n] EXCEPT ![b] = 0]
             new == Announce(n, b, Peers(n))
                      \cup (IF old # None /\ TakesPing(old, 0) /\ Enabled(list'[n])
                            THEN RelayPing(n) ELSE {})
  <1>0. /\ signed < MaxBroadcasts /\ signed' = b /\ fresh' = fresh \cup {b}
        /\ early' = IF \A m \in Node : collateral[m] = "young" THEN early \cup {b} ELSE early
        /\ seen' = [seen EXCEPT ![n][b] = 0] /\ pinged' = pinged \cup {n}
        /\ list' = [list EXCEPT ![n] = e] /\ Send({}, new)
    BY DEF Register, CanSign
  <1>1. /\ n \in Node /\ signed \in Nat /\ b \in Nat /\ b \in Broadcast
        /\ old \in EntryType \cup {None} /\ seen[n] \in [Broadcast -> Known \cup {None}]
    BY <1>0, ActiveTypes, MasternodesAssumption DEF Broadcast
  <1>2. s \in [Broadcast -> Known \cup {None}] /\ s[b] = 0 /\ seen' = [seen EXCEPT ![n] = s]
    BY <1>0, <1>1, ActiveTypes, Consts
  <1>3. e \in EntryType /\ e.mnb = b /\ e.ping = 0
    <2>1. CASE old = None BY <2>1, <1>1, EntryLemma, Consts
    <2>2. CASE old # None
      <3>1. old \in EntryType /\ old.ping \in Nat
        BY <2>2, <1>1, Consts DEF EntryType
      <3>2. /\ up \in EntryType /\ up.mnb = b
            /\ up.ping = IF TakesPing(old, 0) THEN 0 ELSE old.ping
        BY <3>1, <1>1, UpdateLemma, Consts
      <3>3. ~TakesPing(old, 0) => old.ping = 0
        BY <3>1, Consts DEF TakesPing
      <3> HIDE DEF up
      <3>4. Check(n, up, busy) \in EntryType /\ Check(n, up, busy).mnb = b
            /\ Check(n, up, busy).ping = up.ping
        BY <3>2, CheckLemma
      <3> QED BY <2>2, <3>2, <3>3, <3>4
    <2> QED BY <2>1, <2>2
  <1>4. /\ early \subseteq 1 .. signed /\ fresh \subseteq 1 .. signed
        /\ EarlyFirst /\ collateral \in [Node -> {"young", "good", "spent"}]
    BY DEF ListInv, TypeOK, ActiveOK
  <1>5. early' \cap (1 .. signed) = early BY <1>0, <1>1, <1>4
  <1>6. ActiveOK'
    <2>1. signed' \in 0 .. MaxBroadcasts BY <1>0, <1>1, MasternodesAssumption
    <2>2. fresh' \subseteq 1 .. signed' /\ early' \subseteq 1 .. signed'
      BY <1>0, <1>1, <1>4
    <2> QED BY <2>1, <2>2, <1>1, <1>4 DEF ActiveOK
  <1>7. EarlyFirst'
    <2>1. CASE \A m \in Node : collateral[m] = "young"
      <3>1. early = 1 .. signed BY <2>1, <1>4 DEF EarlyFirst
      <3>2. early' = early \cup {signed + 1} /\ signed' = signed + 1 BY <2>1, <1>0
      <3>3. 1 .. (signed + 1) = (1 .. signed) \cup {signed + 1} BY <1>1
      <3>4. early' = 1 .. signed' BY <3>1, <3>2, <3>3
      <3> QED BY <3>4 DEF EarlyFirst
    <2>2. CASE ~\A m \in Node : collateral[m] = "young"
      <3>1. early' = early /\ \E m \in Node : collateral'[m] # "young" BY <2>2, <1>0
      <3>2. ASSUME NEW c \in early', NEW d \in (1 .. signed') \ early' PROVE c < d
        <4>1. c \in early /\ c \in 1 .. signed BY <3>1, <1>4
        <4>2. CASE d = b BY <4>1, <4>2, <1>1
        <4>3. CASE d # b
          <5>1. d \in (1 .. signed) \ early BY <4>3, <3>1, <1>0, <1>1
          <5> QED BY <4>1, <5>1, <1>4 DEF EarlyFirst
        <4> QED BY <4>2, <4>3
      <3> QED BY <3>1, <3>2 DEF EarlyFirst
    <2> QED BY <2>1, <2>2
  <1>8. signed' \in Nat /\ signed <= signed' /\ LateKept(n)
        /\ late' \subseteq Node \X Broadcast /\ pinged' \subseteq Node
    BY <1>0, <1>1, ActiveTypes DEF LateKept
  <1>9. NetworkOK' /\ \A k \in messages' : k.type = "mnb" => k.mnb <= signed'
    <2>1. Peers(n) \in SUBSET Node BY DEF Peers
    <2>2. new \subseteq Announce(n, b, Peers(n)) \cup RelayPing(n) OBVIOUS
    <2>3. /\ Announce(n, b, Peers(n)) \subseteq Message
          /\ \A k \in Announce(n, b, Peers(n)) : k.mnb = b
          /\ RelayPing(n) \subseteq Message /\ \A k \in RelayPing(n) : k.type = "mnp"
      BY <1>1, <2>1, MessagesLemma
    <2> HIDE DEF new, b
    <2>4. new \in SUBSET Message /\ \A k \in new : k.type = "mnb" => k.mnb = b
      BY <2>2, <2>3
    <2>5. \A k \in new : k.type = "mnb" => k.mnb <= signed' BY <2>4, <1>0, <1>1
    <2> QED BY <2>4, <2>5, <1>0, <1>8, NetworkStep
  <1>10. /\ e # None /\ e.mnb <= signed' /\ s[e.mnb] = e.ping
    BY <1>0, <1>1, <1>2, <1>3, Consts
  <1> HIDE DEF e, s
  <1>11. /\ ListsOK' /\ ServedIsCurrent' /\ ListedAreConfirmed'
         /\ \A k \in Node : list'[k] # None => list'[k].mnb <= signed'
    BY <1>0, <1>1, <1>2, <1>3, <1>5, <1>8, <1>10, NodeStep
  <1> QED BY <1>6, <1>7, <1>9, <1>11, ListInvParts

(* The operator starts the masternode from another wallet. *)
LEMMA StartAliasKeeps ==
  ASSUME ListInv, NEW busy \in BOOLEAN, StartAlias(busy)
  PROVE  ListInv'
  <1>1. /\ Register(wallet, {}, busy) /\ CountBusy(busy)
        /\ late' = late /\ collateral' = collateral /\ activeVars' = activeVars
        /\ wallet' = wallet
    BY DEF StartAlias
  <1>2. /\ hasVin' \in BOOLEAN /\ nFaults' \in Nat
        /\ status' \in {"INITIAL", "INPUT_TOO_NEW", "NOT_CAPABLE", "STARTED"}
    BY <1>1, ActiveTypes, BusyLemma DEF activeVars
  <1> QED BY <1>1, <1>2, RegisterKeeps

(* The masternode pings, takes over its entry, or registers itself. *)
LEMMA ManageStatusKeeps ==
  ASSUME ListInv, NEW busy \in BOOLEAN, ManageStatus(busy)
  PROVE  ListInv'
  <1>0. collateral' = collateral /\ wallet' = wallet BY DEF ManageStatus
  <1>t. /\ hasVin \in BOOLEAN /\ nFaults \in Nat /\ pinged \subseteq Node /\ Hot \in Node
        /\ status \in {"INITIAL", "INPUT_TOO_NEW", "NOT_CAPABLE", "STARTED"}
        /\ list \in [Node -> EntryType \cup {None}]
    BY ActiveTypes
  <1>r. RelayPing(Hot) \in SUBSET Message /\ \A k \in RelayPing(Hot) : k.type # "mnb"
    BY <1>t, RelayLemma
  <1>1. CASE ManagePing
    <2>1. /\ Unsigned /\ hasVin' \in BOOLEAN /\ nFaults' \in Nat
          /\ status' \in {"INITIAL", "INPUT_TOO_NEW", "NOT_CAPABLE", "STARTED"}
      BY <1>0, <1>1, <1>t DEF ManagePing, SendMasternodePing, Unsigned
    <2>2. CASE list[Hot] # None /\ list[Hot].ping > 0
      <3> DEFINE e == [list[Hot] EXCEPT !.ping = 0]
      <3>1. /\ list' = [list EXCEPT ![Hot].ping = 0]
            /\ seen' = [seen EXCEPT ![Hot] = PingOfBroadcast(Hot, list[Hot])]
            /\ pinged' = pinged \cup {Hot} /\ Send({}, RelayPing(Hot))
            /\ PingedTogether(Hot, list[Hot])
        BY <1>1, <2>2 DEF ManagePing, SendMasternodePing
      <3>2. list[Hot] \in EntryType BY <2>2, <1>t
      <3>3. e \in EntryType /\ e.mnb = list[Hot].mnb /\ e.ping = 0
        BY <3>2, PingLemma
      <3>4. list' = [list EXCEPT ![Hot] = e] BY <3>1, <1>t
      <3>5. pinged' \subseteq Node BY <3>1, <1>t
      <3> HIDE DEF e
      <3> QED BY <1>0, <1>t, <1>r, <2>1, <2>2, <3>1, <3>2, <3>3, <3>4, <3>5, PingStep
    <2>3. CASE ~(list[Hot] # None /\ list[Hot].ping > 0)
      <3>1. UNCHANGED <<list, seen, pinged, netVars, late>>
        BY <1>1, <2>3 DEF ManagePing, SendMasternodePing
      <3> QED BY <3>1, <2>1, <1>0, QuietStep DEF netVars
    <2> QED BY <2>2, <2>3
  <1>2. CASE ManageTakeOver(busy)
    <2> DEFINE e == Checked(Hot, busy)
    <2>1. /\ Enabled(e) /\ status' = "STARTED" /\ hasVin' = TRUE
          /\ CountBusy(busy) /\ Unsigned
      BY <1>0, <1>2 DEF ManageTakeOver, Unsigned
    <2>2. nFaults' \in Nat BY <2>1, <1>t, BusyLemma
    <2>3. e # None BY <2>1 DEF Enabled
    <2>4. /\ list[Hot] # None /\ e \in EntryType /\ e.mnb = list[Hot].mnb
      BY <2>3, <1>t, CheckedLemma
    <2>5. CASE e.ping > 0
      <3> DEFINE p == [e EXCEPT !.ping = 0]
      <3>1. /\ list' = [list EXCEPT ![Hot] = p]
            /\ seen' = [seen EXCEPT ![Hot] = PingOfBroadcast(Hot, e)]
            /\ pinged' = pinged \cup {Hot} /\ Send({}, RelayPing(Hot))
            /\ PingedTogether(Hot, e)
        BY <1>2, <2>5 DEF ManageTakeOver
      <3>2. p \in EntryType /\ p.mnb = e.mnb /\ p.ping = 0 BY <2>4, PingLemma
      <3>3. pinged' \subseteq Node BY <3>1, <1>t
      <3> HIDE DEF e, p
      <3> QED BY <1>0, <1>t, <1>r, <2>1, <2>2, <2>4, <3>1, <3>2, <3>3, PingStep
    <2>6. CASE ~(e.ping > 0)
      <3>1. list' = [list EXCEPT ![Hot] = e] /\ UNCHANGED <<seen, pinged, netVars, late>>
        BY <1>2, <2>6 DEF ManageTakeOver
      <3> QED BY <3>1, <2>1, <2>2, <1>0, <1>t, CheckStep DEF netVars
    <2> QED BY <2>5, <2>6
  <1>3. CASE ManageActivate(busy)
    <2>1. CountBusy(busy) /\ late' = late BY <1>3 DEF ManageActivate
    <2>2. nFaults' \in Nat BY <2>1, <1>t, BusyLemma
    <2>3. CASE Register(Hot, {}, busy) /\ wallet = Hot /\ status' = "STARTED" /\ hasVin' = TRUE
      BY <2>1, <2>2, <2>3, <1>0, RegisterKeeps
    <2>4. CASE /\ ManageNotCapable
               /\ list' = IF status = "INITIAL" THEN [list EXCEPT ![Hot] = Checked(Hot, busy)]
                          ELSE list
      <3>1. /\ Unsigned /\ hasVin' \in BOOLEAN /\ UNCHANGED <<seen, pinged, netVars>>
            /\ status' \in {"INITIAL", "INPUT_TOO_NEW", "NOT_CAPABLE", "STARTED"}
        BY <2>4, <1>0, <1>t DEF ManageNotCapable, Unsigned
      <3>2. CASE status = "INITIAL"
        BY <3>1, <3>2, <2>1, <2>2, <2>4, <1>0, <1>t, CheckStep DEF netVars
      <3>3. CASE status # "INITIAL"
        BY <3>1, <3>3, <2>1, <2>2, <2>4, <1>0, QuietStep DEF netVars
      <3> QED BY <3>2, <3>3
    <2> QED BY <1>3, <2>3, <2>4 DEF ManageActivate
  <1> QED BY <1>1, <1>2, <1>3 DEF ManageStatus

-----------------------------------------------------------------------------
(* Time, the chain and the connections. *)
LEMMA TickKeeps ==
  ASSUME ListInv, Tick
  PROVE  ListInv'
  <1>0. /\ list' = [n \in Node |-> IF list[n] = None THEN None
                                   ELSE [list[n] EXCEPT !.ping = Aged(list[n].ping)]]
        /\ seen' = [n \in Node |-> [b \in Broadcast |-> Aged(seen[n][b])]]
        /\ pinged' = {} /\ fresh' = {} /\ netVars' = netVars
        /\ UNCHANGED <<late, collateral, status, hasVin, wallet, signed, early, nFaults>>
    BY DEF Tick
  <1>1. ASSUME NEW age \in Known \cup {None}
        PROVE  Aged(age) \in Known \cup {None} /\ (age # None => Aged(age) \in Known)
    BY Consts DEF Aged, Known
  <1>2. ASSUME NEW n \in Node, list[n] # None
        PROVE  /\ list'[n] \in EntryType /\ list'[n].mnb = list[n].mnb
               /\ list'[n].ping = Aged(list[n].ping)
    <2>1. list[n] \in EntryType BY <1>2, ActiveTypes
    <2>2. Aged(list[n].ping) \in Known BY <2>1, <1>1, Consts DEF EntryType
    <2>3. list'[n] = [list[n] EXCEPT !.ping = Aged(list[n].ping)] BY <1>0, <1>2
    <2> QED BY <2>1, <2>2, <2>3 DEF EntryType
  <1>3. \A n \in Node : list[n] = None => list'[n] = None BY <1>0
  <1>4. ListsOK'
    <2>1. list' \in [Node -> EntryType \cup {None}] BY <1>0, <1>2, <1>3
    <2>2. seen' \in [Node -> [Broadcast -> Known \cup {None}]]
      BY <1>0, <1>1, ActiveTypes
    <2> QED BY <2>1, <2>2, <1>0, ActiveTypes DEF ListsOK
  <1>5. NetworkOK' BY <1>0, ActiveTypes DEF NetworkOK, netVars
  <1>6. ActiveOK' BY <1>0 DEF ListInv, TypeOK, ActiveOK
  <1>7. ServedIsCurrent'
    <2> SUFFICES ASSUME NEW n \in Node, list'[n] # None, <<n, list'[n].mnb>> \notin late'
                 PROVE  seen'[n][list'[n].mnb] = list'[n].ping
      BY DEF ServedIsCurrent
    <2>1. list[n] # None BY <1>3
    <2>2. list[n] \in EntryType /\ list[n].mnb \in Broadcast
      BY <2>1, ActiveTypes DEF EntryType
    <2>3. list'[n].mnb = list[n].mnb /\ list'[n].ping = Aged(list[n].ping) BY <2>1, <1>2
    <2>4. seen[n][list[n].mnb] = list[n].ping
      BY <2>1, <2>3, <1>0 DEF ListInv, ServedIsCurrent
    <2> QED BY <2>2, <2>3, <2>4, <1>0
  <1>8. EarlyFirst' BY <1>0 DEF ListInv, EarlyFirst
  <1>9. ListedAreConfirmed'
    BY <1>0, <1>2, <1>3 DEF ListInv, ListedAreConfirmed
  <1>10. \A k \in Node : list'[k] # None => list'[k].mnb <= signed'
    BY <1>0, <1>2, <1>3 DEF ListInv, OnlySigned
  <1>11. \A m \in messages' : m.type = "mnb" => m.mnb <= signed'
    BY <1>0 DEF netVars, ListInv, OnlySigned
  <1> QED BY <1>4, <1>5, <1>6, <1>7, <1>8, <1>9, <1>10, <1>11, ListInvParts

(* A collateral never becomes young again. *)
LEMMA CollateralKeeps ==
  ASSUME ListInv, NEW n \in Node, CollateralConfirmed(n) \/ CollateralSpent(n)
  PROVE  ListInv'
  <1>1. /\ UNCHANGED <<list, seen, pinged, netVars, late, activeVars, wallet, signVars, nFaults>>
        /\ \E c \in {"good", "spent"} : collateral' = [collateral EXCEPT ![n] = c]
    BY DEF CollateralConfirmed, CollateralSpent
  <1>2. TypeOK /\ EarlyFirst /\ ListedAreConfirmed /\ ServedIsCurrent /\ OnlySigned
    BY DEF ListInv
  <1>3. collateral' \in [Node -> {"young", "good", "spent"}]
        /\ \A m \in Node : collateral[m] # "young" => collateral'[m] # "young"
    BY <1>1, <1>2 DEF TypeOK, ActiveOK
  <1>4. TypeOK'
    BY <1>1, <1>2, <1>3
    DEF TypeOK, ListsOK, NetworkOK, ActiveOK, netVars, activeVars, signVars
  <1>5. EarlyFirst' BY <1>1, <1>2, <1>3 DEF EarlyFirst, signVars
  <1>6. ListedAreConfirmed' BY <1>1, <1>2, <1>3 DEF ListedAreConfirmed, signVars
  <1>7. ServedIsCurrent' /\ OnlySigned'
    BY <1>1, <1>2 DEF ServedIsCurrent, OnlySigned, netVars, signVars
  <1> QED BY <1>4, <1>5, <1>6, <1>7 DEF ListInv

(* Lost connections lose messages and nothing else. *)
LEMMA ConnectionsKeep ==
  ASSUME ListInv,
         (\E n \in Node : CutOff(n) \/ Reconnect(n)) \/ KnownForgotten
  PROVE  ListInv'
  <1>1. /\ UNCHANGED <<list, seen, pinged, late, collateral, activeVars, wallet, signVars>>
        /\ messages' \subseteq messages /\ known' \subseteq known
        /\ cut' \subseteq cut \cup Node /\ nFaults' \in {nFaults, nFaults + 1}
    BY DEF CutOff, Reconnect, KnownForgotten, WithoutNode
  <1>2. ListsOK /\ NetworkOK /\ ActiveOK BY DEF ListInv, TypeOK
  <1>3. ListsOK' /\ ActiveOK'
    BY <1>1, <1>2 DEF ListsOK, ActiveOK, activeVars, signVars
  <1>4. NetworkOK' BY <1>1, <1>2 DEF NetworkOK
  <1>5. OnlySigned' /\ ServedIsCurrent' /\ EarlyFirst' /\ ListedAreConfirmed'
    BY <1>1 DEF ListInv, OnlySigned, ServedIsCurrent, EarlyFirst, ListedAreConfirmed, signVars
  <1> QED BY <1>3, <1>4, <1>5 DEF ListInv, TypeOK

(* At the start nothing is listed and nothing signed. *)
LEMMA InitOK == Init => ListInv
  <1> SUFFICES ASSUME Init PROVE ListInv OBVIOUS
  <1>1. /\ list = [n \in Node |-> None] /\ seen = [n \in Node |-> [b \in Broadcast |-> None]]
        /\ messages = {} /\ early = {} /\ signed = 0
    BY DEF Init
  <1>2. ListsOK BY <1>1 DEF Init, ListsOK
  <1>3. NetworkOK BY DEF Init, NetworkOK
  <1>4. ActiveOK
    <2>1. /\ collateral \in [Node -> {"young", "good", "spent"}] /\ status = "INITIAL"
          /\ hasVin = FALSE /\ wallet \in Node
          /\ signed = 0 /\ fresh = {} /\ early = {} /\ nFaults = 0
      BY MasternodesAssumption DEF Init
    <2>2. signed \in 0 .. MaxBroadcasts BY <2>1, MasternodesAssumption
    <2> QED BY <2>1, <2>2 DEF ActiveOK
  <1>5. OnlySigned /\ ServedIsCurrent /\ ListedAreConfirmed
    BY <1>1 DEF OnlySigned, ServedIsCurrent, ListedAreConfirmed
  <1>6. EarlyFirst
    <2>1. 1 .. signed = {} BY <1>1
    <2> QED BY <1>1, <2>1 DEF EarlyFirst
  <1> QED BY <1>2, <1>3, <1>4, <1>5, <1>6 DEF ListInv, TypeOK

(* ListInv is an invariant of the masternode list. *)
LEMMA ListInvariance == Spec => []ListInv
  <1>1. ListInv /\ [Next]_vars => ListInv'
    <2> SUFFICES ASSUME ListInv, [Next]_vars PROVE ListInv' OBVIOUS
    <2>b. Busy \subseteq BOOLEAN BY DEF Busy
    <2>1. CASE UNCHANGED vars
      <3>1. /\ list' = list /\ seen' = seen /\ pinged' = pinged /\ late' = late
            /\ messages' = messages /\ known' = known /\ cut' = cut /\ Unsigned
            /\ hasVin' = hasVin /\ status' = status /\ nFaults' = nFaults
        BY <2>1 DEF vars, netVars, activeVars, Unsigned
      <3> QED BY <3>1, ActiveTypes, QuietStep
    <2>2. CASE Work
      <3>1. ASSUME NEW busy \in Busy, NEW n \in Node, CheckAndRemove(n, busy) PROVE ListInv'
        BY <3>1, <2>b, CheckAndRemoveKeeps
      <3>2. ASSUME NEW busy \in Busy, ManageStatus(busy) PROVE ListInv'
        BY <3>2, <2>b, ManageStatusKeeps
      <3> QED BY <2>2, <3>1, <3>2, ReceiveKeeps, TickKeeps DEF Work
    <2>3. ASSUME NEW busy \in Busy, StartAlias(busy) PROVE ListInv'
      BY <2>3, <2>b, StartAliasKeeps
    <2>4. ASSUME NEW n \in Node, NEW crash \in BOOLEAN, NEW asked \in {{}, Peers(n)},
                 Restart(n, crash, asked)
          PROVE  ListInv'
      BY <2>4, RestartKeeps
    <2> QED BY <2>1, <2>2, <2>3, <2>4, CollateralKeeps, ConnectionsKeep DEF Next
  <1> QED BY <1>1, InitOK, PTL DEF Spec

(* The lists, the broadcasts seen, the messages on the way and the state of *)
(* the masternode keep their types (masternodeman.cpp, activemasternode.cpp). *)
THEOREM TypeCorrect == Spec => []TypeOK
  BY ListInvariance, PTL DEF ListInv

(* For any number of broadcasts, outages, restarts and failed locks, what a *)
(* node serves carries the ping of its list, unless it took a newer         *)
(* broadcast without its ping (masternode.cpp:141 and 766).  *)
THEOREM ServedCorrect == Spec => []ServedIsCurrent
  BY ListInvariance, PTL DEF ListInv

(* No path, that of a new broadcast for a listed masternode included, gets  *)
(* a masternode into the list of a node whose chain does not have its       *)
(* collateral deep enough, or with a broadcast older than that              *)
(* (CMasternodeBroadcast::CheckAndUpdate and CheckInputsAndAdd).            *)
THEOREM ListedCorrect == Spec => []ListedAreConfirmed
  BY ListInvariance, PTL DEF ListInv

=============================================================================
