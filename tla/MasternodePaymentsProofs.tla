--------------------- MODULE MasternodePaymentsProofs ----------------------
(* Proofs about MasternodePayments, for any nodes, masternodes, ranks and    *)
(* heights.  The symbols that count: a set of votes, what each node and each *)
(* saved file says of it, and the voters a vote comes from.                  *)
EXTENDS MasternodePayments, FiniteSetTheorems, TLAPS

Candidate == Payee \cup {NoPayee}

VotesFor(S, h, p) == {v \in S : v.height = h /\ v.payee = p}

(* A tally that is the number of votes for each payee. *)
Counts(S, t) == \A h \in Height, p \in Candidate : t[h][p] = Cardinality(VotesFor(S, h, p))

Tallies == [Height -> [Candidate -> Nat]]

PaymentsTypeOK ==
    /\ votes \in [Node -> SUBSET Vote]
    /\ tally \in [Node -> Tallies]
    /\ saved \in [Node -> [votes : SUBSET Vote, tally : Tallies]]
    /\ height \in [Node -> Height]
    /\ sent \subseteq Vote
    /\ nLastBlockHeight \in [Masternode -> Nat]
    /\ revoters \subseteq Masternode

TalliesCount ==
    \A n \in Node : /\ IsFiniteSet(votes[n]) /\ Counts(votes[n], tally[n])
                    /\ IsFiniteSet(saved[n].votes) /\ Counts(saved[n].votes, saved[n].tally)

KnownWereSent == \A n \in Node : votes[n] \subseteq sent /\ saved[n].votes \subseteq sent

(* A vote for a block is the only one of its voter for the height, unless    *)
(* the voter has forgotten that it voted.                                    *)
VotedBefore == \A v \in sent : v.mn \notin revoters => v.height <= nLastBlockHeight[v.mn]

OneVoteEach ==
    \A v, w \in sent : v.mn = w.mn /\ v.height = w.height /\ v.height # 0 /\ v.mn \notin revoters
                          => v = w

VoteInv == VotedBefore /\ OneVoteEach

IInv == PaymentsTypeOK /\ TalliesCount /\ KnownWereSent /\ VoteInv

USE QuorumAssumption, HeightAssumption

-----------------------------------------------------------------------------
(* Counting. *)
LEMMA VotesForFinite ==
    ASSUME NEW S, IsFiniteSet(S), NEW h, NEW p
    PROVE  /\ IsFiniteSet(VotesFor(S, h, p))
           /\ Cardinality(VotesFor(S, h, p)) \in Nat
<1>1. VotesFor(S, h, p) \in SUBSET S
  BY DEF VotesFor
<1> QED
  BY <1>1, FS_Subset, FS_CardinalityType

(* One more for one payee of one height. *)
OneMoreVote(t, a, b) == [t EXCEPT ![a][b] = @ + 1]

(* One more is one more for that payee, and for no other. *)
LEMMA OneMore ==
    ASSUME NEW t \in Tallies, NEW a \in Height, NEW b \in Candidate
    PROVE  /\ OneMoreVote(t, a, b) \in Tallies
           /\ OneMoreVote(t, a, b)[a][b] = t[a][b] + 1
           /\ \A h \in Height, p \in Candidate :
                 ~(h = a /\ p = b) => OneMoreVote(t, a, b)[h][p] = t[h][p]
BY DEF OneMoreVote, Tallies

(* A new vote makes one more for its payee, and none for another. *)
LEMMA CountOneMore ==
    ASSUME NEW S \in SUBSET Vote, IsFiniteSet(S), NEW t \in Tallies, Counts(S, t),
           NEW v \in Vote, v \notin S
    PROVE  LET u == OneMoreVote(t, v.height, v.payee)
           IN  u \in Tallies /\ IsFiniteSet(S \cup {v}) /\ Counts(S \cup {v}, u)
<1> DEFINE u == OneMoreVote(t, v.height, v.payee)
<1>1. v.height \in Height /\ v.payee \in Candidate
  BY DEF Vote, Candidate
<1>2. /\ u \in Tallies
      /\ u[v.height][v.payee] = t[v.height][v.payee] + 1
      /\ \A h \in Height, p \in Candidate : ~(h = v.height /\ p = v.payee) => u[h][p] = t[h][p]
  BY <1>1, OneMore, Zenon
<1> HIDE DEF u
<1>3. IsFiniteSet(S \cup {v})
  BY FS_AddElement
<1>4. ASSUME NEW h \in Height, NEW p \in Candidate
      PROVE  u[h][p] = Cardinality(VotesFor(S \cup {v}, h, p))
  <2>1. t[h][p] = Cardinality(VotesFor(S, h, p))
    BY DEF Counts
  <2>2. CASE v.height = h /\ v.payee = p
    <3>1. VotesFor(S \cup {v}, h, p) = VotesFor(S, h, p) \cup {v} /\ v \notin VotesFor(S, h, p)
      BY <2>2 DEF VotesFor
    <3>2. IsFiniteSet(VotesFor(S, h, p))
      BY VotesForFinite
    <3>3. Cardinality(VotesFor(S, h, p) \cup {v}) = Cardinality(VotesFor(S, h, p)) + 1
      BY <3>1, <3>2, FS_AddElement
    <3>4. u[h][p] = t[h][p] + 1
      BY <1>2, <2>2, Zenon
    <3> QED
      BY <2>1, <3>1, <3>3, <3>4, Zenon
  <2>3. CASE ~(v.height = h /\ v.payee = p)
    <3>1. VotesFor(S \cup {v}, h, p) = VotesFor(S, h, p)
      BY <2>3 DEF VotesFor
    <3>2. u[h][p] = t[h][p]
      BY <1>2, <2>3, Zenon
    <3> QED
      BY <2>1, <3>1, <3>2, Zenon
  <2> QED
    BY <2>2, <2>3
<1>5. Counts(S \cup {v}, u)
  BY <1>4, Zenon DEF Counts
<1> QED
  BY <1>2, <1>3, <1>5, Zenon DEF u

(* Where there are no votes, the tally is empty. *)
LEMMA NothingCounts == NoTally \in Tallies /\ Counts({}, NoTally)
<1>1. \A h, p : VotesFor({}, h, p) = {}
  BY DEF VotesFor
<1>2. \A h \in Height, p \in Candidate : NoTally[h][p] = 0
  BY DEF NoTally, Candidate
<1>3. NoTally \in Tallies
  BY DEF NoTally, Tallies, Candidate
<1> QED
  BY <1>1, <1>2, <1>3, FS_EmptySet, Zenon DEF Counts

(* Cleaning keeps the counts: the votes of a height are all old, or none is. *)
LEMMA CleaningCounts ==
    ASSUME NEW data \in [votes : SUBSET Vote, tally : Tallies],
           IsFiniteSet(data.votes), Counts(data.votes, data.tally), NEW nHeight \in Height
    PROVE  LET new == Cleaned(data, nHeight)
           IN  /\ new \in [votes : SUBSET Vote, tally : Tallies]
               /\ new.votes \subseteq data.votes
               /\ IsFiniteSet(new.votes)
               /\ Counts(new.votes, new.tally)
<1> DEFINE old == {v \in data.votes : Old(v, nHeight)}
           new == Cleaned(data, nHeight)
<1>1. new.votes = data.votes \ old
  BY DEF Cleaned
<1>2. \A h \in Height : new.tally[h] = IF \E v \in old : v.height = h THEN NoTally[h] ELSE data.tally[h]
  BY DEF Cleaned
<1>3. new \in [votes : SUBSET Vote, tally : Tallies]
  BY NothingCounts DEF Cleaned, Tallies
<1>4. IsFiniteSet(new.votes)
  <2>1. IsFiniteSet(data.votes \ old)
    <3> HIDE DEF old
    <3> QED
      BY FS_Difference
  <2> HIDE DEF old, new
  <2> QED
    BY <1>1, <2>1
<1>5. ASSUME NEW h \in Height, NEW p \in Candidate
      PROVE  new.tally[h][p] = Cardinality(VotesFor(new.votes, h, p))
  <2>1. CASE \E v \in old : v.height = h
    <3>1. VotesFor(new.votes, h, p) = {}
      BY <1>1, <2>1 DEF VotesFor, Old
    <3>2. new.tally[h][p] = 0
      BY <1>2, <2>1, <1>5 DEF NoTally, Candidate
    <3> QED
      BY <3>1, <3>2, FS_EmptySet, Zenon
  <2>2. CASE ~\E v \in old : v.height = h
    <3>1. VotesFor(new.votes, h, p) = VotesFor(data.votes, h, p)
      BY <1>1, <2>2 DEF VotesFor
    <3>2. new.tally[h][p] = data.tally[h][p]
      BY <1>2, <2>2
    <3> QED
      BY <3>1, <3>2, Zenon DEF Counts
  <2> QED
    BY <2>1, <2>2
<1>6. new.votes \subseteq data.votes
  BY <1>1
<1>7. Counts(new.votes, new.tally)
  BY <1>5, Zenon DEF Counts
<1> HIDE DEF old
<1> QED
  BY <1>3, <1>4, <1>6, <1>7, Zenon

-----------------------------------------------------------------------------
(* What the steps do to a node's votes. *)
DataInv == PaymentsTypeOK /\ TalliesCount /\ KnownWereSent

(* AddWinningMasternode adds the vote to the votes and to their count. *)
LEMMA AddKeepsCounts ==
    ASSUME PaymentsTypeOK, TalliesCount, NEW n \in Node, NEW v \in Vote, AddWinningMasternode(n, v)
    PROVE  /\ votes' \in [Node -> SUBSET Vote] /\ tally' \in [Node -> Tallies]
           /\ \A k \in Node : IsFiniteSet(votes'[k]) /\ Counts(votes'[k], tally'[k])
           /\ \A k \in Node : votes'[k] \subseteq votes[k] \cup {v}
<1> DEFINE u == OneMoreVote(tally[n], v.height, v.payee)
<1>1. v \notin votes[n] /\ votes' = [votes EXCEPT ![n] = votes[n] \cup {v}]
  BY DEF AddWinningMasternode, IsNew
<1>2. tally' = [tally EXCEPT ![n] = u]
  BY DEF AddWinningMasternode, OneMoreVote, PaymentsTypeOK
<1>3. /\ votes[n] \in SUBSET Vote /\ tally[n] \in Tallies
      /\ IsFiniteSet(votes[n]) /\ Counts(votes[n], tally[n])
  BY DEF PaymentsTypeOK, TalliesCount
<1>4. u \in Tallies /\ IsFiniteSet(votes[n] \cup {v}) /\ Counts(votes[n] \cup {v}, u)
  BY <1>1, <1>3, CountOneMore, Zenon
<1> HIDE DEF u
<1>5. votes' \in [Node -> SUBSET Vote] /\ tally' \in [Node -> Tallies]
  BY <1>1, <1>2, <1>4 DEF PaymentsTypeOK
<1>6. ASSUME NEW k \in Node
      PROVE  /\ IsFiniteSet(votes'[k]) /\ Counts(votes'[k], tally'[k])
             /\ votes'[k] \subseteq votes[k] \cup {v}
  <2>1. CASE k = n
    <3>1. votes'[k] = votes[n] \cup {v} /\ tally'[k] = u
      BY <1>1, <1>2, <2>1 DEF PaymentsTypeOK
    <3> QED
      BY <1>4, <2>1, <3>1
  <2>2. CASE k # n
    <3>1. votes'[k] = votes[k] /\ tally'[k] = tally[k]
      BY <1>1, <1>2, <2>2 DEF PaymentsTypeOK
    <3> QED
      BY <3>1 DEF TalliesCount
  <2> QED
    BY <2>1, <2>2
<1> QED
  BY <1>5, <1>6

(* What is read from the file counts right when what was saved did. *)
LEMMA LoadKeepsCounts ==
    ASSUME PaymentsTypeOK, TalliesCount, NEW n \in Node,
           NEW data \in [votes : SUBSET Vote, tally : Tallies],
           IsFiniteSet(data.votes), Counts(data.votes, data.tally), Load(n, data)
    PROVE  /\ votes' \in [Node -> SUBSET Vote] /\ tally' \in [Node -> Tallies]
           /\ \A k \in Node : IsFiniteSet(votes'[k]) /\ Counts(votes'[k], tally'[k])
           /\ \A k \in Node : votes'[k] \subseteq votes[k] \cup data.votes
<1>1. votes' = [votes EXCEPT ![n] = data.votes] /\ tally' = [tally EXCEPT ![n] = data.tally]
  BY DEF Load
<1>2. votes' \in [Node -> SUBSET Vote] /\ tally' \in [Node -> Tallies]
  BY <1>1 DEF PaymentsTypeOK
<1>3. ASSUME NEW k \in Node
      PROVE  /\ IsFiniteSet(votes'[k]) /\ Counts(votes'[k], tally'[k])
             /\ votes'[k] \subseteq votes[k] \cup data.votes
  <2>1. CASE k = n
    <3>1. votes'[k] = data.votes /\ tally'[k] = data.tally
      BY <1>1, <2>1 DEF PaymentsTypeOK
    <3> QED
      BY <3>1
  <2>2. CASE k # n
    <3>1. votes'[k] = votes[k] /\ tally'[k] = tally[k]
      BY <1>1, <2>2 DEF PaymentsTypeOK
    <3> QED
      BY <3>1 DEF TalliesCount
  <2> QED
    BY <2>1, <2>2
<1> QED
  BY <1>2, <1>3

(* What a node has and what it saved are such data. *)
LEMMA DataCounts ==
    ASSUME DataInv, NEW n \in Node
    PROVE  /\ Payments(n) \in [votes : SUBSET Vote, tally : Tallies]
           /\ IsFiniteSet(Payments(n).votes) /\ Counts(Payments(n).votes, Payments(n).tally)
           /\ Payments(n).votes = votes[n]
           /\ saved[n] \in [votes : SUBSET Vote, tally : Tallies]
           /\ IsFiniteSet(saved[n].votes) /\ Counts(saved[n].votes, saved[n].tally)
BY DEF DataInv, PaymentsTypeOK, TalliesCount, Payments

(* What ProcessBlock signs is a vote. *)
LEMMA NewWinnerIsVote ==
    ASSUME NEW m \in Masternode, NEW h \in Height, NEW p \in Payee
    PROVE  NewWinner(m, h, p) \in Vote
BY HeightAssumption DEF NewWinner, Vote

(* Every step keeps the votes and their tallies together. *)
LEMMA DataStep ==
    ASSUME DataInv, [PaymentsNext]_paymentVars
    PROVE  DataInv'
<1> USE DEF DataInv
<1>1. ASSUME NEW m \in Masternode, NEW h \in Height, NEW p \in Payee, ProcessBlock(m, h, p)
      PROVE  DataInv'
  <2> DEFINE v == NewWinner(m, h, p)
  <2>1. v \in Vote
    BY NewWinnerIsVote
  <2> HIDE DEF v
  <2>2. UNCHANGED <<saved, height, revoters>> /\ sent' = sent \cup {v}
        /\ nLastBlockHeight' = [nLastBlockHeight EXCEPT ![m] = h]
    BY <1>1 DEF ProcessBlock, v
  <2>3. CASE m \in Node
    <3>1. AddWinningMasternode(m, v)
      BY <1>1, <2>3 DEF ProcessBlock, v
    <3>2. /\ votes' \in [Node -> SUBSET Vote] /\ tally' \in [Node -> Tallies]
          /\ \A k \in Node : IsFiniteSet(votes'[k]) /\ Counts(votes'[k], tally'[k])
          /\ \A k \in Node : votes'[k] \subseteq votes[k] \cup {v}
      BY <2>1, <2>3, <3>1, AddKeepsCounts
    <3>3. PaymentsTypeOK'
      BY <2>1, <2>2, <3>2, HeightAssumption DEF PaymentsTypeOK
    <3>4. TalliesCount'
      BY <2>2, <3>2 DEF TalliesCount
    <3>5. KnownWereSent'
      BY <2>2, <3>2 DEF KnownWereSent
    <3> QED
      BY <3>3, <3>4, <3>5
  <2>4. CASE m \notin Node
    <3>1. UNCHANGED <<votes, tally>>
      BY <1>1, <2>4 DEF ProcessBlock
    <3> QED
      BY <2>1, <2>2, <3>1, HeightAssumption DEF PaymentsTypeOK, TalliesCount, KnownWereSent
  <2> QED
    BY <2>3, <2>4
<1>2. ASSUME NEW n \in Node, NEW v \in sent, ReceiveVote(n, v)
      PROVE  DataInv'
  <2>1. UNCHANGED <<saved, height, sent, nLastBlockHeight, revoters>> /\ v \in Vote
    BY <1>2 DEF ReceiveVote, PaymentsTypeOK
  <2>2. CASE AddWinningMasternode(n, v)
    <3>1. /\ votes' \in [Node -> SUBSET Vote] /\ tally' \in [Node -> Tallies]
          /\ \A k \in Node : IsFiniteSet(votes'[k]) /\ Counts(votes'[k], tally'[k])
          /\ \A k \in Node : votes'[k] \subseteq votes[k] \cup {v}
      BY <2>1, <2>2, AddKeepsCounts
    <3>2. PaymentsTypeOK' /\ TalliesCount'
      BY <2>1, <3>1 DEF PaymentsTypeOK, TalliesCount
    <3>3. KnownWereSent'
      BY <2>1, <3>1 DEF KnownWereSent
    <3> QED
      BY <3>2, <3>3
  <2>3. CASE UNCHANGED <<votes, tally>>
    BY <2>1, <2>3 DEF PaymentsTypeOK, TalliesCount, KnownWereSent
  <2> QED
    BY <1>2, <2>2, <2>3 DEF ReceiveVote
<1>3. ASSUME NEW n \in Node, UpdatedBlockTip(n)
      PROVE  DataInv'
  BY <1>3 DEF UpdatedBlockTip, PaymentsTypeOK, TalliesCount, KnownWereSent
<1>4. ASSUME NEW n \in Node, Forget(n)
      PROVE  nLastBlockHeight' \in [Masternode -> Nat] /\ revoters' \subseteq Masternode
  BY <1>4 DEF Forget, PaymentsTypeOK
<1>5. ASSUME NEW n \in Node, NEW nHeight \in Height, NEW data \in {Payments(n), saved[n]},
             Load(n, Cleaned(data, nHeight)), height' \in [Node -> Height], sent' = sent,
             saved' = saved \/ saved' = [saved EXCEPT ![n] = Payments(n)],
             nLastBlockHeight' \in [Masternode -> Nat], revoters' \subseteq Masternode
      PROVE  DataInv'
  <2> DEFINE new == Cleaned(data, nHeight)
  <2>1. /\ data \in [votes : SUBSET Vote, tally : Tallies]
        /\ IsFiniteSet(data.votes) /\ Counts(data.votes, data.tally)
        /\ data.votes \subseteq sent
    BY <1>5, DataCounts DEF KnownWereSent
  <2>2. /\ new \in [votes : SUBSET Vote, tally : Tallies]
        /\ new.votes \subseteq data.votes
        /\ IsFiniteSet(new.votes) /\ Counts(new.votes, new.tally)
    BY <2>1, CleaningCounts, Zenon
  <2> HIDE DEF new
  <2>3. Load(n, new)
    BY <1>5 DEF new
  <2>4. /\ votes' \in [Node -> SUBSET Vote] /\ tally' \in [Node -> Tallies]
        /\ \A k \in Node : IsFiniteSet(votes'[k]) /\ Counts(votes'[k], tally'[k])
        /\ \A k \in Node : votes'[k] \subseteq votes[k] \cup new.votes
    BY <2>2, <2>3, LoadKeepsCounts
  <2>5. ASSUME NEW k \in Node
        PROVE  /\ saved'[k] \in [votes : SUBSET Vote, tally : Tallies]
               /\ IsFiniteSet(saved'[k].votes) /\ Counts(saved'[k].votes, saved'[k].tally)
               /\ saved'[k].votes \subseteq sent
    <3>1. saved'[k] = saved[k] \/ (saved'[k] = Payments(k))
      BY <1>5 DEF PaymentsTypeOK
    <3> QED
      BY <3>1, DataCounts DEF KnownWereSent
  <2>6. saved' \in [Node -> [votes : SUBSET Vote, tally : Tallies]]
    BY <1>5, DataCounts DEF PaymentsTypeOK
  <2>7. PaymentsTypeOK'
    BY <1>5, <2>4, <2>6 DEF PaymentsTypeOK
  <2>8. TalliesCount'
    BY <2>4, <2>5 DEF TalliesCount
  <2>9. KnownWereSent'
    BY <1>5, <2>1, <2>2, <2>4, <2>5 DEF KnownWereSent
  <2> QED
    BY <2>7, <2>8, <2>9
<1>6. ASSUME NEW n \in Node, CleanPaymentList(n)
      PROVE  DataInv'
  <2>1. height[n] \in Height /\ Load(n, Cleaned(Payments(n), height[n]))
    BY <1>6 DEF CleanPaymentList, PaymentsTypeOK
  <2>2. /\ height' \in [Node -> Height] /\ sent' = sent /\ saved' = saved
        /\ nLastBlockHeight' \in [Masternode -> Nat] /\ revoters' \subseteq Masternode
    BY <1>6 DEF CleanPaymentList, PaymentsTypeOK
  <2> QED
    BY <1>5, <2>1, <2>2
<1>7. ASSUME NEW n \in Node, Restart(n)
      PROVE  DataInv'
  <2>1. height[n] \in Height /\ Load(n, Cleaned(Payments(n), height[n]))
    BY <1>7 DEF Restart, PaymentsTypeOK
  <2>2. height' \in [Node -> Height] /\ sent' = sent /\ saved' = [saved EXCEPT ![n] = Payments(n)]
    BY <1>7 DEF Restart, PaymentsTypeOK
  <2>3. nLastBlockHeight' \in [Masternode -> Nat] /\ revoters' \subseteq Masternode
    BY <1>4, <1>7 DEF Restart
  <2> QED
    BY <1>5, <2>1, <2>2, <2>3
<1>8. ASSUME NEW n \in Node, Crash(n)
      PROVE  DataInv'
  <2>1. PICK nHeight \in Height : height' = [height EXCEPT ![n] = nHeight]
                                  /\ Load(n, Cleaned(saved[n], nHeight))
    BY <1>8 DEF Crash
  <2>2. height' \in [Node -> Height] /\ sent' = sent /\ saved' = saved
    BY <1>8, <2>1 DEF Crash, PaymentsTypeOK
  <2>3. nLastBlockHeight' \in [Masternode -> Nat] /\ revoters' \subseteq Masternode
    BY <1>4, <1>8 DEF Crash
  <2> QED
    BY <1>5, <2>1, <2>2, <2>3
<1>9. ASSUME NEW m \in Masternode, RestartMasternode(m)
      PROVE  DataInv'
  BY <1>9 DEF RestartMasternode, PaymentsTypeOK, TalliesCount, KnownWereSent
<1>10. CASE UNCHANGED paymentVars
  BY <1>10 DEF paymentVars, PaymentsTypeOK, TalliesCount, KnownWereSent
<1> QED
  BY <1>1, <1>2, <1>3, <1>6, <1>7, <1>8, <1>9, <1>10 DEF PaymentsNext

-----------------------------------------------------------------------------
(* Who has voted for what. *)
LEMMA SetsOfMasternodesFinite ==
    ASSUME NEW S \in SUBSET Masternode
    PROVE  IsFiniteSet(S) /\ Cardinality(S) \in Nat
BY QuorumAssumption, FS_Subset, FS_CardinalityType

(* A process that starts has forgotten, and is one of the revoters. *)
LEMMA ForgettingKeepsVotes ==
    ASSUME DataInv, VoteInv, sent' = sent, NEW S \in SUBSET Masternode,
           revoters' = revoters \cup S,
           \A m \in Masternode \ S : nLastBlockHeight'[m] = nLastBlockHeight[m]
    PROVE  VoteInv'
<1>1. \A v \in sent : v.mn \in Masternode
  BY DEF DataInv, PaymentsTypeOK, Vote
<1>2. VotedBefore'
  BY <1>1 DEF VoteInv, VotedBefore
<1>3. OneVoteEach'
  BY DEF VoteInv, OneVoteEach
<1> QED
  BY <1>2, <1>3 DEF VoteInv

(* Every step keeps it that a masternode that remembers votes once. *)
LEMMA VoteStep ==
    ASSUME DataInv, VoteInv, [PaymentsNext]_paymentVars
    PROVE  VoteInv'
<1>1. \A v \in sent : v.mn \in Masternode /\ v.height \in Nat
  BY HeightAssumption DEF DataInv, PaymentsTypeOK, Vote
<1>2. ASSUME NEW m \in Masternode, NEW h \in Height, NEW p \in Payee, ProcessBlock(m, h, p)
      PROVE  VoteInv'
  <2>1. PICK v \in Vote : v = NewWinner(m, h, p)
    BY NewWinnerIsVote
  <2>2. v.mn = m /\ (v.height = 0 \/ v.height = h) /\ h \in Nat /\ nLastBlockHeight[m] \in Nat
    BY <2>1, HeightAssumption DEF NewWinner, DataInv, PaymentsTypeOK
  <2>3. h > nLastBlockHeight[m] /\ revoters' = revoters
        /\ sent' = sent \cup {v} /\ nLastBlockHeight' = [nLastBlockHeight EXCEPT ![m] = h]
    BY <1>2, <2>1 DEF ProcessBlock, IsLater
  <2>4. nLastBlockHeight'[m] = h
        /\ \A k \in Masternode : k # m => nLastBlockHeight'[k] = nLastBlockHeight[k]
    BY <2>3 DEF DataInv, PaymentsTypeOK
  <2>6. ASSUME NEW w \in sent, w.mn \notin revoters
        PROVE  w.height <= nLastBlockHeight'[w.mn] /\ (w.mn = m => w.height < h)
    <3>1. w.height <= nLastBlockHeight[w.mn] /\ w.height \in Nat /\ w.mn \in Masternode
      BY <1>1, <2>6 DEF VoteInv, VotedBefore
    <3>2. CASE w.mn = m
      BY <2>2, <2>3, <2>4, <3>1, <3>2
    <3>3. CASE w.mn # m
      BY <2>4, <3>1, <3>3
    <3> QED
      BY <3>2, <3>3
  <2>7. VotedBefore'
    BY <2>2, <2>3, <2>4, <2>6 DEF VotedBefore
  <2>8. ASSUME NEW w \in sent, w.mn = v.mn, w.height = v.height, v.height # 0, w.mn \notin revoters
        PROVE  FALSE
    BY <1>1, <2>2, <2>6, <2>8
  <2>9. OneVoteEach'
    BY <2>3, <2>8 DEF VoteInv, OneVoteEach
  <2> QED
    BY <2>7, <2>9 DEF VoteInv
<1>3. ASSUME NEW n \in Node, Forget(n), sent' = sent
      PROVE  VoteInv'
  <2> DEFINE S == {n} \cap Masternode
  <2>1. revoters' = revoters \cup S /\ S \in SUBSET Masternode
    BY <1>3 DEF Forget
  <2>2. \A m \in Masternode \ S : nLastBlockHeight'[m] = nLastBlockHeight[m]
    BY <1>3 DEF Forget
  <2> HIDE DEF S
  <2> QED
    BY <1>3, <2>1, <2>2, ForgettingKeepsVotes
<1>4. ASSUME NEW m \in Masternode, RestartMasternode(m)
      PROVE  VoteInv'
  <2>1. /\ revoters' = revoters \cup {m} /\ sent' = sent
        /\ \A k \in Masternode \ {m} : nLastBlockHeight'[k] = nLastBlockHeight[k]
    BY <1>4 DEF RestartMasternode, DataInv, PaymentsTypeOK
  <2> DEFINE S == {m}
  <2>2. S \in SUBSET Masternode /\ \A k \in Masternode \ S : nLastBlockHeight'[k] = nLastBlockHeight[k]
    BY <2>1
  <2>3. revoters' = revoters \cup S /\ sent' = sent
    BY <2>1
  <2> HIDE DEF S
  <2> QED
    BY <2>2, <2>3, ForgettingKeepsVotes
<1>5. ASSUME UNCHANGED <<sent, nLastBlockHeight, revoters>>
      PROVE  VoteInv'
  BY <1>5 DEF VoteInv, VotedBefore, OneVoteEach
<1> QED
  <2>1. ASSUME NEW n \in Node, (\E v \in sent : ReceiveVote(n, v)) \/ UpdatedBlockTip(n) \/ CleanPaymentList(n)
        PROVE  VoteInv'
    BY <1>5, <2>1 DEF ReceiveVote, UpdatedBlockTip, CleanPaymentList
  <2>2. ASSUME NEW n \in Node, Restart(n) \/ Crash(n)
        PROVE  VoteInv'
    BY <1>3, <2>2 DEF Restart, Crash
  <2>3. CASE UNCHANGED paymentVars
    BY <1>5, <2>3 DEF paymentVars
  <2> QED
    BY <1>2, <1>4, <2>1, <2>2, <2>3 DEF PaymentsNext

-----------------------------------------------------------------------------
(* The voters of a payee at a node are as many as its votes. *)
VotersAt(n, h, p) == {m \in Masternode : [mn |-> m, height |-> h, payee |-> p] \in votes[n]}

(* Each vote for a payee is of another masternode. *)
LEMMA VotersAreVotes ==
    ASSUME IInv, NEW n \in Node, NEW h \in Height \ {0}, NEW p \in Candidate
    PROVE  /\ IsFiniteSet(VotersAt(n, h, p))
           /\ Cardinality(VotersAt(n, h, p)) = tally[n][h][p]
<1> DEFINE S == VotesFor(votes[n], h, p)
           A == VotersAt(n, h, p)
           f == [v \in S |-> v.mn]
<1>1. /\ IsFiniteSet(votes[n]) /\ Counts(votes[n], tally[n])
      /\ votes[n] \subseteq sent /\ votes[n] \subseteq Vote
  BY DEF IInv, TalliesCount, KnownWereSent, PaymentsTypeOK
<1>2. IsFiniteSet(S) /\ Cardinality(S) = tally[n][h][p]
  BY <1>1, VotesForFinite DEF Counts
<1>3. ASSUME NEW v \in S
      PROVE  v.mn \in A /\ v = [mn |-> v.mn, height |-> h, payee |-> p]
  <2>1. v \in Vote /\ v \in sent /\ v \in votes[n] /\ v.height = h /\ v.payee = p
    BY <1>1 DEF VotesFor
  <2>2. v = [mn |-> v.mn, height |-> h, payee |-> p]
    BY <2>1 DEF Vote
  <2>3. v.mn \in Masternode
    BY <2>1 DEF Vote
  <2> QED
    BY <2>1, <2>2, <2>3 DEF VotersAt
<1>4. ASSUME NEW m \in A
      PROVE  \E v \in S : v.mn = m
  BY DEF VotersAt, VotesFor
<1>5. f \in Surjection(S, A)
  <2>1. f \in [S -> A]
    BY <1>3
  <2>2. \A m \in A : \E v \in S : f[v] = m
    BY <1>4
  <2> HIDE DEF S, A, f
  <2> QED
    BY <2>1, <2>2 DEF Surjection
<1>6. f \in Injection(S, A)
  <2>1. f \in [S -> A]
    BY <1>3
  <2>2. ASSUME NEW v \in S, NEW w \in S, f[v] = f[w]
        PROVE  v = w
    <3>1. v.mn = w.mn
      BY <2>2
    <3> QED
      BY <1>3, <3>1
  <2> HIDE DEF S, A, f
  <2> QED
    BY <2>1, <2>2 DEF Injection, IsInjective
<1> HIDE DEF S, A, f
<1>7. IsFiniteSet(A) /\ Cardinality(A) = Cardinality(S)
  BY <1>2, <1>5, <1>6, FS_Surjection
<1> QED
  BY <1>2, <1>7 DEF A

(* They have voted for the height, and those for two payees forgot a vote. *)
LEMMA VotersOfTwoAreRevoters ==
    ASSUME IInv, NEW a \in Node, NEW b \in Node, NEW h \in Height \ {0},
           NEW p \in Candidate, NEW q \in Candidate, p # q
    PROVE  /\ VotersAt(a, h, p) \cup VotersAt(b, h, q) \subseteq Voters(h)
           /\ VotersAt(a, h, p) \cap VotersAt(b, h, q) \subseteq Voters(h) \cap revoters
<1>1. ASSUME NEW n \in Node, NEW r \in Candidate, NEW m \in VotersAt(n, h, r)
      PROVE  m \in Voters(h)
  <2>1. PICK v \in sent : v = [mn |-> m, height |-> h, payee |-> r]
    BY <1>1 DEF VotersAt, IInv, KnownWereSent
  <2> QED
    BY <1>1, <2>1 DEF VotersAt, Voters
<1>2. ASSUME NEW m \in VotersAt(a, h, p) \cap VotersAt(b, h, q), m \notin revoters
      PROVE  FALSE
  <2>1. PICK v \in sent : v = [mn |-> m, height |-> h, payee |-> p]
    BY <1>2 DEF VotersAt, IInv, KnownWereSent
  <2>2. PICK w \in sent : w = [mn |-> m, height |-> h, payee |-> q]
    BY <1>2 DEF VotersAt, IInv, KnownWereSent
  <2>3. v.mn = w.mn /\ v.height = w.height /\ v.height # 0 /\ v.mn \notin revoters /\ v.payee # w.payee
    BY <1>2, <2>1, <2>2
  <2> QED
    BY <2>3 DEF IInv, VoteInv, OneVoteEach
<1> QED
  BY <1>1, <1>2

(* Two payees with enough votes at two nodes have as many voters together    *)
(* as their votes, less those counted twice, who forgot that they voted.     *)
LEMMA QuorumsAgree ==
    ASSUME IInv
    PROVE  PayeesAgree
<1> SUFFICES ASSUME NEW a \in Node, NEW b \in Node, NEW h \in Height \ {0},
                    NEW p \in Candidate, NEW q \in Candidate,
                    Requires(a, h, p), Requires(b, h, q), p # q
             PROVE  Cardinality(Voters(h)) + Cardinality(Voters(h) \cap revoters) >= 2 * Required
  BY DEF PayeesAgree, Candidate
<1> DEFINE A == VotersAt(a, h, p)
           B == VotersAt(b, h, q)
           V == Voters(h)
           R == Voters(h) \cap revoters
<1>1. IsFiniteSet(A) /\ Cardinality(A) >= Required /\ IsFiniteSet(B) /\ Cardinality(B) >= Required
  BY VotersAreVotes DEF Requires
<1>2. A \cup B \in SUBSET V /\ A \cap B \in SUBSET R
  BY VotersOfTwoAreRevoters
<1>3. V \in SUBSET Masternode /\ R \in SUBSET Masternode
  BY DEF Voters
<1> HIDE DEF A, B, V, R
<1>4. /\ IsFiniteSet(V) /\ Cardinality(V) \in Nat
      /\ IsFiniteSet(R) /\ Cardinality(R) \in Nat
  BY <1>3, SetsOfMasternodesFinite
<1>5. Cardinality(A \cup B) <= Cardinality(V) /\ IsFiniteSet(A \cup B)
  BY <1>2, <1>4, FS_Subset
<1>6. Cardinality(A \cap B) <= Cardinality(R) /\ IsFiniteSet(A \cap B)
  BY <1>2, <1>4, FS_Subset
<1>7. Cardinality(A \cup B) = Cardinality(A) + Cardinality(B) - Cardinality(A \cap B)
  BY <1>1, FS_Union
<1>8. /\ Cardinality(A) \in Nat /\ Cardinality(B) \in Nat
      /\ Cardinality(A \cup B) \in Nat /\ Cardinality(A \cap B) \in Nat
  BY <1>1, <1>5, <1>6, FS_CardinalityType
<1> DEFINE ca == Cardinality(A)
           cb == Cardinality(B)
           all == Cardinality(A \cup B)
           both == Cardinality(A \cap B)
           voters == Cardinality(V)
           forgot == Cardinality(R)
<1>9. /\ all <= voters /\ both <= forgot /\ all = ca + cb - both
      /\ ca >= Required /\ cb >= Required
      /\ ca \in Nat /\ cb \in Nat /\ all \in Nat /\ both \in Nat /\ voters \in Nat /\ forgot \in Nat
  BY <1>1, <1>4, <1>5, <1>6, <1>7, <1>8, Zenon
<1> HIDE DEF ca, cb, all, both, voters, forgot
<1>10. voters + forgot >= 2 * Required
  BY <1>9, QuorumAssumption
<1> QED
  BY <1>10 DEF voters, forgot, V, R

-----------------------------------------------------------------------------
(* A network without votes. *)
LEMMA InitInvariant ==
    ASSUME PaymentsInit
    PROVE  IInv
<1>1. PaymentsTypeOK
  BY NothingCounts, HeightAssumption DEF PaymentsInit, PaymentsTypeOK, NoPayments
<1>2. TalliesCount
  BY NothingCounts, FS_EmptySet DEF PaymentsInit, TalliesCount, NoPayments
<1>3. KnownWereSent
  BY DEF PaymentsInit, KnownWereSent, NoPayments
<1>4. VoteInv
  BY DEF PaymentsInit, VoteInv, VotedBefore, OneVoteEach
<1> QED
  BY <1>1, <1>2, <1>3, <1>4 DEF IInv

(* Every step keeps all of it. *)
LEMMA InvariantHolds == PaymentsSpec => []IInv
<1>1. IInv /\ [PaymentsNext]_paymentVars => IInv'
  BY DataStep, VoteStep DEF IInv, DataInv
<1> QED
  BY <1>1, InitInvariant, PTL DEF PaymentsSpec

(* Votes, tallies, files and heights keep their types. *)
THEOREM TypeCorrect == PaymentsSpec => []PaymentsTypeOK
<1>1. IInv => PaymentsTypeOK
  BY DEF IInv
<1> QED
  BY <1>1, InvariantHolds, PTL

(* The tally of a height is the number of the votes that are kept for it,    *)
(* after any cleaning, saving, crash and repetition of a vote.               *)
THEOREM TalliesAreVotes == PaymentsSpec => []TallyIsVotes
<1>1. IInv => TallyIsVotes
  BY DEF IInv, TalliesCount, Counts, VotesFor, TallyIsVotes, Candidate
<1> QED
  BY <1>1, InvariantHolds, PTL

(* Two nodes require different payees for a height only if its voters, and   *)
(* again those of them that forgot, are twice the quorum: for any number of  *)
(* masternodes, any ranks, any quorum and any restarts.                      *)
THEOREM NodesAgreeOnPayee == PaymentsSpec => []PayeesAgree
<1>1. IInv => PayeesAgree
  BY QuorumsAgree
<1> QED
  BY <1>1, InvariantHolds, PTL

=============================================================================
