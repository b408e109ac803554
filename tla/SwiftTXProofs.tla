--------------------------- MODULE SwiftTXProofs ---------------------------
(* Proofs about SwiftTX, for any number of transactions, masternodes and   *)
(* heights.  How the votes are summed up plays no part: all that the       *)
(* proofs use of CountSignatures is that a lock without a height is not    *)
(* complete.                                                               *)
EXTENDS SwiftTX, TLAPS

(* A vote that is counted is remembered, and its lock is there: so a vote  *)
(* that FirstSeen lets through has not been counted.                       *)
CountedIsSeen ==
    \A t \in Tx, m \in Masternode : \A h \in VoteHeight :
        votes[t][<<m, h>>] > 0 => <<m, t>> \in voteSeen /\ t \in locked

(* Only CreateNewLock gives a lock its height, when the request is seen.   *)
HeightIsRequested ==
    \A t \in Tx :
        height[t] # 0 => t \in locked /\ t \in (request \ blank) \cup refused

(* operator[] makes empty requests only of refused ones.                   *)
BlankIsRefused == blank \subseteq refused

(* AcceptedInputsHaveLock, and the request is not an empty one: Clean will *)
(* find the inputs in it.                                                  *)
AcceptedInputsAreFreed ==
    \A o \in Outpoint :
        lockedBy[o] # None /\ lockedBy[o] \notin everRefused =>
            /\ o \in Inputs[lockedBy[o]]
            /\ lockedBy[o] \in locked \cap (request \ blank)

LockInv ==
    /\ CountedIsSeen
    /\ OneVoteEach
    /\ HeightIsRequested
    /\ BlankIsRefused
    /\ AcceptedInputsAreFreed

IInv == TypeOK /\ LockInv

USE InputsAssumption, SelfAssumption, OwnAssumption, HeightAssumption,
    RequiredAssumption, NoneAssumption

-----------------------------------------------------------------------------
(* Lemmas about the operators. *)

(* Vote heights are naturals. *)
LEMMA NumbersAreNat == VoteHeight \subseteq Nat /\ 0 \in VoteHeight
BY DEF VoteHeight

(* A lock starts with no vote counted. *)
LEMMA NoVotesType ==
    /\ NoVotes \in [Masternode \X VoteHeight -> Nat]
    /\ \A m \in Masternode, h \in VoteHeight : NoVotes[<<m, h>>] = 0
BY DEF NoVotes

(* CountSignatures is -1 without a height. *)
LEMMA CompleteHasHeight ==
    ASSUME NEW t \in Tx, NEW vs, NEW hs, Complete(t, vs, hs)
    PROVE  hs[t] # 0
BY DEF Complete, CountSignatures

(* Taking inputs keeps mapLockedInputs a map to transactions. *)
LEMMA TakenType ==
    ASSUME NEW t \in Tx, NEW by \in [Outpoint -> Tx \cup {None}]
    PROVE  /\ Taken(t, by) \in [Outpoint -> Tx \cup {None}]
           /\ \A o \in Outpoint :
                /\ by[o] # None => Taken(t, by)[o] = by[o]
                /\ Taken(t, by)[o] \notin {by[o], None} =>
                      o \in Inputs[t] /\ Taken(t, by)[o] = t
BY DEF Taken

(* An input locked to another transaction has an owner. *)
LEMMA LockedOutType ==
    ASSUME NEW t \in Tx, NEW by \in [Outpoint -> Tx \cup {None}],
           NEW o \in LockedOut(t, by)
    PROVE  by[o] \in Tx
BY DEF LockedOut

(* CreateNewLock keeps mapTxLocks a map of locks. *)
LEMMA CreateNewLockType ==
    ASSUME TypeOK, NEW t \in Tx, NEW h \in VoteHeight, CreateNewLock(t, h)
    PROVE  /\ locked' \subseteq Tx /\ locked \subseteq locked'
           /\ height' \in [Tx -> VoteHeight]
           /\ \A u \in Tx : height'[u] # height[u] => u = t /\ t \in locked'
BY DEF CreateNewLock, TypeOK

(* Cancelling expires only locks that are there. *)
LEMMA CancelType ==
    ASSUME NEW t \in Tx, NEW by, Cancel(t, by), expired \subseteq locked',
           locked' \subseteq Tx
    PROVE  expired' \subseteq locked'
BY DEF Cancel

(* ReprocessBlocks moves transactions between chain and mempool. *)
LEMMA ReplayedType ==
    ASSUME NEW by, Replayed(by), TypeOK
    PROVE  mempool' \subseteq Tx /\ chain' \subseteq Tx
BY DEF Replayed, TypeOK

(* What a vote adds to a lock, in the terms of LockInv. *)
LEMMA VoteAddedInv ==
    ASSUME IInv, NEW m \in Masternode, NEW t \in Tx, NEW h \in VoteHeight,
           VoteAdded(m, t, h)
    PROVE  /\ voteSeen' \subseteq Masternode \X Tx
           /\ locked' \subseteq Tx /\ locked \subseteq locked' /\ t \in locked'
           /\ height' = height
           /\ votes' \in [Tx -> [Masternode \X VoteHeight -> Nat]]
           /\ CountedIsSeen'
           /\ OneVoteEach'
<1> USE NumbersAreNat
<1>1. voteSeen' = voteSeen \cup {<<m, t>>} /\ <<m, t>> \notin voteSeen
  BY DEF VoteAdded, FirstSeen
<1>2. locked' = locked \cup {t}
  BY DEF VoteAdded
<1>3. height' = height
  <2>1. t \notin locked => height[t] = 0
    BY DEF IInv, LockInv, HeightIsRequested
  <2> QED BY <2>1 DEF VoteAdded, HeightOfNewLock, IInv, TypeOK
<1>4. votes \in [Tx -> [Masternode \X VoteHeight -> Nat]]
  BY DEF IInv, TypeOK
<1>5. votes' = [votes EXCEPT ![t] = [votes[t] EXCEPT ![<<m, h>>] = votes[t][<<m, h>>] + 1]]
  BY <1>4 DEF VoteAdded
<1>6. votes' \in [Tx -> [Masternode \X VoteHeight -> Nat]]
  <2>1. votes[t] \in [Masternode \X VoteHeight -> Nat]
    BY <1>4
  <2>2. votes[t][<<m, h>>] + 1 \in Nat
    BY <2>1
  <2>3. [votes[t] EXCEPT ![<<m, h>>] = votes[t][<<m, h>>] + 1] \in [Masternode \X VoteHeight -> Nat]
    BY <2>1, <2>2
  <2> QED BY <1>4, <1>5, <2>3
<1>7. \A k \in VoteHeight : votes[t][<<m, k>>] = 0
  <2>1. \A k \in VoteHeight : ~(votes[t][<<m, k>>] > 0)
    BY <1>1 DEF IInv, LockInv, CountedIsSeen
  <2>2. \A k \in VoteHeight : votes[t][<<m, k>>] \in Nat
    BY <1>4
  <2> QED BY <2>1, <2>2
<1>8. \A u \in Tx, n \in Masternode : \A k \in VoteHeight :
         votes'[u][<<n, k>>] = IF u = t /\ n = m /\ k = h THEN 1
                               ELSE votes[u][<<n, k>>]
  <2> TAKE u \in Tx, n \in Masternode
  <2> TAKE k \in VoteHeight
  <2>1. CASE u # t
    BY <1>4, <1>5, <2>1
  <2>2. CASE u = t
    <3>1. votes'[t] = [votes[t] EXCEPT ![<<m, h>>] = 1]
      <4>1. votes[t][<<m, h>>] + 1 = 1
        BY <1>7
      <4> QED BY <1>4, <1>5, <4>1
    <3>2. votes[t] \in [Masternode \X VoteHeight -> Nat]
      BY <1>4
    <3> QED BY <2>2, <3>1, <3>2
  <2> QED BY <2>1, <2>2
<1>9. CountedIsSeen'
  <2> SUFFICES ASSUME NEW u \in Tx, NEW n \in Masternode, NEW k \in VoteHeight,
                      votes'[u][<<n, k>>] > 0
               PROVE  <<n, u>> \in voteSeen' /\ u \in locked'
    BY DEF CountedIsSeen, VoteHeight
  <2>1. CASE u = t /\ n = m
    BY <1>1, <1>2, <2>1
  <2>2. CASE ~(u = t /\ n = m)
    <3>1. votes[u][<<n, k>>] > 0
      BY <1>8, <2>2
    <3>2. <<n, u>> \in voteSeen /\ u \in locked
      BY <3>1 DEF IInv, LockInv, CountedIsSeen
    <3> QED BY <1>1, <1>2, <3>2
  <2> QED BY <2>1, <2>2
<1>10. OneVoteEach'
  <2> SUFFICES ASSUME NEW u \in Tx, NEW n \in Masternode,
                      NEW k \in VoteHeight, NEW l \in VoteHeight
               PROVE  /\ votes'[u][<<n, k>>] <= 1
                      /\ votes'[u][<<n, k>>] = 1 /\ votes'[u][<<n, l>>] = 1 => k = l
    BY DEF OneVoteEach, VoteHeight
  <2>1. /\ votes[u][<<n, k>>] <= 1
        /\ votes[u][<<n, k>>] = 1 /\ votes[u][<<n, l>>] = 1 => k = l
    BY DEF IInv, LockInv, OneVoteEach
  <2>2. CASE u = t /\ n = m
    <3>1. votes'[u][<<n, k>>] = IF k = h THEN 1 ELSE 0
      BY <1>7, <1>8, <2>2
    <3>2. votes'[u][<<n, l>>] = IF l = h THEN 1 ELSE 0
      BY <1>7, <1>8, <2>2
    <3> QED BY <3>1, <3>2
  <2>3. CASE ~(u = t /\ n = m)
    BY <1>8, <2>1, <2>3
  <2> QED BY <2>2, <2>3
<1>11. voteSeen' \subseteq Masternode \X Tx
  BY <1>1 DEF IInv, TypeOK
<1>12. locked' \subseteq Tx /\ locked \subseteq locked' /\ t \in locked'
  BY <1>2 DEF IInv, TypeOK
<1> QED BY <1>3, <1>6, <1>9, <1>10, <1>11, <1>12

(* What a handler that adds no vote to a lock leaves true of the votes.    *)
LEMMA VotesKept ==
    ASSUME IInv, UNCHANGED votes, voteSeen \subseteq voteSeen', locked \subseteq locked'
    PROVE  CountedIsSeen' /\ OneVoteEach'
<1>1. CountedIsSeen'
  <2> SUFFICES ASSUME NEW t \in Tx, NEW m \in Masternode, NEW h \in VoteHeight,
                      votes[t][<<m, h>>] > 0
               PROVE  <<m, t>> \in voteSeen' /\ t \in locked'
    BY DEF CountedIsSeen, VoteHeight
  <2>1. <<m, t>> \in voteSeen /\ t \in locked
    BY DEF IInv, LockInv, CountedIsSeen
  <2> QED BY <2>1
<1>2. OneVoteEach'
  BY DEF IInv, LockInv, OneVoteEach, VoteHeight
<1> QED BY <1>1, <1>2

(* CreateNewLock for a request that is known from now on.                  *)
LEMMA HeightGiven ==
    ASSUME IInv, NEW t \in Tx, NEW h \in VoteHeight, CreateNewLock(t, h),
           t \in (request' \ blank') \cup refused',
           (request \ blank) \cup refused \subseteq (request' \ blank') \cup refused'
    PROVE  HeightIsRequested'
<1> SUFFICES ASSUME NEW u \in Tx, height'[u] # 0
             PROVE  u \in locked' /\ u \in (request' \ blank') \cup refused'
  BY DEF HeightIsRequested
<1>1. locked \subseteq locked' /\ (height'[u] # height[u] => u = t /\ t \in locked')
  BY CreateNewLockType DEF IInv
<1>2. CASE height'[u] # height[u]
  BY <1>1, <1>2
<1>3. CASE height'[u] = height[u]
  BY <1>1, <1>3 DEF IInv, LockInv, HeightIsRequested
<1> QED BY <1>2, <1>3

(* A handler that takes no input, and forgets neither locks nor requests.  *)
LEMMA InputsKept ==
    ASSUME IInv, UNCHANGED lockedBy, everRefused \subseteq everRefused',
           locked \subseteq locked', request \ blank \subseteq request' \ blank'
    PROVE  AcceptedInputsAreFreed'
BY DEF IInv, LockInv, AcceptedInputsAreFreed

(* A handler that takes the inputs of t.                                   *)
LEMMA InputsTaken ==
    ASSUME IInv, NEW t \in Tx, lockedBy' = Taken(t, lockedBy),
           everRefused \subseteq everRefused',
           locked \subseteq locked', request \ blank \subseteq request' \ blank',
           t \in everRefused' \/ t \in locked' \cap (request' \ blank')
    PROVE  AcceptedInputsAreFreed'
<1> SUFFICES ASSUME NEW o \in Outpoint, lockedBy'[o] # None,
                    lockedBy'[o] \notin everRefused'
             PROVE  /\ o \in Inputs[lockedBy'[o]]
                    /\ lockedBy'[o] \in locked' \cap (request' \ blank')
  BY DEF AcceptedInputsAreFreed
<1>1. lockedBy'[o] # lockedBy[o] => o \in Inputs[t] /\ lockedBy'[o] = t
  BY TakenType DEF IInv, TypeOK
<1>2. CASE lockedBy'[o] = lockedBy[o]
  <2>1. /\ o \in Inputs[lockedBy[o]]
        /\ lockedBy[o] \in locked \cap (request \ blank)
    BY <1>2 DEF IInv, LockInv, AcceptedInputsAreFreed
  <2> QED BY <1>2, <2>1
<1>3. CASE lockedBy'[o] # lockedBy[o]
  BY <1>1, <1>3
<1> QED BY <1>2, <1>3

-----------------------------------------------------------------------------
(* The invariant holds at first and is kept by every action. *)

(* Empty maps satisfy the inductive invariant, *)
LEMMA EmptyInv ==
    ASSUME request = {}, blank = {}, refused = {}, voteSeen = {}, locked = {},
           expired = {}, height = [t \in Tx |-> 0], votes = [t \in Tx |-> NoVotes],
           lockedBy = [o \in Outpoint |-> None], mempool \subseteq Tx,
           chain \subseteq Tx, everRefused = {}
    PROVE  IInv
<1>1. TypeOK
  <2>1. height \in [Tx -> VoteHeight]
    BY NumbersAreNat
  <2>2. votes \in [Tx -> [Masternode \X VoteHeight -> Nat]]
    BY NoVotesType
  <2> QED BY <2>1, <2>2 DEF TypeOK
<1>2. \A t \in Tx, m \in Masternode : \A h \in VoteHeight : votes[t][<<m, h>>] = 0
  BY NoVotesType
<1>3. CountedIsSeen
  BY <1>2 DEF CountedIsSeen
<1>4. OneVoteEach
  BY <1>2 DEF OneVoteEach
<1>5. HeightIsRequested /\ BlankIsRefused /\ AcceptedInputsAreFreed
  BY DEF HeightIsRequested, BlankIsRefused, AcceptedInputsAreFreed
<1> QED BY <1>1, <1>3, <1>4, <1>5 DEF IInv, LockInv

(* so the initial state does, *)
LEMMA InitInv == Init => IInv
BY EmptyInv DEF Init

(* and the state after a restart. *)
LEMMA RestartInv ==
    ASSUME IInv, Restart
    PROVE  IInv'
<1>1. chain' \subseteq Tx /\ mempool' \subseteq Tx
  BY DEF Restart, Restarted, IInv, TypeOK
<1>2. TypeOK'
  <2>1. height' \in [Tx -> VoteHeight]
    BY NumbersAreNat DEF Restart, Restarted
  <2>2. votes' \in [Tx -> [Masternode \X VoteHeight -> Nat]]
    BY NoVotesType DEF Restart, Restarted
  <2>3. /\ request' = {} /\ blank' = {} /\ refused' = {} /\ voteSeen' = {}
        /\ locked' = {} /\ expired' = {} /\ everRefused' = {}
        /\ lockedBy' \in [Outpoint -> Tx \cup {None}]
    BY DEF Restart, Restarted
  <2>4. VoteHeight' = VoteHeight
    BY DEF VoteHeight
  <2> QED BY <1>1, <2>1, <2>2, <2>3, <2>4 DEF TypeOK
<1>3. \A t \in Tx, m \in Masternode : \A h \in VoteHeight : votes'[t][<<m, h>>] = 0
  BY NoVotesType DEF Restart, Restarted
<1>4. CountedIsSeen'
  BY <1>3 DEF CountedIsSeen, VoteHeight
<1>5. OneVoteEach'
  BY <1>3 DEF OneVoteEach, VoteHeight
<1>6. HeightIsRequested' /\ BlankIsRefused' /\ AcceptedInputsAreFreed'
  BY DEF Restart, Restarted, HeightIsRequested, BlankIsRefused, AcceptedInputsAreFreed
<1> QED BY <1>2, <1>4, <1>5, <1>6 DEF IInv, LockInv

(* An accepted request keeps the invariant. *)
LEMMA IxAcceptedInv ==
    ASSUME IInv, NEW t \in Tx, IxAccepted(t)
    PROVE  IInv'
<1>1. PICK h \in VoteHeight : CreateNewLock(t, h)
  BY DEF IxAccepted
<1>2. /\ locked' \subseteq Tx /\ locked \subseteq locked'
      /\ height' \in [Tx -> VoteHeight]
  BY <1>1, CreateNewLockType DEF IInv
<1>3. voteSeen \subseteq voteSeen' /\ voteSeen' \subseteq Masternode \X Tx
  BY DEF IxAccepted, IInv, TypeOK
<1>4. TypeOK'
  BY <1>2, <1>3 DEF IxAccepted, IInv, TypeOK, VoteHeight
<1>5. request' = request \cup {t} /\ t \notin blank
  BY DEF IxAccepted, IInv, TypeOK
<1>6. HeightIsRequested'
  BY <1>1, <1>5, HeightGiven DEF IxAccepted
<1>7. CountedIsSeen' /\ OneVoteEach'
  BY <1>2, <1>3, VotesKept DEF IxAccepted
<1>8. AcceptedInputsAreFreed'
  BY <1>2, <1>5, InputsKept DEF IxAccepted
<1>9. BlankIsRefused'
  BY DEF IxAccepted, IInv, LockInv, BlankIsRefused
<1> QED BY <1>4, <1>6, <1>7, <1>8, <1>9 DEF IInv, LockInv

(* A refused request keeps it: what it locks counts as refused. *)
LEMMA IxRefusedInv ==
    ASSUME IInv, NEW t \in Tx, IxRefused(t)
    PROVE  IInv'
<1>1. PICK h \in VoteHeight : CreateNewLock(t, h)
  BY DEF IxRefused
<1>2. /\ locked' \subseteq Tx /\ locked \subseteq locked'
      /\ height' \in [Tx -> VoteHeight]
  BY <1>1, CreateNewLockType DEF IInv
<1>3. /\ refused' = refused \cup {t} /\ everRefused' = everRefused \cup {t}
      /\ lockedBy' = Taken(t, lockedBy)
      /\ UNCHANGED <<blank, voteSeen, votes>>
  BY DEF IxRefused
<1>4. /\ request \subseteq request' /\ request' \subseteq Tx
      /\ mempool' \subseteq Tx /\ chain' \subseteq Tx
      /\ expired' \subseteq locked'
  <2>1. expired \subseteq locked'
    BY <1>2 DEF IInv, TypeOK
  <2>2. CASE UNCHANGED <<request, expired, mempool, chain>>
    BY <2>1, <2>2 DEF IInv, TypeOK
  <2>3. CASE Cancel(t, lockedBy') /\ UNCHANGED <<request, mempool, chain>>
    BY <1>2, <2>1, <2>3, CancelType DEF IInv, TypeOK
  <2>4. CASE Replayed(lockedBy') /\ request' = request \cup {t} /\ UNCHANGED expired
    BY <2>1, <2>4, ReplayedType DEF IInv, TypeOK
  <2> QED BY <2>2, <2>3, <2>4 DEF IxRefused
<1>5. lockedBy' \in [Outpoint -> Tx \cup {None}]
  BY <1>3, TakenType DEF IInv, TypeOK
<1>6. TypeOK'
  BY <1>2, <1>3, <1>4, <1>5 DEF IInv, TypeOK, VoteHeight
<1>7. HeightIsRequested'
  BY <1>1, <1>3, <1>4, HeightGiven
<1>8. CountedIsSeen' /\ OneVoteEach'
  BY <1>2, <1>3, VotesKept
<1>9. AcceptedInputsAreFreed'
  BY <1>2, <1>3, <1>4, InputsTaken
<1>10. BlankIsRefused'
  BY <1>3 DEF IInv, LockInv, BlankIsRefused
<1> QED BY <1>6, <1>7, <1>8, <1>9, <1>10 DEF IInv, LockInv

(* The node's own request keeps it. *)
LEMMA OwnRequestInv ==
    ASSUME IInv, NEW t \in Tx, OwnRequest(t)
    PROVE  IInv'
<1>1. PICK h \in VoteHeight : CreateNewLock(t, h)
  BY DEF OwnRequest
<1>2. /\ locked' \subseteq Tx /\ locked \subseteq locked'
      /\ height' \in [Tx -> VoteHeight]
  BY <1>1, CreateNewLockType DEF IInv
<1>3. /\ request' = request \cup {t}
      /\ UNCHANGED <<blank, refused, voteSeen, votes, expired, lockedBy, chain, everRefused>>
  BY DEF OwnRequest
<1>4. mempool' \subseteq Tx
  BY DEF OwnRequest, IInv, TypeOK
<1>5. TypeOK'
  BY <1>2, <1>3, <1>4 DEF IInv, TypeOK, VoteHeight
<1>6. t \in blank => t \in refused
  BY DEF IInv, LockInv, BlankIsRefused
<1>7. HeightIsRequested'
  BY <1>1, <1>3, <1>6, HeightGiven
<1>8. CountedIsSeen' /\ OneVoteEach'
  BY <1>2, <1>3, VotesKept
<1>9. AcceptedInputsAreFreed'
  BY <1>2, <1>3, InputsKept
<1>10. BlankIsRefused'
  BY <1>3 DEF IInv, LockInv, BlankIsRefused
<1> QED BY <1>5, <1>7, <1>8, <1>9, <1>10 DEF IInv, LockInv

(* An ignored vote only marks itself as seen. *)
LEMMA VoteIgnoredInv ==
    ASSUME IInv, NEW m \in Masternode, NEW t \in Tx, VoteIgnored(m, t)
    PROVE  IInv'
<1>1. /\ voteSeen' = voteSeen \cup {<<m, t>>}
      /\ UNCHANGED <<request, blank, refused, locked, height, votes, expired,
                     lockedBy, mempool, chain, everRefused>>
  BY DEF VoteIgnored, lockVars
<1>2. TypeOK'
  <2>1. voteSeen' \subseteq Masternode \X Tx
    BY <1>1 DEF IInv, TypeOK
  <2> QED BY <1>1, <2>1 DEF IInv, TypeOK, VoteHeight
<1>3. CountedIsSeen' /\ OneVoteEach'
  BY <1>1, VotesKept
<1>4. AcceptedInputsAreFreed'
  BY <1>1, InputsKept
<1>5. HeightIsRequested' /\ BlankIsRefused'
  BY <1>1 DEF IInv, LockInv, HeightIsRequested, BlankIsRefused
<1> QED BY <1>2, <1>3, <1>4, <1>5 DEF IInv, LockInv

(* A vote for a lock that changes no height keeps the heights requested.   *)
LEMMA HeightKept ==
    ASSUME IInv, height' = height, locked \subseteq locked',
           (request \ blank) \cup refused \subseteq (request' \ blank') \cup refused'
    PROVE  HeightIsRequested'
BY DEF IInv, LockInv, HeightIsRequested

(* A vote that leaves the lock incomplete keeps the invariant. *)
LEMMA VoteCountedInv ==
    ASSUME IInv, NEW m \in Masternode, NEW t \in Tx, NEW h \in VoteHeight,
           VoteCounted(m, t, h)
    PROVE  IInv'
<1>1. VoteAdded(m, t, h)
  BY DEF VoteCounted
<1>2. /\ voteSeen' \subseteq Masternode \X Tx
      /\ locked' \subseteq Tx /\ locked \subseteq locked'
      /\ height' = height
      /\ votes' \in [Tx -> [Masternode \X VoteHeight -> Nat]]
      /\ CountedIsSeen' /\ OneVoteEach'
  BY <1>1, VoteAddedInv
<1>3. UNCHANGED <<request, blank, refused, expired, lockedBy, mempool, chain,
                  everRefused>>
  BY DEF VoteCounted
<1>4. TypeOK'
  BY <1>2, <1>3 DEF IInv, TypeOK, VoteHeight
<1>5. HeightIsRequested'
  BY <1>2, <1>3, HeightKept
<1>6. AcceptedInputsAreFreed'
  BY <1>2, <1>3, InputsKept
<1>7. BlankIsRefused'
  BY <1>3 DEF IInv, LockInv, BlankIsRefused
<1> QED BY <1>2, <1>4, <1>5, <1>6, <1>7 DEF IInv, LockInv

(* A vote that cancels two locks keeps it. *)
LEMMA VoteCancelsInv ==
    ASSUME IInv, NEW m \in Masternode, NEW t \in Tx, NEW h \in VoteHeight,
           VoteCancels(m, t, h)
    PROVE  IInv'
<1>1. VoteAdded(m, t, h)
  BY DEF VoteCancels
<1>2. /\ voteSeen' \subseteq Masternode \X Tx
      /\ locked' \subseteq Tx /\ locked \subseteq locked'
      /\ height' = height
      /\ votes' \in [Tx -> [Masternode \X VoteHeight -> Nat]]
      /\ CountedIsSeen' /\ OneVoteEach'
  BY <1>1, VoteAddedInv
<1>3. UNCHANGED <<request, blank, refused, lockedBy, mempool, chain, everRefused>>
  BY DEF VoteCancels
<1>4. expired' \subseteq locked'
  <2>1. expired \subseteq locked'
    BY <1>2 DEF IInv, TypeOK
  <2>2. Cancel(t, lockedBy)
    BY DEF VoteCancels
  <2> QED BY <1>2, <2>1, <2>2, CancelType
<1>5. TypeOK'
  BY <1>2, <1>3, <1>4 DEF IInv, TypeOK, VoteHeight
<1>6. HeightIsRequested'
  BY <1>2, <1>3, HeightKept
<1>7. AcceptedInputsAreFreed'
  BY <1>2, <1>3, InputsKept
<1>8. BlankIsRefused'
  BY <1>3 DEF IInv, LockInv, BlankIsRefused
<1> QED BY <1>2, <1>5, <1>6, <1>7, <1>8 DEF IInv, LockInv

(* The lock that is complete has a height, so its request has been seen:   *)
(* if operator[] makes an empty one, then it was refused.                  *)
LEMMA VoteCompletesInv ==
    ASSUME IInv, NEW m \in Masternode, NEW t \in Tx, NEW h \in VoteHeight,
           VoteCompletes(m, t, h)
    PROVE  IInv'
<1>1. VoteAdded(m, t, h) /\ Complete(t, votes', height')
  BY DEF VoteCompletes
<1>2. /\ voteSeen' \subseteq Masternode \X Tx
      /\ locked' \subseteq Tx /\ locked \subseteq locked' /\ t \in locked'
      /\ height' = height
      /\ votes' \in [Tx -> [Masternode \X VoteHeight -> Nat]]
      /\ CountedIsSeen' /\ OneVoteEach'
  BY <1>1, VoteAddedInv
<1>3. /\ request' = request \cup {t} /\ blank' = blank \cup ({t} \ request)
      /\ lockedBy' = IF Known(t) THEN Taken(t, lockedBy) ELSE lockedBy
      /\ UNCHANGED <<refused, expired, everRefused>>
  BY DEF VoteCompletes
<1>4. mempool' \subseteq Tx /\ chain' \subseteq Tx
  <2>1. CASE t \in refused
    <3>1. Replayed(lockedBy')
      BY <2>1 DEF VoteCompletes
    <3> QED BY <3>1, ReplayedType DEF IInv
  <2>2. CASE t \notin refused
    BY <2>2 DEF VoteCompletes, IInv, TypeOK
  <2> QED BY <2>1, <2>2
<1>5. lockedBy' \in [Outpoint -> Tx \cup {None}]
  BY <1>3, TakenType DEF IInv, TypeOK
<1>6. TypeOK'
  <2>1. /\ request' \subseteq Tx /\ blank' \subseteq request'
        /\ refused' \subseteq Tx /\ everRefused' \subseteq Tx
        /\ expired' \subseteq locked'
    BY <1>2, <1>3 DEF IInv, TypeOK
  <2>2. height' \in [Tx -> VoteHeight]
    BY <1>2 DEF IInv, TypeOK
  <2> QED BY <1>2, <1>4, <1>5, <2>1, <2>2 DEF TypeOK, VoteHeight
<1>7. t \in (request \ blank) \cup refused
  <2>1. height[t] # 0
    BY <1>1, <1>2, CompleteHasHeight
  <2> QED BY <2>1 DEF IInv, LockInv, HeightIsRequested
<1>8. request \ blank \subseteq request' \ blank'
  BY <1>3
<1>9. HeightIsRequested'
  BY <1>2, <1>3, <1>8, HeightKept
<1>10. BlankIsRefused'
  BY <1>3, <1>7 DEF IInv, LockInv, BlankIsRefused
<1>11. AcceptedInputsAreFreed'
  <2>1. CASE Known(t)
    <3>1. t \in locked' \cap (request' \ blank')
      BY <1>2, <1>8, <2>1 DEF Known
    <3> QED BY <1>2, <1>3, <1>8, <2>1, <3>1, InputsTaken
  <2>2. CASE ~Known(t)
    BY <1>2, <1>3, <1>8, <2>2, InputsKept
  <2> QED BY <2>1, <2>2
<1> QED BY <1>2, <1>6, <1>9, <1>10, <1>11 DEF IInv, LockInv

(* Time keeps it. *)
LEMMA ExpiresInv ==
    ASSUME IInv, NEW t \in Tx, Expires(t)
    PROVE  IInv'
<1>1. /\ expired' = expired \cup {t} /\ t \in locked
      /\ UNCHANGED <<request, blank, refused, voteSeen, locked, height, votes,
                     lockedBy, mempool, chain, everRefused>>
  BY DEF Expires
<1>2. TypeOK'
  BY <1>1 DEF IInv, TypeOK, VoteHeight
<1>3. CountedIsSeen' /\ OneVoteEach'
  BY <1>1, VotesKept
<1>4. AcceptedInputsAreFreed'
  BY <1>1, InputsKept
<1>5. HeightIsRequested' /\ BlankIsRefused'
  BY <1>1 DEF IInv, LockInv, HeightIsRequested, BlankIsRefused
<1> QED BY <1>2, <1>3, <1>4, <1>5 DEF IInv, LockInv

(* "tx", a block, a block disconnected: only mempool and chain change.     *)
LEMMA TransactionInv ==
    ASSUME IInv, UNCHANGED <<request, blank, refused, voteSeen, lockVars, lockedBy,
                             everRefused>>,
           mempool' \subseteq Tx, chain' \subseteq Tx
    PROVE  IInv'
<1>1. UNCHANGED <<request, blank, refused, voteSeen, locked, height, votes, expired,
                  lockedBy, everRefused>>
  BY DEF lockVars
<1>2. TypeOK'
  BY <1>1 DEF IInv, TypeOK, VoteHeight
<1>3. CountedIsSeen' /\ OneVoteEach'
  BY <1>1, VotesKept
<1>4. AcceptedInputsAreFreed'
  BY <1>1, InputsKept
<1>5. HeightIsRequested' /\ BlankIsRefused'
  BY <1>1 DEF IInv, LockInv, HeightIsRequested, BlankIsRefused
<1> QED BY <1>2, <1>3, <1>4, <1>5 DEF IInv, LockInv

(* Forgetting a lock frees the inputs that were locked to it. *)
LEMMA CleanInv ==
    ASSUME IInv, CleanTransactionLocksList
    PROVE  IInv'
<1> DEFINE asked == expired \cap request
           freed == UNION {Inputs[t] : t \in asked \ blank}
<1>1. /\ lockedBy' = [o \in Outpoint |-> IF o \in freed THEN None ELSE lockedBy[o]]
      /\ request' = request \ asked
      /\ blank' = blank \ asked
      /\ refused' = refused \ asked
      /\ voteSeen' = {v \in voteSeen :
                        ~(v[2] \in asked /\ \E h \in VoteHeight : votes[v[2]][<<v[1], h>>] > 0)}
      /\ locked' = locked \ expired
      /\ expired' = expired \ expired
      /\ height' = [t \in Tx |-> IF t \in expired THEN 0 ELSE height[t]]
      /\ votes' = [t \in Tx |-> IF t \in expired THEN NoVotes ELSE votes[t]]
      /\ UNCHANGED <<mempool, chain, everRefused>>
  BY DEF CleanTransactionLocksList, Forgotten, Freed
<1> HIDE DEF asked, freed
<1>2. asked = expired \cap request /\ freed = UNION {Inputs[t] : t \in asked \ blank}
  BY DEF asked, freed
<1>3. TypeOK'
  <2>1. height' \in [Tx -> VoteHeight]
    BY <1>1, NumbersAreNat DEF IInv, TypeOK
  <2>2. votes' \in [Tx -> [Masternode \X VoteHeight -> Nat]]
    BY <1>1, NoVotesType DEF IInv, TypeOK
  <2>3. lockedBy' \in [Outpoint -> Tx \cup {None}]
    BY <1>1 DEF IInv, TypeOK
  <2>4. voteSeen' \subseteq Masternode \X Tx
    BY <1>1 DEF IInv, TypeOK
  <2>5. /\ request' \subseteq Tx /\ blank' \subseteq request' /\ refused' \subseteq Tx
        /\ locked' \subseteq Tx /\ expired' \subseteq locked'
        /\ mempool' \subseteq Tx /\ chain' \subseteq Tx /\ everRefused' \subseteq Tx
    BY <1>1 DEF IInv, TypeOK
  <2> QED BY <2>1, <2>2, <2>3, <2>4, <2>5 DEF TypeOK, VoteHeight
<1>4. \A t \in Tx, m \in Masternode : \A h \in VoteHeight :
         votes'[t][<<m, h>>] = IF t \in expired THEN 0 ELSE votes[t][<<m, h>>]
  BY <1>1, NoVotesType
<1>5. CountedIsSeen'
  <2> SUFFICES ASSUME NEW t \in Tx, NEW m \in Masternode, NEW h \in VoteHeight,
                      votes'[t][<<m, h>>] > 0
               PROVE  <<m, t>> \in voteSeen' /\ t \in locked'
    BY DEF CountedIsSeen, VoteHeight
  <2>1. t \notin expired /\ votes[t][<<m, h>>] > 0
    BY <1>4
  <2>2. <<m, t>> \in voteSeen /\ t \in locked
    BY <2>1 DEF IInv, LockInv, CountedIsSeen
  <2> QED BY <1>1, <1>2, <2>1, <2>2
<1>6. OneVoteEach'
  <2> SUFFICES ASSUME NEW t \in Tx, NEW m \in Masternode,
                      NEW h \in VoteHeight, NEW k \in VoteHeight
               PROVE  /\ votes'[t][<<m, h>>] <= 1
                      /\ votes'[t][<<m, h>>] = 1 /\ votes'[t][<<m, k>>] = 1 => h = k
    BY DEF OneVoteEach, VoteHeight
  <2>1. /\ votes[t][<<m, h>>] <= 1
        /\ votes[t][<<m, h>>] = 1 /\ votes[t][<<m, k>>] = 1 => h = k
    BY DEF IInv, LockInv, OneVoteEach
  <2> QED BY <1>4, <2>1
<1>7. HeightIsRequested'
  <2> SUFFICES ASSUME NEW t \in Tx, height'[t] # 0
               PROVE  t \in locked' /\ t \in (request' \ blank') \cup refused'
    BY DEF HeightIsRequested
  <2>1. t \notin expired /\ height[t] # 0
    BY <1>1
  <2>2. t \in locked /\ t \in (request \ blank) \cup refused
    BY <2>1 DEF IInv, LockInv, HeightIsRequested
  <2> QED BY <1>1, <1>2, <2>1, <2>2
<1>8. BlankIsRefused'
  BY <1>1 DEF IInv, LockInv, BlankIsRefused
<1>9. AcceptedInputsAreFreed'
  <2> SUFFICES ASSUME NEW o \in Outpoint, lockedBy'[o] # None,
                      lockedBy'[o] \notin everRefused'
               PROVE  /\ o \in Inputs[lockedBy'[o]]
                      /\ lockedBy'[o] \in locked' \cap (request' \ blank')
    BY DEF AcceptedInputsAreFreed
  <2>1. lockedBy'[o] = lockedBy[o] /\ o \notin freed /\ everRefused' = everRefused
    BY <1>1
  <2>2. /\ o \in Inputs[lockedBy[o]]
        /\ lockedBy[o] \in locked \cap (request \ blank)
    BY <2>1 DEF IInv, LockInv, AcceptedInputsAreFreed
  <2>3. lockedBy[o] \notin expired
    BY <1>2, <2>1, <2>2
  <2> QED BY <1>1, <1>2, <2>1, <2>2, <2>3
<1> QED BY <1>3, <1>5, <1>6, <1>7, <1>8, <1>9 DEF IInv, LockInv

(* Every step keeps the inductive invariant. *)
LEMMA NextInv == IInv /\ [Next]_vars => IInv'
<1> SUFFICES ASSUME IInv, [Next]_vars PROVE IInv'
  OBVIOUS
<1>1. ASSUME NEW t \in Tx, IxAccepted(t) PROVE IInv'
  BY <1>1, IxAcceptedInv
<1>2. ASSUME NEW t \in Tx, IxRefused(t) PROVE IInv'
  BY <1>2, IxRefusedInv
<1>3. ASSUME NEW t \in Own, OwnRequest(t) PROVE IInv'
  BY <1>3, OwnRequestInv
<1>4. ASSUME NEW m \in Masternode, NEW t \in Tx, VoteIgnored(m, t) PROVE IInv'
  BY <1>4, VoteIgnoredInv
<1>5. ASSUME NEW m \in Masternode, NEW t \in Tx, NEW h \in VotesAt[m],
             VoteCounted(m, t, h) \/ VoteCancels(m, t, h) \/ VoteCompletes(m, t, h)
      PROVE  IInv'
  <2>1. h \in VoteHeight
    BY DEF VoteHeight
  <2> QED BY <1>5, <2>1, VoteCountedInv, VoteCancelsInv, VoteCompletesInv
<1>6. ASSUME NEW t \in Tx, Expires(t) PROVE IInv'
  BY <1>6, ExpiresInv
<1>7. CASE CleanTransactionLocksList
  BY <1>7, CleanInv
<1>8. ASSUME NEW t \in Tx, TxAccepted(t) \/ TxConfirmed(t) \/ TxDisconnected(t)
      PROVE  IInv'
  <2>1. /\ UNCHANGED <<request, blank, refused, voteSeen, lockVars, lockedBy, everRefused>>
        /\ mempool' \subseteq Tx /\ chain' \subseteq Tx
    BY <1>8 DEF TxAccepted, TxConfirmed, TxDisconnected, IInv, TypeOK
  <2> QED BY <2>1, TransactionInv
<1>9. CASE Restart
  BY <1>9, RestartInv
<1>10. CASE UNCHANGED vars
  <2>1. /\ UNCHANGED <<request, blank, refused, voteSeen, lockVars, lockedBy, everRefused>>
        /\ UNCHANGED <<mempool, chain>>
    BY <1>10 DEF vars
  <2>2. mempool' \subseteq Tx /\ chain' \subseteq Tx
    BY <2>1 DEF IInv, TypeOK
  <2> QED BY <2>1, <2>2, TransactionInv
<1> QED
  BY <1>1, <1>2, <1>3, <1>4, <1>5, <1>6, <1>7, <1>8, <1>9, <1>10 DEF Next

(* The inductive invariant holds in every reachable state. *)
LEMMA Invariance == Spec => []IInv
<1> QED BY InitInv, NextInv, PTL DEF Spec

-----------------------------------------------------------------------------
(* The maps hold what their keys and values say: TypeOK of every handler.  *)
THEOREM TypeCorrect == Spec => []TypeOK
<1>1. IInv => TypeOK
  BY DEF IInv
<1> QED BY <1>1, Invariance, PTL

(* mapTxLockVote keeps any masternode's vote from counting twice for a     *)
(* lock, for any number of votes at any heights, in any order.             *)
THEOREM VotesCountOnce == Spec => []OneVoteEach
<1>1. IInv => OneVoteEach
  BY DEF IInv, LockInv
<1> QED BY <1>1, Invariance, PTL

(* However many votes come early, a lock is not complete before its        *)
(* request has been seen.                                                  *)
THEOREM RequestComesFirst == Spec => []CompleteIsRequested
<1>1. IInv => CompleteIsRequested
  <2> SUFFICES ASSUME IInv, NEW t \in locked, Complete(t, votes, height)
               PROVE  t \in (request \ blank) \cup refused
    BY DEF CompleteIsRequested
  <2>1. t \in Tx
    BY DEF IInv, TypeOK
  <2>2. height[t] # 0
    BY <2>1, CompleteHasHeight
  <2> QED BY <2>1, <2>2 DEF IInv, LockInv, HeightIsRequested
<1> QED BY <1>1, Invariance, PTL

(* An input locked to a request that was accepted has its lock, which the  *)
(* timer will forget.                                                      *)
THEOREM AcceptedInputsExpire == Spec => []AcceptedInputsHaveLock
<1>1. IInv => AcceptedInputsHaveLock
  BY DEF IInv, LockInv, AcceptedInputsAreFreed, AcceptedInputsHaveLock
<1> QED BY <1>1, Invariance, PTL

(* No handler gives an input that is locked to another transaction: a      *)
(* lock that conflicts waits until Clean has freed the input.              *)
THEOREM OwnersStay == Spec => InputsKeepOwner
<1> DEFINE Keeps == \A o \in Outpoint :
        lockedBy[o] # None /\ lockedBy'[o] # None => lockedBy'[o] = lockedBy[o]
<1>1. TypeOK /\ [Next]_vars => Keeps
  <2> SUFFICES ASSUME TypeOK, [Next]_vars PROVE Keeps
    OBVIOUS
  <2>1. CASE UNCHANGED lockedBy
    BY <2>1
  <2>2. ASSUME NEW t \in Tx, lockedBy' = Taken(t, lockedBy) PROVE Keeps
    BY <2>2, TakenType DEF TypeOK
  <2>3. CASE CleanTransactionLocksList
    BY <2>3 DEF CleanTransactionLocksList
  <2>4. CASE Restart
    BY <2>4 DEF Restart, Restarted
  <2>5. ASSUME NEW t \in Tx, IxRefused(t) PROVE Keeps
    BY <2>2, <2>5 DEF IxRefused
  <2>6. ASSUME NEW m \in Masternode, NEW t \in Tx, NEW h, VoteCompletes(m, t, h)
        PROVE  Keeps
    BY <2>1, <2>2, <2>6 DEF VoteCompletes
  <2>7. ASSUME NEW t \in Tx,
               IxAccepted(t) \/ OwnRequest(t) \/ Expires(t) \/ TxAccepted(t)
                 \/ TxConfirmed(t) \/ TxDisconnected(t)
        PROVE  UNCHANGED lockedBy
    BY <2>7 DEF IxAccepted, OwnRequest, Expires, TxAccepted, TxConfirmed, TxDisconnected
  <2>8. ASSUME NEW m \in Masternode, NEW t \in Tx, NEW h,
               VoteIgnored(m, t) \/ VoteCounted(m, t, h) \/ VoteCancels(m, t, h)
        PROVE  UNCHANGED lockedBy
    BY <2>8 DEF VoteIgnored, VoteCounted, VoteCancels
  <2>9. CASE UNCHANGED vars
    BY <2>1, <2>9 DEF vars
  <2> HIDE DEF Keeps
  <2> QED
    BY <2>1, <2>3, <2>4, <2>5, <2>6, <2>7, <2>8, <2>9 DEF Next
<1>2. TypeOK /\ [Next]_vars => [Keeps]_vars
  BY <1>1
<1> QED BY <1>2, TypeCorrect, PTL DEF Spec, InputsKeepOwner
=============================================================================
