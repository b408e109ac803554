------------------------------ MODULE SwiftTX ------------------------------
(***************************************************************************)
(* Transaction locks (swifttx.cpp) on one node: a lock request "ix" and    *)
(* the votes "txlvote" of the masternodes arrive in any order, or not at   *)
(* all, the completed lock takes the transaction's inputs, and the mempool *)
(* and CheckBlock refuse what spends an input locked to another            *)
(* transaction.  A timer forgets locks after an hour.                      *)
(*                                                                         *)
(* Sporks 2 and 3 are on and the blockchain is synced.  Masternode is the  *)
(* set of those that are ranked and whose signature verifies, when they    *)
(* are known.  The relaying of messages, mapUnknownVotes, which only slows *)
(* it down, and the wallet's counters are left out.  The maps are used by  *)
(* two threads without a lock; here a handler is one step.                 *)
(***************************************************************************)
EXTENDS Integers, FiniteSets, FiniteSetsExt

CONSTANTS
    Tx,            \* transactions a lock may be asked for
    Outpoint,
    Inputs,        \* the vin of a transaction
    Masternode,    \* the SWIFTTX_SIGNATURES_TOTAL that may vote
    Self,          \* the one this node runs, if any
    Own,           \* the transactions this node asks a lock for
    LockHeight,    \* what CreateNewLock computes from the age of the inputs
    VotesAt,       \* the heights a masternode's votes may carry: a bound
    Required,      \* SWIFTTX_SIGNATURES_REQUIRED
    None

ASSUME InputsAssumption   == Inputs \in [Tx -> (SUBSET Outpoint) \ {{}}]
ASSUME SelfAssumption     == Self \in Masternode \/ Self = None
ASSUME OwnAssumption      == Own \subseteq Tx
ASSUME HeightAssumption   ==
    /\ LockHeight \subseteq Nat \ {0}
    /\ VotesAt \in [Masternode -> SUBSET (LockHeight \cup {0})]
ASSUME RequiredAssumption == Required \in Nat \ {0}
ASSUME NoneAssumption     == None \notin Tx

VARIABLES
    request,     \* keys of mapTxLockReq
    blank,       \* those of them operator[] made, with an empty transaction
    refused,     \* mapTxLockReqRejected
    voteSeen,    \* mapTxLockVote: its hash has the masternode and the txid
    locked,      \* keys of mapTxLocks
    height,      \* nBlockHeight of a lock, 0 before the request is seen
    votes,       \* how often a masternode's vote is in vecConsensusVotes
    expired,     \* locks whose nExpiration has passed
    lockedBy,    \* mapLockedInputs
    mempool,
    chain,       \* confirmed transactions
    everRefused  \* history: the transactions that have been in refused

lockVars == <<locked, height, votes, expired>>
vars == <<request, blank, refused, voteSeen, lockVars, lockedBy, mempool, chain,
          everRefused>>

VoteHeight == LockHeight \cup {0}   \* 0: the inputs are too new
NoVotes    == [v \in Masternode \X VoteHeight |-> 0]

TypeOK ==
    /\ request \subseteq Tx /\ blank \subseteq request /\ refused \subseteq Tx
    /\ voteSeen \subseteq Masternode \X Tx
    /\ locked \subseteq Tx /\ expired \subseteq locked
    /\ height \in [Tx -> VoteHeight]
    /\ votes \in [Tx -> [Masternode \X VoteHeight -> Nat]]
    /\ lockedBy \in [Outpoint -> Tx \cup {None}]
    /\ mempool \subseteq Tx /\ chain \subseteq Tx
    /\ everRefused \subseteq Tx

-----------------------------------------------------------------------------
Conflicting(t, u) == t # u /\ Inputs[t] \cap Inputs[u] # {}

(* CTransactionLock::CountSignatures: only votes for the lock's height.    *)
VotesAtHeight(vs, h)   == MapThenSumSet(LAMBDA m : vs[<<m, h>>], Masternode)
CountSignatures(vs, h) == IF h = 0 THEN -1 ELSE VotesAtHeight(vs, h)

Complete(t, vs, hs) == CountSignatures(vs[t], hs[t]) >= Required

(* The inputs of t that by gives to another transaction. *)
LockedOut(t, by) == {o \in Inputs[t] : by[o] \notin {None, t}}

(* if (!mapLockedInputs.count(in.prevout)) mapLockedInputs.insert(...)     *)
TakenOver(t, by) ==   \* mutant: mapLockedInputs[in.prevout] = ...
    [o \in Outpoint |-> IF o \in Inputs[t] THEN t ELSE by[o]]
Taken(t, by) ==
    [o \in Outpoint |-> IF o \in Inputs[t] /\ by[o] = None THEN t ELSE by[o]]

(* AcceptToMemoryPool(t) finds nothing against it in this state.           *)
Acceptable(t) ==
    /\ t \notin mempool \cup chain
    /\ LockedOut(t, lockedBy) = {}
    /\ \A u \in mempool \cup chain : ~Conflicting(t, u)

(* CreateNewLock: h is 0 when some input is too new.                       *)
CreateNewLock(t, h) ==
    IF h = 0 THEN UNCHANGED <<locked, height>>
    ELSE /\ locked' = locked \cup {t}
         /\ height' = [height EXCEPT ![t] = h]

(* CheckForConflictingLocks found that by gives an input of t to another   *)
(* transaction: both locks expire at once.  It stops at the first input.   *)
Cancel(t, by) ==
    \E o \in LockedOut(t, by) : expired' = expired \cup (locked' \cap {t, by[o]})

(* A restart empties every map; blocks may be missing from the new chain.  *)
Restarted ==
    /\ request' = {} /\ blank' = {} /\ refused' = {}
    /\ voteSeen' = {}
    /\ locked' = {} /\ expired' = {}
    /\ height' = [t \in Tx |-> 0]
    /\ votes' = [t \in Tx |-> NoVotes]
    /\ lockedBy' = [o \in Outpoint |-> None]
    /\ mempool' = {}
    /\ chain' \in SUBSET chain
    /\ everRefused' = {}

(* ReprocessBlocks(15), here with the inputs locked as in by: the last     *)
(* blocks are connected again up to one that by locks out, and the         *)
(* transactions of the others go to the mempool.                           *)
Replayed(by) ==
    \E keep \in SUBSET {t \in chain : LockedOut(t, by) = {}} :
        /\ chain' = keep
        /\ \E back \in SUBSET {t \in chain \ keep : LockedOut(t, by) = {}} :
              mempool' = mempool \cup back

-----------------------------------------------------------------------------
Init ==
    /\ request = {} /\ blank = {} /\ refused = {}
    /\ voteSeen = {}
    /\ locked = {} /\ expired = {}
    /\ height = [t \in Tx |-> 0]
    /\ votes = [t \in Tx |-> NoVotes]
    /\ lockedBy = [o \in Outpoint |-> None]
    /\ mempool = {} /\ chain = {}
    /\ everRefused = {}

(* "ix": the transaction goes to the mempool, and this masternode votes,   *)
(* whatever CreateNewLock says.  Its own vote is not added to the lock.    *)
IxAccepted(t) ==
    /\ t \notin request \cup refused
    /\ Acceptable(t)
    /\ \E h \in VoteHeight : CreateNewLock(t, h)
    /\ mempool' = mempool \cup {t}
    /\ \/ voteSeen' = voteSeen \cup ({Self} \cap Masternode) \X {t}
       \/ UNCHANGED voteSeen
    /\ request' = request \cup {t}
    /\ UNCHANGED <<blank, refused, votes, expired, lockedBy, chain,
                   everRefused>>

(* AcceptToMemoryPool refuses t, which it may do for many more reasons     *)
(* than Acceptable has.  The inputs nobody has locked are locked to t.     *)
IxRefused(t) ==
    /\ t \notin request \cup refused
    /\ \E h \in VoteHeight : CreateNewLock(t, h)
    /\ refused' = refused \cup {t}
    /\ everRefused' = everRefused \cup {t}
    /\ lockedBy' = Taken(t, lockedBy)
    /\ UNCHANGED <<blank, voteSeen, votes>>
    /\ \/ /\ ~Complete(t, votes, height')
          /\ UNCHANGED <<request, expired, mempool, chain>>
       \/ /\ Complete(t, votes, height')
          /\ Cancel(t, lockedBy')
          /\ UNCHANGED <<request, mempool, chain>>
       \/ /\ Complete(t, votes, height')
          /\ LockedOut(t, lockedBy') = {}
          /\ Replayed(lockedBy')
          /\ request' = request \cup {t}
          /\ UNCHANGED expired

(* The wallet or sendrawtransaction asks for a lock. *)
OwnRequest(t) ==
    /\ t \notin mempool \cup chain
    /\ \E h \in VoteHeight : CreateNewLock(t, h)
    /\ request' = request \cup {t}
    /\ \/ Acceptable(t) /\ mempool' = mempool \cup {t}
       \/ UNCHANGED mempool
    /\ UNCHANGED <<blank, refused, voteSeen, votes, expired, lockedBy, chain,
                   everRefused>>

(* "txlvote" of a masternode that is unknown, as yet, or whose rank at the *)
(* vote's height is too low: the vote stays in mapTxLockVote.              *)
FirstSeenNever(m, t) == TRUE   \* mutant: mapTxLockVote is not asked
FirstSeen(m, t)   == <<m, t>> \notin voteSeen
VoteIgnored(m, t) ==
    /\ FirstSeen(m, t)
    /\ voteSeen' = voteSeen \cup {<<m, t>>}
    /\ UNCHANGED <<request, blank, refused, lockVars, lockedBy, mempool, chain,
                   everRefused>>

(* ProcessConsensusVote: a lock made for a vote does not take its height.  *)
HeightOfVote(h)    == h   \* mutant: newLock.nBlockHeight = ctx.nBlockHeight
HeightOfNewLock(h) == 0
VoteAdded(m, t, h) ==
    /\ FirstSeen(m, t)
    /\ voteSeen' = voteSeen \cup {<<m, t>>}
    /\ locked' = locked \cup {t}
    /\ height' = [height EXCEPT ![t] = IF t \in locked THEN @ ELSE HeightOfNewLock(h)]
    /\ votes' = [votes EXCEPT ![t][<<m, h>>] = @ + 1]

VoteCounted(m, t, h) ==
    /\ VoteAdded(m, t, h)
    /\ ~Complete(t, votes', height')
    /\ UNCHANGED <<request, blank, refused, expired, lockedBy, mempool, chain,
                   everRefused>>

(* The lock is complete.  mapTxLockReq[...] makes an empty transaction if  *)
(* the request is not there.                                               *)
Known(t) == t \in request \ blank
VoteCancels(m, t, h) ==
    /\ VoteAdded(m, t, h)
    /\ Complete(t, votes', height')
    /\ Known(t)
    /\ Cancel(t, lockedBy)
    /\ UNCHANGED <<request, blank, refused, lockedBy, mempool, chain, everRefused>>

VoteCompletes(m, t, h) ==
    /\ VoteAdded(m, t, h)
    /\ Complete(t, votes', height')
    /\ Known(t) => LockedOut(t, lockedBy) = {}
    /\ request' = request \cup {t}
    /\ blank' = blank \cup ({t} \ request)
    /\ lockedBy' = IF Known(t) THEN Taken(t, lockedBy) ELSE lockedBy
    /\ IF t \in refused THEN Replayed(lockedBy') ELSE UNCHANGED <<mempool, chain>>
    /\ UNCHANGED <<refused, expired, everRefused>>

(* ReprocessBlocks outside the initial download ends the process, see      *)
(* "dead" in BlockTree; so may a crash at any time.                        *)
Restart == Restarted

(* An hour after the lock was made. *)
Expires(t) ==
    /\ t \in locked \ expired
    /\ expired' = expired \cup {t}
    /\ UNCHANGED <<request, blank, refused, voteSeen, locked, height, votes,
                   lockedBy, mempool, chain, everRefused>>

(* CleanTransactionLocksList *)
FreedNever(asked) == {}                        \* mutant: mapLockedInputs stays
Freed(asked) == UNION {Inputs[t] : t \in asked \ blank}
ForgottenIfRequested == expired \cap request   \* mutant: skips the others
Forgotten == expired
CleanTransactionLocksList ==
    LET asked == Forgotten \cap request
        freed == Freed(asked)
    IN  /\ Forgotten # {}
        /\ lockedBy' = [o \in Outpoint |-> IF o \in freed THEN None ELSE lockedBy[o]]
        /\ request' = request \ asked
        /\ blank' = blank \ asked
        /\ refused' = refused \ asked
        /\ voteSeen' = {v \in voteSeen :
                          ~(v[2] \in asked /\ \E h \in VoteHeight : votes[v[2]][<<v[1], h>>] > 0)}
        /\ locked' = locked \ Forgotten
        /\ expired' = expired \ Forgotten
        /\ height' = [t \in Tx |-> IF t \in Forgotten THEN 0 ELSE height[t]]
        /\ votes' = [t \in Tx |-> IF t \in Forgotten THEN NoVotes ELSE votes[t]]
        /\ UNCHANGED <<mempool, chain, everRefused>>

(* "tx" *)
TxAccepted(t) ==
    /\ Acceptable(t)
    /\ mempool' = mempool \cup {t}
    /\ UNCHANGED <<request, blank, refused, voteSeen, lockVars, lockedBy, chain,
                   everRefused>>

(* A block with t that CheckBlock lets pass. *)
TxConfirmed(t) ==
    /\ t \notin chain
    /\ LockedOut(t, lockedBy) = {}
    /\ \A u \in chain : ~Conflicting(t, u)
    /\ chain' = chain \cup {t}
    /\ mempool' = {u \in mempool : u # t /\ ~Conflicting(t, u)}
    /\ UNCHANGED <<request, blank, refused, voteSeen, lockVars, lockedBy, everRefused>>

(* The block with t is disconnected: t goes back to the mempool, or not. *)
TxDisconnected(t) ==
    /\ t \in chain
    /\ chain' = chain \ {t}
    /\ \/ LockedOut(t, lockedBy) = {} /\ mempool' = mempool \cup {t}
       \/ UNCHANGED mempool
    /\ UNCHANGED <<request, blank, refused, voteSeen, lockVars, lockedBy, everRefused>>

Next ==
    \/ \E t \in Tx : IxAccepted(t) \/ IxRefused(t)
    \/ \E t \in Own : OwnRequest(t)
    \/ \E m \in Masternode, t \in Tx : VoteIgnored(m, t)
    \/ \E m \in Masternode, t \in Tx : \E h \in VotesAt[m] :
          VoteCounted(m, t, h) \/ VoteCancels(m, t, h) \/ VoteCompletes(m, t, h)
    \/ \E t \in Tx : Expires(t)
    \/ CleanTransactionLocksList
    \/ \E t \in Tx : TxAccepted(t) \/ TxConfirmed(t) \/ TxDisconnected(t)
    \/ Restart

Spec == Init /\ [][Next]_vars

(* Time passes, and ThreadCheckObfuScationPool cleans every 60 seconds.    *)
FairSpec ==
    /\ Spec
    /\ \A t \in Tx : WF_vars(Expires(t))
    /\ WF_vars(CleanTransactionLocksList)

-----------------------------------------------------------------------------
(* Properties. *)

(* No masternode's vote counts twice for a lock, although votes come again *)
(* from every peer and mapTxLockVote forgets some of them with their lock. *)
OneVoteEach ==
    \A t \in Tx, m \in Masternode :
        \A h, k \in VoteHeight :
            /\ votes[t][<<m, h>>] <= 1
            /\ votes[t][<<m, h>>] = 1 /\ votes[t][<<m, k>>] = 1 => h = k

(* A lock is complete only when the request itself has been seen, however  *)
(* many votes came before it ("the transaction's blockheight" is not known *)
(* from the votes).  Of an unknown one ProcessConsensusVote would make an   *)
(* empty transaction that no later "ix" replaces.                           *)
CompleteIsRequested ==
    \A t \in locked :
        Complete(t, votes, height) => t \in (request \ blank) \cup refused

(* As long as an input is locked to a request that was accepted, the lock  *)
(* is there, for the timer to end: "locks expire after 60 minutes".        *)
AcceptedInputsHaveLock ==
    \A o \in Outpoint :
        lockedBy[o] # None /\ lockedBy[o] \notin everRefused =>
            o \in Inputs[lockedBy[o]] /\ lockedBy[o] \in locked \cap request

(* An input never passes from one transaction to another without having    *)
(* been free in between.                                                   *)
InputsKeepOwner ==
    [][\A o \in Outpoint :
          lockedBy[o] # None /\ lockedBy'[o] # None => lockedBy'[o] = lockedBy[o]]_vars

(* "keep transaction locks in memory for an hour": no lock stays for ever, *)
(* not even one whose request never came.                                  *)
LocksAreForgotten == \A t \in Tx : []<>(t \notin locked)
=============================================================================
