----------------------------- MODULE BlockTree -----------------------------
(***************************************************************************)
(* The block index and chain selection of main.cpp: mapBlockIndex with its *)
(* status bits, setBlockIndexCandidates, mapBlocksUnlinked and chainActive *)
(* as the threads that hold cs_main change them.  One action is one        *)
(* cs_main critical section: what another thread can see between two of    *)
(* them is a state of this module.                                         *)
(*                                                                         *)
(*  - blocks arrive by ProcessNewBlock: CheckBlock outside the lock, then  *)
(*    AcceptBlock, then a call of ActivateBestChain, which gives the lock  *)
(*    up after every step;                                                 *)
(*  - the operator invalidates and reconsiders blocks by RPC;              *)
(*  - a completed transaction lock runs ReprocessBlocks (spork.cpp).       *)
(*                                                                         *)
(* pindexBestInvalid and pindexBestHeader, which only feed warnings and    *)
(* header requests, and disk failures other than a full disk are left out. *)
(* Two bounds: at most Threads threads are in ProcessNewBlock or           *)
(* ActivateBestChain at a time, and no two of them with the same pblock.   *)
(***************************************************************************)
EXTENDS Integers, FiniteSets

CONSTANTS
    Block,          \* every block that may ever be received
    Genesis,
    Parent,         \* pprev
    Path,           \* a block with its ancestors
    Height,
    Work,           \* nChainWork
    MaxWork,        \* nChainWork is a uint256: it has a largest value
    Address,        \* where the CBlockIndex lies in memory
    BadScripts,     \* blocks ConnectBlock rejects
    NonFinal,       \* blocks ContextualCheckBlock rejects
    Disputable,     \* blocks CheckBlock may reject for a while: their inputs
                    \* or payee depend on transaction locks and votes
    Checkpoints,
    MaxReorg,       \* -maxreorg
    ReprocessDepth, \* the argument of ReprocessBlocks
    Operable,       \* blocks the operator invalidates and reconsiders
    Threads,        \* bound on the calls that run at a time
    InInitialDownload, \* what IsInitialBlockDownload returns
    NoBlock         \* the NULL pblock of ActivateBestChain, no result

ASSUME TreeAssumption ==
    /\ Genesis \in Block /\ NoBlock \notin Block
    /\ Parent \in [Block -> Block]
    /\ Height \in [Block -> Nat]
    /\ MaxWork \in Nat /\ Work \in [Block -> 0 .. MaxWork]
    /\ Address \in [Block -> Nat]
    /\ Path \in [Block -> SUBSET Block]
    /\ Height[Genesis] = 0 /\ Path[Genesis] = {Genesis}
    /\ \A b \in Block \ {Genesis} :
          /\ Height[b] = Height[Parent[b]] + 1
          /\ Work[b] > Work[Parent[b]]
          /\ Path[b] = {b} \cup Path[Parent[b]]

ASSUME AddressAssumption ==
    \A a, b \in Block : Address[a] = Address[b] => a = b

ASSUME ConstantAssumption ==
    /\ BadScripts \subseteq Block \ {Genesis}
    /\ NonFinal \subseteq Block \ {Genesis}
    /\ Disputable \subseteq Block \ {Genesis}
    /\ Checkpoints \subseteq Block
    /\ Operable \subseteq Block
    /\ MaxReorg \in Nat /\ ReprocessDepth \in Nat /\ Threads \in Nat
    /\ InInitialDownload \in BOOLEAN

VARIABLES
    known,            \* mapBlockIndex
    failedValid,      \* BLOCK_FAILED_VALID
    failedChild,      \* BLOCK_FAILED_CHILD
    haveData,         \* BLOCK_HAVE_DATA, hence BLOCK_VALID_TRANSACTIONS
    scripts,          \* BLOCK_VALID_SCRIPTS, hence BLOCK_HAVE_UNDO
    linked,           \* nChainTx is set
    seqId,            \* nSequenceId
    nBlockSequenceId, \* the next one
    candidates,       \* setBlockIndexCandidates
    unlinked,         \* the values of mapBlocksUnlinked; their key is pprev
    tip,              \* chainActive.Tip()
    disputed,         \* blocks CheckBlock rejects at present
    rejected,         \* mapRejectedBlocks, in the window of ReprocessBlocks
    aged,             \* mapRejectedBlocks, with an older time
    checked,          \* past CheckBlock in ProcessNewBlock, before AcceptBlock
    calls,            \* the pblock of every running ActivateBestChain
    toReconsider,     \* what a running ReprocessBlocks has yet to reconsider
    reprocessing,     \* is one running, before it disconnects blocks?
    process           \* "running", "activating" while AcceptBlock keeps
                      \* cs_main through an ActivateBestChain, or "dead"

indexVars == <<known, failedValid, failedChild, haveData, scripts, linked,
               seqId, nBlockSequenceId, unlinked>>
outside   == <<disputed, rejected, aged, checked, toReconsider, reprocessing>>
vars      == <<indexVars, candidates, tip, outside, calls, process>>

Calls == Block \cup {NoBlock}
ThreadIsFree == Cardinality(checked) + Cardinality(calls) < Threads

TypeOK ==
    /\ known \subseteq Block
    /\ failedValid \subseteq known /\ failedChild \subseteq known
    /\ haveData \subseteq known
    /\ scripts \subseteq haveData /\ linked \subseteq haveData
    /\ seqId \in [Block -> Nat] /\ nBlockSequenceId \in Nat
    /\ candidates \subseteq linked
    /\ unlinked \subseteq haveData
    /\ tip \in linked
    /\ disputed \subseteq Disputable
    /\ rejected \subseteq Disputable /\ aged \subseteq Disputable
    /\ checked \subseteq Block \ {Genesis}
    /\ calls \subseteq Calls
    /\ toReconsider \subseteq rejected
    /\ reprocessing \in BOOLEAN
    /\ process \in {"running", "activating", "dead"}

-----------------------------------------------------------------------------
Failed == failedValid \cup failedChild
Active == Path[tip]

(* CBlockIndexWorkComparator: a sorts before b, with sequence ids seq. *)
WorseBy(seq, a, b) ==
    \/ Work[a] < Work[b]
    \/ Work[a] = Work[b] /\ seq[a] > seq[b]
    \/ Work[a] = Work[b] /\ seq[a] = seq[b] /\ Address[a] > Address[b]

Worse(a, b) == WorseBy(seqId, a, b)

(* The blocks FindMostWorkChain walks from candidate c to the active chain, *)
(* and the failed one it meets first.                                      *)
Branch(c) == Path[c] \ Active
Usable(c) == Branch(c) \cap Failed = {}
FirstFailed(c) ==
    CHOOSE f \in Branch(c) \cap Failed :
        \A g \in Branch(c) \cap Failed : Height[g] <= Height[f]

BestOf(S) == CHOOSE c \in S : \A d \in S : ~Worse(c, d)

(* FindMostWorkChain: its result,                                          *)
MostWork ==
    LET usable == {c \in candidates : Usable(c)}
    IN  IF usable = {} THEN NoBlock ELSE BestOf(usable)

(* and for the candidates it tries before it finds most, the blocks it     *)
(* marks BLOCK_FAILED_CHILD and those it takes out of the set.             *)
Discarded(most) ==
    {c \in candidates : ~Usable(c) /\ (most # NoBlock => Worse(most, c))}
MarkedToRoot(most) ==   \* mutant: the walk goes on past the failed block
    UNION {Path[c] : c \in Discarded(most)}
MarkedChild(most) ==
    UNION {{b \in Path[c] : Height[b] > Height[FirstFailed(c)]} : c \in Discarded(most)}
Erased(most) == MarkedChild(most) \cup {FirstFailed(c) : c \in Discarded(most)}

(* CChain::FindFork: the last block of b's chain that is active. *)
Fork(b) == CHOOSE f \in Path[b] \cap Active :
               \A g \in Path[b] \cap Active : Height[g] <= Height[f]

(* ContextualCheckBlockHeader, without the clock. *)
HeaderAcceptable(b) ==
    /\ Height[tip] - Height[b] < MaxReorg
    /\ \A c \in Checkpoints : Height[c] = Height[b] => c = b
    /\ \A c \in Checkpoints \cap known :
          (\A d \in Checkpoints \cap known : Height[d] <= Height[c])
             => Height[b] >= Height[c]

(* ReconsiderBlock(b): flags are cleared from the failed descendants of b, *)
(* which become candidates when better than the tip, and from its          *)
(* ancestors, which do not.                                                *)
Cleared(b)    == {x \in Failed : b \in Path[x]} \cup Path[b]
Readmitted(b) == {x \in Failed : b \in Path[x] /\ x \in linked /\ Worse(tip, x)}

Reconsider(b) ==
    /\ failedValid' = failedValid \ Cleared(b)
    /\ failedChild' = failedChild \ Cleared(b)
    /\ candidates' = candidates \cup Readmitted(b)

-----------------------------------------------------------------------------
Init ==
    /\ known = {Genesis} /\ haveData = {Genesis} /\ linked = {Genesis}
    /\ scripts = {Genesis}
    /\ failedValid = {} /\ failedChild = {}
    /\ seqId = [b \in Block |-> IF b = Genesis THEN 1 ELSE 0]
    /\ nBlockSequenceId = 2
    /\ candidates = {Genesis} /\ unlinked = {}
    /\ tip = Genesis
    /\ disputed = {} /\ rejected = {} /\ aged = {}
    /\ checked = {} /\ calls = {}
    /\ toReconsider = {} /\ reprocessing = FALSE
    /\ process = "running"

(* mapRejectedBlocks.insert: a block that is there keeps its first time.   *)
(* ReprocessBlocks walks the map without a lock and may find the new one.  *)
Reject(b) ==
    /\ rejected' = rejected \cup ({b} \ aged)
    /\ \/ UNCHANGED toReconsider
       \/ /\ toReconsider # {} /\ b \notin rejected \cup aged
          /\ toReconsider' = toReconsider \cup {b}

(* The block message, the miner or submitblock hands b to ProcessNewBlock, *)
(* which runs CheckBlock before it takes cs_main.                          *)
CheckBlock(b) ==
    /\ process # "dead" /\ ThreadIsFree
    /\ b \notin checked \cup calls
    /\ b \notin Failed \cup scripts
    /\ IF b \in disputed
         THEN Reject(b) /\ UNCHANGED checked
         ELSE /\ Parent[b] \in known
              /\ checked' = checked \cup {b}
              /\ UNCHANGED <<rejected, toReconsider>>
    /\ UNCHANGED <<indexVars, candidates, tip, disputed, aged, calls,
                   reprocessing, process>>

(* AcceptBlock, for a block that is past CheckBlock. *)
ParentIsGood(b)   == Parent[b] \notin Failed
HeaderAccepted(b) ==
    /\ ParentIsGood(b)
    /\ IF b \in known THEN b \notin Failed ELSE HeaderAcceptable(b)

Accepting(b) ==
    /\ process = "running"
    /\ b \in checked
    /\ checked' = checked \ {b}
    /\ UNCHANGED <<tip, disputed, rejected, aged, toReconsider, reprocessing>>

AcceptRefused(b) ==
    /\ Accepting(b)
    /\ ~HeaderAccepted(b)
    /\ ParentIsGood(b) \/ Parent[b] \notin Checkpoints
    /\ UNCHANGED <<indexVars, candidates, calls, process>>

(* The parent failed and is a checkpoint: reconsider it, activate the best *)
(* chain without giving cs_main up, and report success without looking at  *)
(* b, so that its own ActivateBestChain follows.                           *)
AcceptReconsiders(b) ==
    /\ Accepting(b)
    /\ ~ParentIsGood(b) /\ Parent[b] \in Checkpoints
    /\ NoBlock \notin calls
    /\ Reconsider(Parent[b])
    /\ process' = "activating"
    /\ calls' = calls \cup {NoBlock, b}
    /\ UNCHANGED <<known, haveData, scripts, linked, seqId,
                   nBlockSequenceId, unlinked>>

AcceptDuplicate(b) ==
    /\ Accepting(b)
    /\ HeaderAccepted(b)
    /\ b \in haveData
    /\ calls' = calls \cup {b}
    /\ UNCHANGED <<indexVars, candidates, process>>

(* ContextualCheckBlock fails: the header stays in the index, as failed. *)
AcceptInvalid(b) ==
    /\ Accepting(b)
    /\ HeaderAccepted(b)
    /\ b \notin haveData /\ b \in NonFinal
    /\ known' = known \cup {b}
    /\ failedValid' = failedValid \cup {b}
    /\ UNCHANGED <<failedChild, haveData, scripts, linked, seqId,
                   nBlockSequenceId, unlinked, candidates, calls, process>>

(* FindBlockPos finds no room on the disk: the header stays. *)
AcceptNoSpace(b) ==
    /\ Accepting(b)
    /\ HeaderAccepted(b)
    /\ b \notin haveData \cup NonFinal
    /\ known' = known \cup {b}
    /\ UNCHANGED <<failedValid, failedChild, haveData, scripts, linked, seqId,
                   nBlockSequenceId, unlinked, candidates, calls, process>>

(* ReceivedBlockTransactions: b, and the unlinked blocks that only waited  *)
(* for it, get a sequence id in breadth-first order.                       *)
NowLinkedAlone(b) == {b}   \* mutant: mapBlocksUnlinked is not looked at
NowLinked(b) ==
    {x \in unlinked \cup {b} : b \in Path[x] /\ Path[x] \ Path[b] \subseteq unlinked}

Numberings(S, n) ==
    {f \in [S -> n .. n + Cardinality(S) - 1] :
        \A x, y \in S : x # y => /\ f[x] # f[y]
                                 /\ Height[x] < Height[y] => f[x] < f[y]}

AcceptStored(b) ==
    /\ Accepting(b)
    /\ HeaderAccepted(b)
    /\ b \notin haveData \cup NonFinal
    /\ known' = known \cup {b}
    /\ haveData' = haveData \cup {b}
    /\ IF Parent[b] \in linked
         THEN /\ linked' = linked \cup NowLinked(b)
              /\ \E f \in Numberings(NowLinked(b), nBlockSequenceId) :
                    seqId' = [x \in Block |->
                                IF x \in NowLinked(b) THEN f[x] ELSE seqId[x]]
              /\ nBlockSequenceId' = nBlockSequenceId + Cardinality(NowLinked(b))
              /\ candidates' = candidates \cup
                    {x \in NowLinked(b) : ~WorseBy(seqId', x, tip)}
              /\ unlinked' = unlinked \ NowLinked(b)
         ELSE /\ unlinked' = unlinked \cup {b}
              /\ UNCHANGED <<linked, seqId, nBlockSequenceId, candidates>>
    /\ calls' = calls \cup {b}
    /\ UNCHANGED <<failedValid, failedChild, scripts, process>>

-----------------------------------------------------------------------------
(* One turn of the loop of ActivateBestChain called with pblock = p.       *)

Activating(p) ==
    /\ p \in calls
    /\ process = "running" \/ (process = "activating" /\ p = NoBlock)
    /\ UNCHANGED <<known, haveData, linked, seqId, nBlockSequenceId, unlinked,
                   disputed, aged, checked, reprocessing>>

Returns(p) ==
    /\ calls' = calls \ {p}
    /\ process' = IF p = NoBlock THEN "running" ELSE process

(* The loop goes on unless it has reached most.  The notification of a new *)
(* tip reads pblock, which may be NULL, outside the initial download.      *)
GoesOnNever(p, newTip, most) == Returns(p)   \* mutant: no loop
GoesOn(p, newTip, most) ==
    IF p = NoBlock /\ ~InInitialDownload
      THEN process' = "dead" /\ calls' = {}
      ELSE IF newTip = most THEN Returns(p) ELSE UNCHANGED <<calls, process>>

(* Nothing better than the tip is left: the call returns. *)
ActivateDone(p) ==
    /\ Activating(p)
    /\ \E most \in {MostWork} \cap {NoBlock, tip} :
          /\ failedChild' = failedChild \cup MarkedChild(most)
          /\ candidates' = candidates \ Erased(most)
    /\ Returns(p)
    /\ UNCHANGED <<failedValid, scripts, tip, rejected, toReconsider>>

(* ConnectTip runs CheckBlock again, on every block it reads from disk; it *)
(* skips it for most itself when that is the block just received.          *)
Disputes(p, b, most)     == b \in disputed /\ ~(b = most /\ p = most)
ConnectFails(p, b, most) == b \in BadScripts \/ Disputes(p, b, most)

(* ActivateBestChainStep disconnects blocks to the fork, then connects up  *)
(* to a block that fails, or has more work than the old tip, or is most.   *)
(* PruneBlockIndexCandidates runs after every block connected.             *)
ToConnect(most, b) == {c \in Path[most] : /\ Height[c] > Height[Fork(most)]
                                          /\ Height[c] <= Height[b]}
StopAt(p, most) ==
    CHOOSE b \in ToConnect(most, most) :
        /\ ConnectFails(p, b, most) \/ Work[b] > Work[tip] \/ b = most
        /\ \A c \in ToConnect(most, b) \ {b} :
              ~ConnectFails(p, c, most) /\ Work[c] <= Work[tip]
Connected(most, b) ==
    /\ tip' = b
    /\ scripts' = scripts \cup ToConnect(most, b)
PrunedNever(S, most, b) == S         \* mutant: no PruneBlockIndexCandidates
PrunedToTip(S, most, b) ==           \* mutant: it takes the tip out as well
    IF ToConnect(most, b) = {} THEN S ELSE {c \in S : Worse(b, c)}
PrunedBelow(S, most, b) ==
    IF ToConnect(most, b) = {} THEN S ELSE {c \in S : ~Worse(c, b)}

ActivateConnects(p) ==
    /\ Activating(p)
    /\ \E most \in {MostWork} \ {NoBlock, tip} : \E stop \in {StopAt(p, most)} :
          /\ ~ConnectFails(p, stop, most)
          /\ failedChild' = failedChild \cup MarkedChild(most)
          /\ Connected(most, stop)
          /\ candidates' = PrunedBelow(candidates \ Erased(most), most, stop)
          /\ GoesOn(p, stop, most)
    /\ UNCHANGED <<failedValid, rejected, toReconsider>>

(* InvalidBlockFound: the step ends with the chain on the failed block's   *)
(* parent, and the call goes on.                                           *)
ActivateFails(p) ==
    /\ Activating(p)
    /\ \E most \in {MostWork} \ {NoBlock, tip} : \E bad \in {StopAt(p, most)} :
          /\ ConnectFails(p, bad, most)
          /\ failedChild' = failedChild \cup MarkedChild(most)
          /\ failedValid' = failedValid \cup {bad}
          /\ IF Disputes(p, bad, most) THEN Reject(bad)
                ELSE UNCHANGED <<rejected, toReconsider>>
          /\ Connected(most, Parent[bad])
          /\ candidates' =
                PrunedBelow(candidates \ Erased(most), most, Parent[bad]) \ {bad}
          /\ GoesOn(p, Parent[bad], most)

-----------------------------------------------------------------------------
(* RPC invalidateblock: InvalidateBlock, then ActivateBestChain. *)
CallsActivate ==
    /\ process = "running" /\ ThreadIsFree
    /\ NoBlock \notin calls
    /\ calls' = calls \cup {NoBlock}
    /\ UNCHANGED process

ReinstatedAbove(failed, newTip) ==   \* mutant: only strictly better blocks
    {x \in linked \ failed : Worse(newTip, x)}
Reinstated(failed, newTip) ==
    {x \in linked \ failed : ~Worse(x, newTip)}

InvalidateBlock(b) ==
    LET wasActive == {x \in Active : b \in Path[x]}
        newTip    == IF b \in Active THEN Parent[b] ELSE tip
    IN  /\ b \in (known \cap Operable) \ {Genesis}
        /\ CallsActivate
        /\ failedValid' = failedValid \cup {b}
        /\ failedChild' = failedChild \cup wasActive
        /\ tip' = newTip
        /\ candidates' = (candidates \ ({b} \cup wasActive))
                            \cup Reinstated(Failed \cup {b} \cup wasActive, newTip)
        /\ UNCHANGED <<known, haveData, scripts, linked, seqId,
                       nBlockSequenceId, unlinked, outside>>

(* RPC reconsiderblock: ReconsiderBlock, then ActivateBestChain. *)
ReconsiderBlock(b) ==
    /\ b \in known \cap Operable
    /\ CallsActivate
    /\ Reconsider(b)
    /\ UNCHANGED <<known, haveData, scripts, linked, seqId, nBlockSequenceId,
                   unlinked, tip, outside>>

(* A transaction lock, or a vote on the payee, turns against b or lets it  *)
(* pass again.                                                             *)
Dispute(b) ==
    /\ process # "dead"
    /\ b \in Disputable
    /\ disputed' = IF b \in disputed THEN disputed \ {b} ELSE disputed \cup {b}
    /\ UNCHANGED <<indexVars, candidates, tip, calls, rejected, aged, checked,
                   toReconsider, reprocessing, process>>

(* The time of a rejection falls out of the window of ReprocessBlocks. *)
RejectionAges(b) ==
    /\ process # "dead"
    /\ b \in rejected \ toReconsider
    /\ rejected' = rejected \ {b}
    /\ aged' = aged \cup {b}
    /\ UNCHANGED <<indexVars, candidates, tip, calls, disputed, checked,
                   toReconsider, reprocessing, process>>

(* ReprocessBlocks: each rejected block of the index is reconsidered,      *)
(* under a cs_main of its own,                                             *)
ReprocessBegin ==
    /\ process # "dead"
    /\ ~reprocessing
    /\ reprocessing' = TRUE
    /\ toReconsider' = rejected
    /\ UNCHANGED <<indexVars, candidates, tip, calls, disputed, rejected, aged,
                   checked, process>>

ReprocessReconsiders(b) ==
    /\ process = "running"
    /\ b \in toReconsider
    /\ toReconsider' = toReconsider \ {b}
    /\ IF b \in known THEN Reconsider(b)
                      ELSE UNCHANGED <<failedValid, failedChild, candidates>>
    /\ UNCHANGED <<known, haveData, scripts, linked, seqId, nBlockSequenceId,
                   unlinked, tip, calls, disputed, rejected, aged, checked,
                   reprocessing, process>>

(* then DisconnectBlocksAndReprocess takes ReprocessDepth + 1 blocks off   *)
(* the chain (genesis has no undo data and stays), and ActivateBestChain   *)
(* runs.                                                                   *)
ReprocessDisconnects ==
    /\ reprocessing /\ toReconsider = {}
    /\ CallsActivate
    /\ reprocessing' = FALSE
    /\ tip' = CHOOSE b \in Active :
                 Height[b] = IF Height[tip] > ReprocessDepth
                               THEN Height[tip] - ReprocessDepth - 1 ELSE 0
    /\ UNCHANGED <<indexVars, candidates, disputed, rejected, aged, checked,
                   toReconsider>>

-----------------------------------------------------------------------------
Receive(b) ==
    \/ CheckBlock(b)
    \/ AcceptRefused(b)
    \/ AcceptReconsiders(b)
    \/ AcceptDuplicate(b)
    \/ AcceptInvalid(b)
    \/ AcceptNoSpace(b)
    \/ AcceptStored(b)

Activate(p) ==
    \/ ActivateDone(p)
    \/ ActivateConnects(p)
    \/ ActivateFails(p)

Reprocess ==
    \/ ReprocessBegin
    \/ \E b \in Block : ReprocessReconsiders(b)
    \/ ReprocessDisconnects

(* The network and the operator's invalidateblock. *)
NetworkNext ==
    \/ \E b \in Block \ {Genesis} : Receive(b)
    \/ \E p \in Calls : Activate(p)
    \/ \E b \in Block : InvalidateBlock(b)
    \/ \E b \in Block : Dispute(b) \/ RejectionAges(b)

ReconsiderNext == NetworkNext \/ \E b \in Block : ReconsiderBlock(b)

Next == ReconsiderNext \/ Reprocess

Spec           == Init /\ [][Next]_vars
NetworkSpec    == Init /\ [][NetworkNext]_vars
ReconsiderSpec == Init /\ [][ReconsiderNext]_vars

(* A thread that runs ActivateBestChain keeps at it: it retries TRY_LOCK   *)
(* every 50 ms.  Some such thread gets the lock in the end.                *)
FairSpec == NetworkSpec /\ WF_vars(\E p \in Calls : Activate(p))

-----------------------------------------------------------------------------
(* Properties. *)

(* nChainTx is set for exactly the blocks whose whole chain has data, and  *)
(* mapBlocksUnlinked waits for exactly the others: AcceptBlock, in any     *)
(* order of arrival, leaves no block that has all its parents behind       *)
(* (CheckBlockIndex: "If this block has block data available, some parent  *)
(* doesn't, ... it must be in mapBlocksUnlinked").  "SCRIPTS valid implies *)
(* all parents are SCRIPTS valid".                                         *)
IndexIsLinked ==
    /\ linked = {b \in haveData : Path[b] \subseteq haveData}
    /\ unlinked = haveData \ linked
    /\ \A b \in scripts : Path[b] \subseteq scripts

(* "If this block sorts worse than the current tip, it cannot be in        *)
(* setBlockIndexCandidates", whatever moved the tip: a reorganisation that *)
(* failed half way, invalidateblock or ReprocessBlocks.                    *)
CandidatesNotWorse == \A c \in candidates : ~Worse(c, tip)

(* "we know all blocks in it are valid already": FindMostWorkChain never   *)
(* looks at the flags of the active chain, so none of its blocks may be    *)
(* failed or unchecked, although flags change between two of its steps.    *)
ActiveChainClean == Active \cap Failed = {} /\ Active \subseteq scripts

(* The branches ActivateBestChain could move to. *)
Better(b) == b \in linked /\ Path[b] \cap Failed = {} /\ Worse(tip, b)

Quiet == process = "running" /\ calls = {}

(* "The result is either failure or an activated best chain": with no call *)
(* of ActivateBestChain running, no chain without a failed block beats the *)
(* active one.                                                             *)
BestChainActive == Quiet => \A b \in linked : ~Better(b)

(* What a later invalidation of the tip falls back on (CheckBlockIndex:    *)
(* "If this block sorts at least as good as the current tip and is valid,  *)
(* it must be in setBlockIndexCandidates"), with no call running.  Between *)
(* two steps of a call it does not hold, where CheckBlockIndex may run.    *)
GoodBlocksAreCandidates ==
    Quiet => \A b \in linked :
                Path[b] \cap Failed = {} /\ ~Worse(b, tip) => b \in candidates

(* "Either the current tip or a successor of it we're working towards is   *)
(* left in setBlockIndexCandidates" when PruneBlockIndexCandidates has run.*)
PruneLeavesSuccessor ==
    [][Work[tip'] > Work[tip] => \E c \in candidates' : tip' \in Path[c]]_vars

(* A better chain is activated, or one of its blocks turns out invalid,    *)
(* whatever else arrives or is invalidated meanwhile.                      *)
BestChainWins == []<>(\A b \in Block : ~Better(b))
=============================================================================
