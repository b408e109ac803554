-------------------------- MODULE MasternodeSync --------------------------
(* How a node gets the sporks, the masternode list, the payment votes and   *)
(* the budget from its peers, one asset after the other (CMasternodeSync).  *)
(* Until it has FINISHED it neither stakes nor enforces payments.           *)
(*                                                                          *)
(* Time goes in steps of MASTERNODE_SYNC_TIMEOUT, five seconds, in which    *)
(* Process does its work once.  Ages are in steps, up to the longest that   *)
(* is compared with.  Peers that are too old to be asked are left out; the  *)
(* counts of ssc messages are only displayed.                               *)
EXTENDS Naturals, SequencesExt

CONSTANTS
    MaxPeers,       \* bound on connections at a time
    Attempts,       \* MASTERNODE_SYNC_THRESHOLD
    StageTimeout,   \* steps until a stage without any item is given up, 5
    QuietTime,      \* steps without a new item that end a stage, 2
    RetryAfter,     \* steps from a failure to the next attempt, 12
    ItemsToCome,    \* bound on items that peers send
    MaxResyncs,     \* resets for lack of masternodes, 2
    MaxResets,      \* bound on resets by the operator or after a sleep
    Never

ASSUME TimeAssumption ==
    /\ {MaxPeers, Attempts, StageTimeout, QuietTime, RetryAfter, ItemsToCome, MaxResyncs,
      MaxResets} \subseteq Nat
    /\ Never \notin Nat

Item == {"LIST", "MNW", "BUDGET"}

VARIABLES
    asset,          \* RequestedMasternodeAssets
    attempt,        \* RequestedMasternodeAttempt
    last,           \* age of lastMasternodeList, lastMasternodeWinner, lastBudgetItem
    started,        \* age of nAssetSyncStarted
    failed,         \* age of lastFailure
    vNodes,         \* what each connected peer has been asked for, oldest first
    fBlockchainSynced,
    at600,          \* the tip is block 600
    enforced,       \* SPORK_8_MASTERNODE_PAYMENT_ENFORCEMENT
    enabled,        \* CountEnabled() > 0
    syncCount,
    toCome, nResets,
    owed            \* history: what a node that finishes must have had

stageVars == <<asset, attempt, last, started, failed>>
worldVars == <<fBlockchainSynced, at600, enforced, enabled, toCome, nResets>>
syncVars == <<stageVars, worldVars, vNodes, syncCount, owed>>

(* After a reset, a recent chain, and the items without which payments      *)
(* cannot be enforced if they are.                                          *)
OwedFromStart == {"chain"} \cup IF enforced THEN {"items"} ELSE {}

Grown(age, limit) == IF age = Never \/ age > limit THEN age ELSE age + 1
(* The ages that nothing compares before they are set again do not count.   *)
GrownStart == IF asset \in Item THEN Grown(started, StageTimeout) ELSE started
GrownFailure == IF asset = "FAILED" THEN Grown(failed, RetryAfter) ELSE failed
Past(i) ==
    asset \in CASE i = "LIST" -> {"MNW", "BUDGET", "FINISHED"}
              [] i = "MNW" -> {"BUDGET", "FINISHED"}
              [] i = "BUDGET" -> {"FINISHED"}
GrownItems ==
    [i \in Item |-> IF Past(i) /\ last[i] # Never THEN QuietTime + 1
                   ELSE Grown(last[i], QuietTime)]

NoItems == [i \in Item |-> Never]

SyncInit ==
    /\ asset = "INITIAL" /\ attempt = 0
    /\ last = NoItems
    /\ started = 0 /\ failed = Never
    /\ vNodes = <<>>
    /\ fBlockchainSynced = FALSE /\ at600 = FALSE
    /\ enforced \in BOOLEAN
    /\ enabled = FALSE
    /\ syncCount = 0
    /\ toCome = ItemsToCome
    /\ nResets = 0
    /\ owed = OwedFromStart

-----------------------------------------------------------------------------
(* Below the tip of block 600 and above, the tip has to be recent for once. *)
IsBlockchainSynced == fBlockchainSynced \/ at600

Ages == started' = GrownStart /\ failed' = GrownFailure
Stay == asset' = asset /\ attempt' = attempt /\ Ages

Following ==
    [SPORKS |-> "LIST", LIST |-> "MNW", MNW |-> "BUDGET", BUDGET |-> "FINISHED"]

GetNextAsset(done) ==
    /\ asset' = Following[asset]
    /\ attempt' = done
    /\ started' = 0
    /\ failed' = GrownFailure

\* mutant: goes on without the list or the votes
FailNever ==
    GetNextAsset(0)

(* No item at all: without the list and the votes payments cannot be        *)
(* enforced, without a budget they can.                                     *)
GiveUp ==
    IF asset # "BUDGET" /\ enforced
    THEN /\ asset' = "FAILED" /\ attempt' = 0
         /\ started' = GrownStart
         /\ failed' = 0
    ELSE GetNextAsset(0)

Resyncs == asset = "FINISHED" /\ ~enabled /\ syncCount < MaxResyncs
Retries == asset = "FAILED" /\ failed # Never /\ failed > RetryAfter

-----------------------------------------------------------------------------
(* The peers of nodes that what can still be asked of: the loop over vNodes *)
(* passes over the others, and returns after the first.                     *)
Unasked(nodes, what) == {i \in DOMAIN nodes : what \notin nodes[i]}
Asked(nodes, what) ==
    LET first == CHOOSE i \in Unasked(nodes, what) :
                     \A j \in Unasked(nodes, what) : i <= j
    IN  [nodes EXCEPT ![first] = @ \cup {what}]

(* From INITIAL every peer is to be asked anew, unless cs_vNodes is taken   *)
(* at that moment; the same call then asks the first peer for sporks.       *)
Begin ==
    /\ \/ /\ asset = "INITIAL"
          /\ last' = GrownItems /\ failed' = GrownFailure
          /\ UNCHANGED <<syncCount, owed>>
       \/ /\ Resyncs \/ Retries
          /\ last' = NoItems /\ failed' = Never
          /\ syncCount' = IF Resyncs THEN syncCount + 1 ELSE syncCount
          /\ owed' = OwedFromStart
    /\ asset' = "SPORKS" /\ started' = 0
    /\ \E nodes \in {[i \in DOMAIN vNodes |-> {}], vNodes} :
          \/ attempt' = 0 /\ vNodes' = nodes
          \/ /\ Unasked(nodes, "SPORKS") # {}
             /\ attempt' = 1
             /\ vNodes' = Asked(nodes, "SPORKS")
    /\ UNCHANGED worldVars

(* The third peer asked for sporks ends that stage. *)
AskSporks ==
    /\ asset = "SPORKS"
    /\ Unasked(vNodes, asset) # {}
    /\ vNodes' = Asked(vNodes, asset)
    /\ IF attempt >= 2 THEN GetNextAsset(1)
       ELSE asset' = asset /\ attempt' = attempt + 1 /\ Ages

\* mutant: waits for more requests than are ever sent
QuietTooLate ==
    last[asset] # Never /\ last[asset] > QuietTime /\ attempt > Attempts * 3
Quiet == last[asset] # Never /\ last[asset] > QuietTime /\ attempt >= Attempts
TimedOut ==
    last[asset] = Never /\ (attempt >= Attempts * 3 \/ started > StageTimeout)

StageEnds ==
    /\ asset \in Item /\ vNodes # <<>>
    /\ Quiet \/ (asset = "BUDGET" /\ TimedOut)
    /\ GetNextAsset(0)
    /\ UNCHANGED vNodes

(* For the list and the votes, the time is only looked at when there is a   *)
(* peer to ask; that peer is marked, and not asked.                         *)
AskItems ==
    /\ asset \in Item
    /\ ~Quiet /\ ~(asset = "BUDGET" /\ TimedOut)
    /\ Unasked(vNodes, asset) # {}
    /\ vNodes' = Asked(vNodes, asset)
    /\ IF TimedOut THEN GiveUp
       ELSE /\ asset' = asset
            /\ attempt' = IF attempt >= Attempts * 3 THEN attempt ELSE attempt + 1
            /\ Ages

Waits ==
    /\ ~Resyncs /\ ~Retries /\ asset # "INITIAL"
    /\ \/ asset \in {"FINISHED", "FAILED"}
       \/ asset \in Item /\ ~IsBlockchainSynced
       \/ /\ Unasked(vNodes, asset) = {}
          /\ asset \in Item /\ vNodes # <<>> =>
                ~Quiet /\ ~(asset = "BUDGET" /\ TimedOut)
    /\ Stay /\ UNCHANGED vNodes

InStage ==
    /\ asset = "SPORKS" \/ (asset \in Item /\ IsBlockchainSynced)
    /\ StageEnds \/ AskSporks \/ AskItems

(* One call of Process that finds the locks free. *)
Process ==
    \/ Begin
    \/ /\ InStage
       /\ last' = GrownItems
       /\ owed' = IF asset = "SPORKS" \/ fBlockchainSynced THEN owed
                  ELSE owed \ {"chain"}
       /\ UNCHANGED <<worldVars, syncCount>>
    \/ Waits /\ last' = GrownItems /\ UNCHANGED <<worldVars, syncCount, owed>>

(* Process finds cs_vNodes or cs_main taken. *)
LocksTaken ==
    /\ asset \notin {"INITIAL", "FINISHED", "FAILED"}
    /\ Stay /\ last' = GrownItems
    /\ UNCHANGED <<worldVars, vNodes, syncCount, owed>>

-----------------------------------------------------------------------------
(* AddedMasternodeList, AddedMasternodeWinner, AddedBudgetItem: called for  *)
(* an item that has been seen at most twice since the last reset; also for  *)
(* one that the node knew before, by AlreadyHave, whatever its chain.       *)
Added(i) ==
    /\ toCome > 0
    /\ toCome' = toCome - 1
    /\ last' = [last EXCEPT ![i] = 0]
    /\ enabled' \in {enabled, enabled \/ i = "LIST"}
    /\ UNCHANGED <<asset, attempt, started, failed, fBlockchainSynced, at600, enforced,
                   nResets, vNodes, syncCount, owed>>

(* The masternodes of the list expire. *)
LoseMasternodes ==
    /\ enabled /\ enabled' = FALSE
    /\ UNCHANGED <<stageVars, fBlockchainSynced, at600, enforced, toCome, nResets,
                   vNodes, syncCount, owed>>

NewPeer ==
    /\ Len(vNodes) < MaxPeers
    /\ vNodes' = Append(vNodes, {})
    /\ UNCHANGED <<stageVars, worldVars, syncCount, owed>>

(* A connection lasts long enough for Process to ask for something. *)
Disconnect(i) ==
    /\ vNodes[i] # {} \/ asset \in {"FINISHED", "FAILED"}
    /\ vNodes' = RemoveAt(vNodes, i)
    /\ UNCHANGED <<stageVars, worldVars, syncCount, owed>>

(* The tip is less than a day old, and not block 600. *)
BlockchainSynced ==
    /\ ~fBlockchainSynced /\ ~at600
    /\ fBlockchainSynced' = TRUE
    /\ UNCHANGED <<stageVars, at600, enforced, enabled, toCome, nResets,
                   vNodes, syncCount, owed>>

(* The tip comes to block 600, or leaves it; looked at without the flag.    *)
TipMoves ==
    /\ ~fBlockchainSynced
    /\ at600' = ~at600
    /\ UNCHANGED <<stageVars, fBlockchainSynced, enforced, enabled, toCome, nResets,
                   vNodes, syncCount, owed>>

(* A spork message, or the time at which a spork becomes active. *)
SporkChanges ==
    /\ enforced' = ~enforced
    /\ owed' = owed \ {"items"}
    /\ UNCHANGED <<stageVars, fBlockchainSynced, at600, enabled, toCome, nResets,
                   vNodes, syncCount>>

(* The operator calls mnsync reset, or the node wakes up after an hour: in  *)
(* the second case the chain is out of date too.                            *)
Resets ==
    /\ nResets < MaxResets /\ nResets' = nResets + 1
    /\ last' = NoItems
    /\ fBlockchainSynced' \in {fBlockchainSynced, FALSE}
    /\ UNCHANGED <<at600, enforced, enabled, toCome, syncCount>>

Reset ==
    /\ Resets
    /\ asset' = "INITIAL" /\ attempt' = 0
    /\ started' = 0 /\ failed' = Never
    /\ owed' = OwedFromStart
    /\ UNCHANGED vNodes

(* CMasternodeSync has no lock: a reset by another thread, after Process    *)
(* has found that a stage is over, is overwritten by the stage that comes   *)
(* next.                                                                    *)
ResetOverwritten ==
    /\ Resets
    /\ InStage /\ asset' # asset
    /\ owed' = {}

SyncNext ==
    \/ Process \/ LocksTaken
    \/ \E i \in Item : Added(i)
    \/ LoseMasternodes
    \/ NewPeer \/ \E i \in DOMAIN vNodes : Disconnect(i)
    \/ BlockchainSynced \/ TipMoves
    \/ SporkChanges
    \/ Reset \/ ResetOverwritten

(* Process is called every five seconds and does not find the locks taken   *)
(* for ever; the chain is downloaded in the end, if it does not stay at     *)
(* block 600.                                                               *)
SyncSpec ==
    /\ SyncInit /\ [][SyncNext]_syncVars
    /\ WF_syncVars(Process) /\ SF_syncVars(BlockchainSynced)

-----------------------------------------------------------------------------
(* A node that has FINISHED, which is when it starts to stake and to refuse *)
(* blocks for their payees, has had a recent chain, and has received        *)
(* masternodes and votes since the last reset; but a recent chain is not    *)
(* owed when Process went on at block 600, the items are not when payments  *)
(* were not enforced at some time since, and neither is when Process        *)
(* overwrote that reset.                                                    *)
FinishedIsReady ==
    asset = "FINISHED" =>
        /\ "chain" \in owed => fBlockchainSynced
        /\ "items" \in owed => last["LIST"] # Never /\ last["MNW"] # Never

(* As long as new peers keep connecting, no stage lasts for ever: the       *)
(* synchronisation finishes or fails and starts again, and once payments    *)
(* are no longer enforced it finishes for good.  Peers are asked once for   *)
(* each asset, so that the peers of one moment are not enough               *)
(* (masternode-sync.cpp:317).                                               *)
SyncEnds ==
    ([]<><<NewPeer>>_syncVars) =>
        /\ []<>(asset \in {"FINISHED", "FAILED"})
        /\ (<>[]~enforced) => <>[](asset = "FINISHED")

=============================================================================
