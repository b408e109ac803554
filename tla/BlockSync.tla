----------------------------- MODULE BlockSync -----------------------------
(* How nodes that run this program fetch blocks from each other: inv,      *)
(* getblocks, getdata and block messages, one ordered channel each way per *)
(* connection.  Every node does what ProcessMessage, ProcessGetData and    *)
(* SendMessages of main.cpp do; a block whose parent is not known is       *)
(* dropped, not kept.                                                      *)
(*                                                                         *)
(* All blocks are valid and of equal work, and the block index is that of  *)
(* BlockTree reduced to what these messages touch.  A connection counts    *)
(* from the version message on.  No node is in initial block download:     *)
(* IsInitialBlockDownload is false up to height 600.                       *)
EXTENDS Naturals, Sequences, FiniteSets

CONSTANTS
    Node,
    Dialed,     \* <<n, p>>: the connection of n and p is outbound at n
    Block, Genesis,
    Branch,     \* the blocks from the genesis block to a block, in order
    Recent,     \* blocks whose time is less than six hours old
    Miner,      \* nodes that make blocks
    Start,      \* the block indexes with which the nodes may start
    Limit,      \* nLimit of a getblocks answer, 500
    MaxReorganizationDepth,
    MaxDisconnects,     \* bound on lost connections
    NoBlock

Last(s) == s[Len(s)]
Elements(s) == {s[i] : i \in DOMAIN s}
(* A sequence without the elements of a set. *)
Without(s, T) ==
    LET kept[i \in 0 .. Len(s)] ==
            IF i = 0 THEN <<>>
            ELSE IF s[i] \in T THEN kept[i-1] ELSE Append(kept[i-1], s[i])
    IN  kept[Len(s)]

ASSUME BranchAssumption ==
    /\ Genesis \in Block /\ NoBlock \notin Block
    /\ Branch \in [Block -> Seq(Block)]
    /\ \A b \in Block :
          /\ Branch[b] # <<>> /\ Branch[b][1] = Genesis /\ Last(Branch[b]) = b
          /\ \A i \in DOMAIN Branch[b] : Branch[Branch[b][i]] = SubSeq(Branch[b], 1, i)

ASSUME NodeAssumption ==
    /\ Dialed \subseteq Node \X Node
    /\ \A n \in Node : <<n, n>> \notin Dialed   \* its own nonce gives a node away
    /\ Limit \in Nat \ {0}
    /\ Start \subseteq [Node -> SUBSET Block]
    /\ \A start \in Start, n \in Node :
          /\ Genesis \in start[n]
          /\ \A b \in start[n] : Elements(Branch[b]) \subseteq start[n]

Height(b) == Len(Branch[b]) - 1
Parent(b) == Branch[b][Len(Branch[b]) - 1]
Links == Dialed \cup {<<l[2], l[1]>> : l \in Dialed}

VARIABLES
    index,          \* mapBlockIndex of each node
    tip,            \* chainActive.Tip()
    scripts,        \* blocks that have been connected: BLOCK_VALID_SCRIPTS
    linked,         \* the connections that are up, in both directions
    peer,           \* CNode and CNodeState of n for p
    channel,        \* messages from n to p
    nSyncStarted,
    nDisconnects

chainVars == <<index, tip, scripts>>
linkVars == <<linked, nSyncStarted, nDisconnects>>
syncVars == <<chainVars, linkVars, peer, channel>>

(* setInventoryKnown keeps the last thousand entries, more than arise here. *)
NewPeer == [known     |-> {},       \* setInventoryKnown
            toSend    |-> <<>>,     \* vInventoryToSend
            continue  |-> NoBlock,     \* hashContinue
            requested |-> {},       \* vBlockRequested
            getData   |-> <<>>,     \* vRecvGetData
            fSyncStarted |-> FALSE]

Inv(blocks) == [type |-> "inv", blocks |-> blocks]
GetData(blocks) == [type |-> "getdata", blocks |-> blocks]
BlockMsg(b) == [type |-> "block", block |-> b]
(* The locator of a chain, by the block it is the locator of. *)
GetBlocks(locator, stop) == [type |-> "getblocks", locator |-> locator, stop |-> stop]

SyncInit ==
    /\ index \in Start
    /\ tip \in [Node -> Block]
    /\ \A n \in Node : /\ tip[n] \in index[n]
                       /\ \A b \in index[n] : Height(b) <= Height(tip[n])
    /\ scripts = [n \in Node |-> Elements(Branch[tip[n]])]
    /\ linked = Links
    /\ peer = [n \in Node |-> [p \in Node |-> NewPeer]]
    /\ channel = [n \in Node |-> [p \in Node |-> <<>>]]
    /\ nSyncStarted = [n \in Node |-> 0]
    /\ nDisconnects = 0

-----------------------------------------------------------------------------
Chain(n) == Branch[tip[n]]

(* PushInventory, of one block or of several.  The code may queue a block  *)
(* twice; SendMessages drops the second, so the queue has it once here.    *)
Queued(r) == r.known \cup Elements(r.toSend)
PushInventory(r, b) == [r EXCEPT !.toSend = IF b \in Queued(r) THEN @ ELSE Append(@, b)]
PushAll(r, blocks) == [r EXCEPT !.toSend = @ \o Without(blocks, Queued(r))]

(* AcceptBlock and ActivateBestChain: the block is the new tip when it has  *)
(* more work, and then it is announced, alone, to every peer.              *)
AcceptBlock(n, b) ==
    /\ index' = [index EXCEPT ![n] = @ \cup {b}]
    /\ IF Height(b) > Height(tip[n])
       THEN /\ tip' = [tip EXCEPT ![n] = b]
            /\ scripts' = [scripts EXCEPT ![n] = @ \cup Elements(Branch[b])]
       ELSE UNCHANGED <<tip, scripts>>

\* mutant: announces new tips only on the connections it dialed
RelayOutbound(n, b, peers) ==
    [q \in Node |-> IF <<n, q>> \in linked \cap Dialed /\ Height(b) > Height(tip[n])
                    THEN PushInventory(peers[q], b)
                    ELSE peers[q]]

Relay(n, b, peers) ==
    [q \in Node |-> IF <<n, q>> \in linked /\ Height(b) > Height(tip[n])
                    THEN PushInventory(peers[q], b)
                    ELSE peers[q]]

(* The miner or the staker of a node finds a block on its tip. *)
Mine(n, b) ==
    /\ n \in Miner
    /\ b # Genesis /\ Parent(b) = tip[n]
    /\ \A m \in Node : b \notin index[m]
    /\ AcceptBlock(n, b)
    /\ peer' = [peer EXCEPT ![n] = Relay(n, b, @)]
    /\ UNCHANGED <<linkVars, channel>>

-----------------------------------------------------------------------------
nPreferredDownload(n) == Cardinality({p \in Node : <<n, p>> \in Dialed \cap linked})

(* pindexBestHeader is the tip: a header comes with its block. *)
StartsSync(n, p) ==
    /\ ~peer[n][p].fSyncStarted
    /\ <<n, p>> \in Dialed \/ nPreferredDownload(n) = 0
    /\ nSyncStarted[n] = 0 \/ tip[n] \in Recent

(* SendMessages: start the synchronisation, then announce. *)
SendMessages(n, p) ==
    LET r == peer[n][p]
        new == Without(r.toSend, r.known)
        start == StartsSync(n, p)
    IN /\ <<n, p>> \in linked
       /\ start \/ r.toSend # <<>>
       /\ peer' = [peer EXCEPT ![n][p] =
                     [r EXCEPT !.fSyncStarted = r.fSyncStarted \/ start,
                               !.known = @ \cup Elements(new),
                               !.toSend = <<>>]]
       /\ nSyncStarted' = IF start THEN [nSyncStarted EXCEPT ![n] = @ + 1]
                          ELSE nSyncStarted
       /\ channel' = [channel EXCEPT ![n][p] =
                        @ \o (IF start THEN <<GetBlocks(tip[n], NoBlock)>> ELSE <<>>)
                          \o (IF new # <<>> THEN <<Inv(new)>> ELSE <<>>)]
       /\ UNCHANGED <<chainVars, linked, nDisconnects>>

-----------------------------------------------------------------------------
(* ProcessMessages takes the next message once the last getdata is served. *)
Receives(n, p, type) ==
    /\ <<n, p>> \in linked
    /\ peer[n][p].getData = <<>>
    /\ channel[p][n] # <<>> /\ Head(channel[p][n]).type = type

TakeAndSend(n, p, reply) ==
    channel' = [channel EXCEPT ![p][n] = Tail(@), ![n][p] = @ \o reply]

(* An inv of blocks: ask for those that are not in the index, whether or   *)
(* not another peer has been asked.                                        *)
ReceiveInv(n, p) ==
    /\ Receives(n, p, "inv")
    /\ LET blocks == Head(channel[p][n]).blocks
           toFetch == Without(blocks, index[n])
       IN /\ peer' = [peer EXCEPT ![n][p].known = @ \cup Elements(blocks)]
          /\ TakeAndSend(n, p, IF toFetch = <<>> THEN <<>> ELSE <<GetData(toFetch)>>)
    /\ UNCHANGED <<chainVars, linkVars>>

(* FindForkInGlobalIndex, and what of the chain follows the fork up to the *)
(* stop block, which is left out.                                          *)
Wanted(n, locator, stop) ==
    LET next == Cardinality(Elements(Chain(n)) \cap Elements(Branch[locator])) + 1
        stops == \E i \in next .. Len(Chain(n)) : Chain(n)[i] = stop
    IN  SubSeq(Chain(n), next, IF stops THEN Height(stop) ELSE Len(Chain(n)))

ReceiveGetBlocks(n, p) ==
    /\ Receives(n, p, "getblocks")
    /\ LET msg == Head(channel[p][n])
           wanted == Wanted(n, msg.locator, msg.stop)
           full == Len(wanted) >= Limit
           batch == IF full THEN SubSeq(wanted, 1, Limit) ELSE wanted
           pushed == PushAll(peer[n][p], batch)
       IN peer' = [peer EXCEPT ![n][p] =
                     [pushed EXCEPT !.continue = IF full THEN batch[Limit] ELSE @]]
    /\ TakeAndSend(n, p, <<>>)
    /\ UNCHANGED <<chainVars, linkVars>>

\* mutant: serves the active chain only
ServesActive(n, b) == b \in Elements(Chain(n))

(* ProcessGetData serves one block in a call. *)
Serves(n, b) ==
    /\ b \in index[n]
    /\ \/ b \in Elements(Chain(n))
       \/ /\ b \in scripts[n]
          /\ Height(tip[n]) - Height(b) < MaxReorganizationDepth

(* After the last block of a batch an inv of the tip makes the peer ask for *)
(* the next one; it is sent even if the peer knows the tip.                 *)
ProcessGetData(n, p, blocks, taken) ==
    LET b == Head(blocks)
        last == b = peer[n][p].continue
    IN /\ peer' = [peer EXCEPT ![n][p].getData = Tail(blocks),
                              ![n][p].continue = IF Serves(n, b) /\ last THEN NoBlock ELSE @]
       /\ channel' = [taken EXCEPT ![n][p] =
                        @ \o (IF Serves(n, b) THEN <<BlockMsg(b)>> ELSE <<>>)
                          \o (IF Serves(n, b) /\ last THEN <<Inv(<<tip[n]>>)>> ELSE <<>>)]
       /\ UNCHANGED <<chainVars, linkVars>>

ReceiveGetData(n, p) ==
    /\ Receives(n, p, "getdata")
    /\ ProcessGetData(n, p, Head(channel[p][n]).blocks,
                      [channel EXCEPT ![p][n] = Tail(@)])

ServeNext(n, p) ==
    /\ <<n, p>> \in linked
    /\ peer[n][p].getData # <<>>
    /\ ProcessGetData(n, p, peer[n][p].getData, channel)

\* mutant: asks for the dropped block again with the getblocks
ReceiveOrphanAgain(n, p) ==
    LET b == Head(channel[p][n]).block
        stop == IF b \in peer[n][p].requested THEN Parent(b) ELSE b
    IN /\ Receives(n, p, "block")
       /\ b # Genesis /\ Parent(b) \notin index[n]
       /\ peer' = [peer EXCEPT ![n][p].requested = @ \cup {stop}]
       /\ TakeAndSend(n, p, <<GetBlocks(tip[n], stop), GetData(<<b>>)>>)
       /\ UNCHANGED <<chainVars, linkVars>>

(* A block whose parent is unknown is dropped, and the peer asked for what *)
(* comes before it: once up to this block, and when the same block comes   *)
(* again up to its parent.                                                 *)
ReceiveOrphan(n, p) ==
    LET b == Head(channel[p][n]).block
        stop == IF b \in peer[n][p].requested THEN Parent(b) ELSE b
    IN /\ Receives(n, p, "block")
       /\ b # Genesis /\ Parent(b) \notin index[n]
       /\ peer' = [peer EXCEPT ![n][p].requested = @ \cup {stop}]
       /\ TakeAndSend(n, p, <<GetBlocks(tip[n], stop)>>)
       /\ UNCHANGED <<chainVars, linkVars>>

ReceiveBlock(n, p) ==
    /\ Receives(n, p, "block")
    /\ LET b == Head(channel[p][n]).block
           peers == [peer[n] EXCEPT ![p].known = @ \cup {b}]
       IN /\ b # Genesis => Parent(b) \in index[n]
          /\ IF b \in index[n]
             THEN /\ peer' = [peer EXCEPT ![n] = peers]
                  /\ UNCHANGED chainVars
             ELSE /\ AcceptBlock(n, b)
                  /\ peer' = [peer EXCEPT ![n] = Relay(n, b, peers)]
    /\ TakeAndSend(n, p, <<>>)
    /\ UNCHANGED linkVars

-----------------------------------------------------------------------------
\* mutant: forgets that the peer it synchronised with is gone
FinalizeNodeKeepsCount(n, p) == nSyncStarted[n]

(* The connection is lost: both ends delete the node, with what was on the *)
(* way (FinalizeNode); the one that dialed dials again (InitializeNode).   *)
FinalizeNode(n, p) ==
    IF peer[n][p].fSyncStarted THEN nSyncStarted[n] - 1 ELSE nSyncStarted[n]

LoseConnection(n, p) ==
    /\ <<n, p>> \in Dialed \cap linked
    /\ nDisconnects < MaxDisconnects
    /\ nDisconnects' = nDisconnects + 1
    /\ linked' = linked \ {<<n, p>>, <<p, n>>}
    /\ nSyncStarted' = [nSyncStarted EXCEPT ![n] = FinalizeNode(n, p),
                                           ![p] = FinalizeNode(p, n)]
    /\ peer' = [peer EXCEPT ![n][p] = NewPeer, ![p][n] = NewPeer]
    /\ channel' = [channel EXCEPT ![n][p] = <<>>, ![p][n] = <<>>]
    /\ UNCHANGED chainVars

Connect(n, p) ==
    /\ <<n, p>> \in Dialed \ linked
    /\ linked' = linked \cup {<<n, p>>, <<p, n>>}
    /\ UNCHANGED <<chainVars, peer, channel, nSyncStarted, nDisconnects>>

Receive(n, p) ==
    \/ ReceiveInv(n, p) \/ ReceiveGetBlocks(n, p) \/ ReceiveGetData(n, p)
    \/ ServeNext(n, p) \/ ReceiveOrphan(n, p) \/ ReceiveBlock(n, p)

(* ThreadMessageHandler of a node. *)
HandleMessages(n) == \E p \in Node : Receive(n, p) \/ SendMessages(n, p)

SyncNext ==
    \/ \E n \in Node, b \in Block : Mine(n, b)
    \/ \E n \in Node : HandleMessages(n)
    \/ \E n, p \in Node : LoseConnection(n, p) \/ Connect(n, p)

(* The message thread of a node goes round its peers for ever, and         *)
(* ThreadOpenConnections keeps connecting.  Much less is assumed: that the *)
(* nodes do not all stop while one has something to do.  Nobody has to     *)
(* find a block or to lose a connection.                                   *)
SyncFairness ==
    WF_syncVars(\E n \in Node : HandleMessages(n) \/ \E p \in Node : Connect(n, p))

SyncSpec == SyncInit /\ [][SyncNext]_syncVars /\ SyncFairness

-----------------------------------------------------------------------------
(* Whatever a node asks a peer for, the peer can serve: a block it has     *)
(* announced, on its chain now or once.  Nothing repeats a request, so one *)
(* that is ignored is lost for good, even when the peer reorganises        *)
(* between its inv and the getdata.                                        *)
RequestsCanBeServed ==
    \A n, p \in Node :
       /\ \A b \in Elements(peer[p][n].getData) : Serves(p, b)
       /\ \A i \in DOMAIN channel[n][p] :
             channel[n][p][i].type = "getdata" =>
                \A b \in Elements(channel[n][p][i].blocks) : Serves(p, b)

Quiet ==
    \A n, p \in Node : /\ channel[n][p] = <<>>
                      /\ peer[n][p].getData = <<>>
                      /\ peer[n][p].toSend = <<>>

(* The exchange of messages about a finite set of blocks ends: dropped     *)
(* blocks, getblocks and the inv that asks for the next batch do not keep  *)
(* two nodes asking each other for ever.                                   *)
ExchangeEnds == <>[]Quiet

SameHeight == \A n, p \in Node : Height(tip[n]) = Height(tip[p])

NoneDropped == \A n, p \in Node : peer[n][p].requested = {}

(* As long as no block arrives before its parent, every node gets to a     *)
(* best chain, through batches, reorganisations and lost connections.      *)
FollowsUnlessDropped == []NoneDropped => <>[]SameHeight

AllMined == UNION {index[n] : n \in Node} = Block

(* Whatever is dropped, a node that joins when no new blocks come gets     *)
(* everything but perhaps the last block: the batches do not break off,    *)
(* and the loss of the peer that was asked for blocks does not end the     *)
(* download.                                                               *)
DownloadsAllButTip ==
    AllMined => <>[](\A n, p \in Node : Height(tip[n]) >= Height(tip[p]) - 1)
=============================================================================
