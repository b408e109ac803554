---------------------------- MODULE Connections -----------------------------
(* The life of a connection (net.cpp): a CNode is made by the socket handler  *)
(* (a peer called us) or by a thread that opens connections, serviced by the  *)
(* socket and the message handler, taken out of vNodes by the socket handler  *)
(* and deleted when no thread uses it any more.  Two counters decide:         *)
(* nRefCount, one reference for the place in vNodes and one for each copy of  *)
(* vNodes a thread works on, and semOutbound, one slot for each connection    *)
(* that was opened from here.                                                 *)
(*                                                                            *)
(* What a step of an opener does after it has published its node is done      *)
(* without a lock, so the socket handler may run between any two of them.     *)
(* Threads that open connections are taken to have targets of their own, and  *)
(* no peer calls from an address that is a target (a caller's port is a       *)
(* random one): FindNode (net.cpp:401) then finds nothing.                    *)
EXTENDS Naturals, FiniteSets

CONSTANTS
    Opener,         \* ThreadOpenConnections, ThreadOpenAddedConnections
    MaxOutbound,    \* MAX_OUTBOUND_CONNECTIONS, and nMaxConnections if fewer
    MaxInbound,     \* nMaxConnections - MAX_OUTBOUND_CONNECTIONS
    MaxNodes,       \* bound: connections in the life of the process
    None            \* no node

ASSUME ConnectionsAssumption ==
    /\ IsFiniteSet(Opener)
    /\ MaxOutbound \in Nat /\ MaxInbound \in Nat /\ MaxNodes \in Nat
    /\ None \notin Nat

VARIABLES
    nLastNodeId,        \* the number of CNodes made so far
    vNodes,
    vNodesDisconnected, \* taken out of vNodes, not yet deleted
    fInbound, fNetworkNode, fDisconnect,  \* the nodes with the flag
    grantOutbound,      \* the nodes that hold a slot of semOutbound
    nRefCount,
    value,              \* of semOutbound: free slots
    handler,            \* where the socket handler is
    serviced,           \* its copy of vNodes
    closed,             \* the nodes whose hSocket is INVALID_SOCKET
    polling, polled,    \* whether the message handler has a copy, and the copy
    waiting,            \* the nodes of the copy whose turn has not come
    processing,         \* the node whose messages it is in
    at,                 \* where each opener is
    granted,            \* the openers whose CSemaphoreGrant holds a slot
    pnode               \* the node each opener has just made

socketVars  == <<handler, serviced>>
messageVars == <<polling, polled, waiting, processing>>
openerVars  == <<at, granted, pnode>>
vars == <<nLastNodeId, vNodes, vNodesDisconnected, fInbound, fNetworkNode, fDisconnect,
          closed, grantOutbound, nRefCount, value, socketVars, messageVars, openerVars>>

NodeId == 1 .. MaxNodes

TypeOK ==
    /\ nLastNodeId \in 0 .. MaxNodes
    /\ vNodes \subseteq NodeId /\ vNodesDisconnected \subseteq NodeId
    /\ fInbound \subseteq NodeId /\ fNetworkNode \subseteq NodeId
    /\ fDisconnect \subseteq NodeId /\ grantOutbound \subseteq NodeId
    /\ nRefCount \in [NodeId -> Nat]
    /\ value \in Nat
    /\ handler \in {"disconnect", "delete", "accept", "copy", "service"}
    /\ serviced \subseteq NodeId
    /\ closed \subseteq NodeId
    /\ polling \in BOOLEAN /\ polled \subseteq NodeId
    /\ waiting \subseteq polled /\ processing \in polled \cup {None}
    /\ at \in [Opener -> {"idle", "connecting", "moving", "marking"}]
    /\ granted \subseteq Opener
    /\ pnode \in [Opener -> NodeId \cup {None}]

Init ==
    /\ nLastNodeId = 0
    /\ vNodes = {} /\ vNodesDisconnected = {}
    /\ fInbound = {} /\ fNetworkNode = {} /\ fDisconnect = {}
    /\ grantOutbound = {} /\ nRefCount = [n \in NodeId |-> 0]
    /\ value = MaxOutbound
    /\ handler = "disconnect" /\ serviced = {}
    /\ closed = {}
    /\ polling = FALSE /\ polled = {} /\ waiting = {} /\ processing = None
    /\ at = [o \in Opener |-> "idle"] /\ granted = {} /\ pnode = [o \in Opener |-> None]

-----------------------------------------------------------------------------
(* Nodes and slots. *)

AddRef(nodes)  == [n \in NodeId |-> IF n \in nodes THEN nRefCount[n] + 1 ELSE nRefCount[n]]
Release(nodes) == [n \in NodeId |-> IF n \in nodes THEN nRefCount[n] - 1 ELSE nRefCount[n]]

\* CSemaphoreGrant::Release, or its destructor, for nodes.
ReleaseGrants(nodes) ==
    /\ value' = value + Cardinality(nodes \cap grantOutbound)
    /\ grantOutbound' = grantOutbound \ nodes

\* new CNode, its first reference, and its place in vNodes.
Publish(n) ==
    /\ n = nLastNodeId + 1 /\ n \in NodeId
    /\ nLastNodeId' = n
    /\ nRefCount' = AddRef({n})
    /\ vNodes' = vNodes \cup {n}

-----------------------------------------------------------------------------
(* The socket handler: one round of its loop is Disconnect, Delete, Accept,   *)
(* Copy, Service.                                                             *)

Unused(n) == n \in fDisconnect \/ nRefCount[n] <= 0

\* The reference for the place in vNodes is released only for a node whose maker
\* is done with it.
DisconnectNodes(owned) ==
    LET gone == {n \in vNodes : Unused(n)}
    IN  /\ handler = "disconnect" /\ handler' = "delete"
        /\ vNodes' = vNodes \ gone
        /\ ReleaseGrants(gone)
        /\ fDisconnect' = fDisconnect \cup gone /\ closed' = closed \cup gone
        /\ nRefCount' = Release(gone \cap owned)
        /\ vNodesDisconnected' = vNodesDisconnected \cup gone
        /\ UNCHANGED <<nLastNodeId, fInbound, fNetworkNode, serviced, messageVars,
                       openerVars>>

\* mutant: the reference is released whoever still uses the node.
DisconnectAlwaysReleases == DisconnectNodes(vNodes)

Disconnect == DisconnectNodes(fNetworkNode \cup fInbound)

Delete ==
    LET gone == {n \in vNodesDisconnected : nRefCount[n] <= 0}
    IN  /\ handler = "delete" /\ handler' = "accept"
        /\ vNodesDisconnected' = vNodesDisconnected \ gone
        /\ ReleaseGrants(gone)
        /\ fInbound' = fInbound \ gone /\ fNetworkNode' = fNetworkNode \ gone
        /\ fDisconnect' = fDisconnect \ gone /\ closed' = closed \ gone
        /\ UNCHANGED <<nLastNodeId, vNodes, nRefCount, serviced, messageVars, openerVars>>

Accept ==
    /\ handler = "accept" /\ handler' = "copy"
    /\ Cardinality(vNodes \cap fInbound) < MaxInbound
    /\ \E n \in NodeId : Publish(n) /\ fInbound' = fInbound \cup {n}
    /\ UNCHANGED <<vNodesDisconnected, fNetworkNode, fDisconnect, closed, grantOutbound,
                   value, serviced, messageVars, openerVars>>

\* Nobody calls, or the call is refused.
AcceptNone ==
    /\ handler = "accept" /\ handler' = "copy"
    /\ UNCHANGED <<nLastNodeId, vNodes, vNodesDisconnected, fInbound, fNetworkNode,
                   fDisconnect, closed, grantOutbound, nRefCount, value, serviced,
                   messageVars, openerVars>>

Copy ==
    /\ handler = "copy" /\ handler' = "service"
    /\ serviced' = vNodes
    /\ nRefCount' = AddRef(vNodes)
    /\ UNCHANGED <<nLastNodeId, vNodes, vNodesDisconnected, fInbound, fNetworkNode,
                   fDisconnect, closed, grantOutbound, value, messageVars, openerVars>>

\* Some open sockets end or fail, unless the message handler has cs_vRecvMsg, and
\* some have been silent for too long; then the copy is given back.
Service ==
    /\ handler = "service" /\ handler' = "disconnect"
    /\ \E ended \in SUBSET (serviced \ (closed \cup {processing})),
          silent \in SUBSET (serviced \ closed) :
           fDisconnect' = fDisconnect \cup ended \cup silent /\ closed' = closed \cup ended
    /\ nRefCount' = Release(serviced)
    /\ serviced' = {}
    /\ UNCHANGED <<nLastNodeId, vNodes, vNodesDisconnected, fInbound, fNetworkNode,
                   grantOutbound, value, messageVars, openerVars>>

SocketHandler == Disconnect \/ Delete \/ Accept \/ AcceptNone \/ Copy \/ Service

\* A write fails, in any thread, and closes the socket with the message still in
\* vSendMsg, so that no write is tried any more; the RPC closes it; or the address
\* is banned.
Lose ==
    /\ \E n \in vNodes :
           fDisconnect' = fDisconnect \cup {n} /\ closed' \in {closed, closed \cup {n}}
    /\ UNCHANGED <<nLastNodeId, vNodes, vNodesDisconnected, fInbound, fNetworkNode,
                   grantOutbound, nRefCount, value, socketVars, messageVars, openerVars>>

-----------------------------------------------------------------------------
(* The message handler: it makes a copy, takes up the messages of each node   *)
(* of it that is not disconnected, and gives the copy back.                   *)

Poll ==
    /\ ~polling /\ polling' = TRUE
    /\ polled' = vNodes /\ waiting' = vNodes
    /\ nRefCount' = AddRef(vNodes)
    /\ UNCHANGED <<nLastNodeId, vNodes, vNodesDisconnected, fInbound, fNetworkNode,
                   fDisconnect, closed, grantOutbound, value, socketVars, openerVars,
                   processing>>

\* The turn of the next node, in the order of their ids: the loop of ProcessMessages
\* takes up a message, or there is none.
Process ==
    /\ processing = None
    /\ \E n \in waiting \ fDisconnect :
           /\ \A m \in waiting \ fDisconnect : n <= m
           /\ processing' = n /\ waiting' = {m \in waiting : m > n}
    /\ UNCHANGED <<nLastNodeId, vNodes, vNodesDisconnected, fInbound, fNetworkNode,
                   fDisconnect, closed, grantOutbound, nRefCount, value, socketVars,
                   openerVars, polling, polled>>

\* Nothing; or DisconnectOldProtocol takes the flag back, whoever set it and
\* whatever for (after a new block, or for a version); or a message or SendMessages
\* sets it, and a message that fails closes the socket as well.
ProcessDone ==
    /\ processing # None /\ processing' = None
    /\ \/ UNCHANGED <<fDisconnect, closed>>
       \/ fDisconnect' = fDisconnect \ {processing} /\ UNCHANGED closed
       \/ /\ fDisconnect' = fDisconnect \cup {processing}
          /\ closed' \in {closed, closed \cup {processing}}
    /\ UNCHANGED <<nLastNodeId, vNodes, vNodesDisconnected, fInbound, fNetworkNode,
                   grantOutbound, nRefCount, value, socketVars, openerVars, polling, polled,
                   waiting>>

GiveBackOf(nodes) ==
    /\ polling /\ polling' = FALSE
    /\ processing = None /\ waiting \subseteq fDisconnect
    /\ nRefCount' = Release(nodes)
    /\ polled' = {} /\ waiting' = {}
    /\ UNCHANGED <<nLastNodeId, vNodes, vNodesDisconnected, fInbound, fNetworkNode,
                   fDisconnect, closed, grantOutbound, value, socketVars, openerVars,
                   processing>>

\* mutant: the loop is left for a node that is disconnected, and so is its reference.
GiveBackConnected == GiveBackOf(polled \ waiting)

GiveBack == GiveBackOf(polled)

MessageHandler == Poll \/ Process \/ ProcessDone \/ GiveBack

-----------------------------------------------------------------------------
(* A thread that opens connections. *)

\* CSemaphoreGrant grant(*semOutbound): waits for a slot.
Acquire(o) ==
    /\ at[o] = "idle" /\ at' = [at EXCEPT ![o] = "connecting"]
    /\ value > 0 /\ value' = value - 1
    /\ granted' = granted \cup {o}
    /\ UNCHANGED <<nLastNodeId, vNodes, vNodesDisconnected, fInbound, fNetworkNode,
                   fDisconnect, closed, grantOutbound, nRefCount, socketVars, messageVars,
                   pnode>>

\* No address to connect to, or one that does not answer: the grant goes out of
\* scope.
ConnectFails(o) ==
    /\ at[o] = "connecting" /\ at' = [at EXCEPT ![o] = "idle"]
    /\ value' = value + 1 /\ granted' = granted \ {o}
    /\ UNCHANGED <<nLastNodeId, vNodes, vNodesDisconnected, fInbound, fNetworkNode,
                   fDisconnect, closed, grantOutbound, nRefCount, socketVars, messageVars,
                   pnode>>

ConnectNode(o) ==
    /\ at[o] = "connecting" /\ at' = [at EXCEPT ![o] = "moving"]
    /\ \E n \in NodeId : Publish(n) /\ pnode' = [pnode EXCEPT ![o] = n]
    /\ UNCHANGED <<vNodesDisconnected, fInbound, fNetworkNode, fDisconnect, closed,
                   grantOutbound, value, socketVars, messageVars, granted>>

\* mutant: the source of the move keeps its slot as well.
MoveToCopies(o) ==
    /\ at[o] = "moving" /\ at' = [at EXCEPT ![o] = "marking"]
    /\ grantOutbound' = grantOutbound \cup {pnode[o]}
    /\ value' = value + 1
    /\ granted' = granted \ {o}
    /\ UNCHANGED <<nLastNodeId, vNodes, vNodesDisconnected, fInbound, fNetworkNode,
                   fDisconnect, closed, nRefCount, socketVars, messageVars, pnode>>

\* The slot goes to the node, which gives back one it had.
MoveTo(o) ==
    /\ at[o] = "moving" /\ at' = [at EXCEPT ![o] = "marking"]
    /\ value' = value + Cardinality({pnode[o]} \cap grantOutbound)
    /\ grantOutbound' = grantOutbound \cup {pnode[o]}
    /\ granted' = granted \ {o}
    /\ UNCHANGED <<nLastNodeId, vNodes, vNodesDisconnected, fInbound, fNetworkNode,
                   fDisconnect, closed, nRefCount, socketVars, messageVars, pnode>>

\* pnode->fNetworkNode = true, and the opener is done with the node.
Mark(o) ==
    /\ at[o] = "marking" /\ at' = [at EXCEPT ![o] = "idle"]
    /\ fNetworkNode' = fNetworkNode \cup {pnode[o]}
    /\ pnode' = [pnode EXCEPT ![o] = None]
    /\ UNCHANGED <<nLastNodeId, vNodes, vNodesDisconnected, fInbound, fDisconnect, closed,
                   grantOutbound, nRefCount, value, socketVars, messageVars, granted>>

Open(o) == Acquire(o) \/ ConnectFails(o) \/ ConnectNode(o) \/ MoveTo(o) \/ Mark(o)

Next == SocketHandler \/ Lose \/ MessageHandler \/ \E o \in Opener : Open(o)

\* The two handlers are loops that never wait for anything but a time.
Spec == Init /\ [][Next]_vars /\ WF_vars(SocketHandler) /\ WF_vars(MessageHandler)

-----------------------------------------------------------------------------
(* Properties. *)

InUse(n) ==
    \/ n \in serviced \/ n \in polled
    \/ \E o \in Opener : pnode[o] = n

(* "wait until threads are done using it" (net.cpp:874): no thread has a      *)
(* pointer to a node that was deleted, whatever the order in which a peer is  *)
(* lost and its opener hands over the slot and marks the node.                *)
HeldNodesExist == \A n \in NodeId : InUse(n) => n \in vNodes \cup vNodesDisconnected

(* The connections opened from here, those whose opener has not yet moved its *)
(* slot included, are never more than there are slots.                        *)
OutboundWithinSlots == Cardinality(vNodes \ fInbound) <= MaxOutbound

(* A connection that is lost after its maker has finished with it is deleted, *)
(* and so its state at the block download and its socket go, provided the     *)
(* message handler is not in its messages at the time.  If it is, and they    *)
(* are a new block, DisconnectOldProtocol takes the flag back (net.cpp:466):  *)
(* if the socket was closed, both loops of the socket handler then pass the   *)
(* node by, and it keeps its place and its slot until something else sets     *)
(* the flag.                                                                  *)
LostNodeIsDeleted ==
    \A n \in NodeId :
        (n \in vNodes \cap fDisconnect \cap (fInbound \cup fNetworkNode) /\ processing # n)
            ~> (n \notin vNodes \cup vNodesDisconnected)
=============================================================================
