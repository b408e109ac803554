--------------------------- MODULE NetworkProofs ----------------------------
(* Proofs about the network: Connections, for any openers and any limits,   *)
(* and then BlockSync, for any nodes, links and blocks.                     *)
EXTENDS Connections, BlockSync, Integers, FiniteSetTheorems, SequenceTheorems,
        WellFoundedInduction, TLAPS

(* Where the openers are, and what each of them holds there. *)
OpenersInPlace ==
    /\ \A o \in Opener : o \in granted <=> at[o] \in {"connecting", "moving"}
    /\ \A o \in Opener : pnode[o] # None <=> at[o] \in {"moving", "marking"}
    /\ \A o, p \in Opener : pnode[o] = pnode[p] /\ pnode[o] # None => o = p

(* Only nodes that were made are anywhere, and in one place. *)
NodesWereMade ==
    /\ \A n \in vNodes \cup vNodesDisconnected \cup fInbound \cup fNetworkNode \cup serviced
               \cup polled : n <= nLastNodeId
    /\ \A o \in Opener : pnode[o] # None => pnode[o] <= nLastNodeId
    /\ vNodes \cap vNodesDisconnected = {}

(* While an opener is at work on a node, the node has no mark. *)
UnmarkedWhileOpening ==
    \A o \in Opener : pnode[o] # None => pnode[o] \notin fInbound \cup fNetworkNode

(* The node has a reference for its place in vNodes, which its opener shares. *)
Owned(n) == n \in vNodes \/ \E o \in Opener : pnode[o] = n

(* A reference for each use. *)
RefsCoverUses ==
    \A n \in NodeId :
        /\ n \in serviced \/ n \in polled \/ Owned(n) => nRefCount[n] >= 1
        /\ n \in serviced /\ n \in polled => nRefCount[n] >= 2
        /\ n \in serviced /\ Owned(n) => nRefCount[n] >= 2
        /\ n \in polled /\ Owned(n) => nRefCount[n] >= 2
        /\ n \in serviced /\ n \in polled /\ Owned(n) => nRefCount[n] >= 3

(* The copies are empty where the loops have given them back. *)
CopiesInPlace ==
    /\ serviced # {} => handler = "service"
    /\ polled # {} => polling

NodeInv ==
    /\ OpenersInPlace
    /\ NodesWereMade
    /\ UnmarkedWhileOpening
    /\ RefsCoverUses
    /\ CopiesInPlace
    /\ HeldNodesExist

(* No slot is lost or made. *)
SlotsAreCounted == value + Cardinality(granted) + Cardinality(grantOutbound) = MaxOutbound

(* A connection opened from here has a slot, its own or its opener's. *)
OutboundHasSlot ==
    \A n \in vNodes \ fInbound : n \in grantOutbound \/ \E o \in granted : pnode[o] = n

SlotInv == SlotsAreCounted /\ OutboundHasSlot

IInv == TypeOK /\ NodeInv /\ SlotInv

(* Subsets of the finite sets that are counted are finite. *)
LEMMA CountsAreNaturals ==
    /\ IsFiniteSet(NodeId)
    /\ \A S \in SUBSET NodeId : IsFiniteSet(S) /\ Cardinality(S) \in Nat
    /\ \A S \in SUBSET Opener : IsFiniteSet(S) /\ Cardinality(S) \in Nat
<1>1. IsFiniteSet(NodeId)
  BY ConnectionsAssumption, FS_Interval DEF NodeId
<1>2. IsFiniteSet(Opener)
  BY ConnectionsAssumption
<1> QED
  BY <1>1, <1>2, FS_Subset, FS_CardinalityType

-----------------------------------------------------------------------------
(* Types. *)
LEMMA TypeStep ==
    ASSUME TypeOK, NodeInv, [Next]_vars
    PROVE  TypeOK'
<1> USE DEF TypeOK
<1>1. \A S : S \cap grantOutbound \in SUBSET NodeId
  OBVIOUS
<1>2. \A S : value + Cardinality(S \cap grantOutbound) \in Nat
  <2>1. \A S : Cardinality(S \cap grantOutbound) \in Nat
    BY <1>1, CountsAreNaturals
  <2>2. \A c \in Nat : value + c \in Nat
    OBVIOUS
  <2> QED
    BY <2>1, <2>2, Zenon
<1>3. \A S \in SUBSET NodeId : AddRef(S) \in [NodeId -> Nat]
  BY DEF AddRef
<1>4. \A S \in SUBSET NodeId : (\A n \in S : nRefCount[n] >= 1) => Release(S) \in [NodeId -> Nat]
  BY DEF Release
<1>5. ASSUME NEW n \in NodeId, n \in vNodes \/ n \in serviced \/ n \in polled
      PROVE  nRefCount[n] >= 1
  BY <1>5 DEF NodeInv, RefsCoverUses, Owned
<1>6. CASE Disconnect
  <2>1. ReleaseGrants({n \in vNodes : Unused(n)}) /\ handler' = "delete"
    BY <1>6 DEF Disconnect, DisconnectNodes
  <2>2. value' \in Nat
    BY <2>1, <1>2, Zenon DEF ReleaseGrants
  <2>5. grantOutbound' \subseteq NodeId
    BY <2>1 DEF ReleaseGrants
  <2>3. nRefCount' = Release({n \in vNodes : Unused(n)} \cap (fNetworkNode \cup fInbound))
    BY <1>6 DEF Disconnect, DisconnectNodes
  <2>4. nRefCount' \in [NodeId -> Nat]
    BY <2>3, <1>4, <1>5
  <2> QED
    BY <1>6, <2>1, <2>2, <2>4, <2>5 DEF Disconnect, DisconnectNodes, messageVars, openerVars
<1>7. CASE Delete
  <2>1. ReleaseGrants({n \in vNodesDisconnected : nRefCount[n] <= 0})
    BY <1>7 DEF Delete
  <2>2. value' \in Nat
    BY <2>1, <1>2, Zenon DEF ReleaseGrants
  <2>3. grantOutbound' \subseteq NodeId
    BY <2>1 DEF ReleaseGrants
  <2>4. /\ fInbound' \subseteq NodeId /\ fNetworkNode' \subseteq NodeId
        /\ fDisconnect' \subseteq NodeId /\ closed' \subseteq NodeId
    BY <1>7 DEF Delete
  <2> QED
    BY <1>7, <2>2, <2>3, <2>4 DEF Delete, messageVars, openerVars
<1>8. CASE Accept
  <2>1. PICK n \in NodeId : Publish(n) /\ fInbound' = fInbound \cup {n}
    BY <1>8 DEF Accept
  <2>2. nRefCount' \in [NodeId -> Nat]
    BY <2>1, <1>3 DEF Publish
  <2>3. nLastNodeId' \in 0 .. MaxNodes /\ vNodes' \subseteq NodeId /\ fInbound' \subseteq NodeId
    BY <2>1, ConnectionsAssumption DEF Publish, NodeId
  <2> QED
    BY <1>8, <2>2, <2>3 DEF Accept, messageVars, openerVars
<1>9. CASE AcceptNone
  BY <1>9 DEF AcceptNone, messageVars, openerVars
<1>10. CASE Copy
  BY <1>10, <1>3 DEF Copy, messageVars, openerVars
<1>11. CASE Service
  <2>1. nRefCount' \in [NodeId -> Nat]
    BY <1>11, <1>4, <1>5 DEF Service
  <2> QED
    BY <1>11, <2>1 DEF Service, messageVars, openerVars
<1>12. CASE Poll
  <2>1. processing = None
    BY <1>12 DEF Poll, NodeInv, CopiesInPlace
  <2> QED
    BY <1>12, <1>3, <2>1 DEF Poll, socketVars, openerVars
<1>13. CASE GiveBack
  <2>1. nRefCount' \in [NodeId -> Nat]
    BY <1>13, <1>4, <1>5 DEF GiveBack, GiveBackOf
  <2> QED
    BY <1>13, <2>1 DEF GiveBack, GiveBackOf, socketVars, openerVars
<1>16. CASE Process
  BY <1>16 DEF Process, socketVars, openerVars
<1>17. CASE ProcessDone
  <2>1. fDisconnect' \subseteq NodeId /\ closed' \subseteq NodeId
    BY <1>17 DEF ProcessDone
  <2> QED
    BY <1>17, <2>1 DEF ProcessDone, socketVars, openerVars
<1>18. CASE Lose
  BY <1>18 DEF Lose, socketVars, messageVars, openerVars
<1>14. ASSUME NEW o \in Opener, Open(o)
       PROVE  TypeOK'
  <2>1. CASE Acquire(o)
    BY <2>1 DEF Acquire, socketVars, messageVars
  <2>2. CASE ConnectFails(o)
    BY <2>2 DEF ConnectFails, socketVars, messageVars
  <2>3. CASE ConnectNode(o)
    <3>1. PICK n \in NodeId : Publish(n) /\ pnode' = [pnode EXCEPT ![o] = n]
      BY <2>3 DEF ConnectNode
    <3>2. nRefCount' \in [NodeId -> Nat]
      BY <3>1, <1>3 DEF Publish
    <3>3. nLastNodeId' \in 0 .. MaxNodes /\ vNodes' \subseteq NodeId
      BY <3>1, ConnectionsAssumption DEF Publish, NodeId
    <3> QED
      BY <2>3, <3>1, <3>2, <3>3 DEF ConnectNode, socketVars, messageVars
  <2>4. CASE MoveTo(o)
    <3>1. pnode[o] \in NodeId
      BY <2>4 DEF MoveTo, NodeInv, OpenersInPlace
    <3>2. value' \in Nat
      <4>1. value' = value + Cardinality({pnode[o]} \cap grantOutbound)
        BY <2>4 DEF MoveTo
      <4> QED
        BY <4>1, <1>2, Zenon
    <3> QED
      BY <2>4, <3>1, <3>2 DEF MoveTo, socketVars, messageVars
  <2>5. CASE Mark(o)
    <3>1. pnode[o] \in NodeId
      BY <2>5 DEF Mark, NodeInv, OpenersInPlace
    <3> QED
      BY <2>5, <3>1 DEF Mark, socketVars, messageVars
  <2> QED
    BY <1>14, <2>1, <2>2, <2>3, <2>4, <2>5 DEF Open
<1>15. CASE UNCHANGED vars
  BY <1>15 DEF vars, socketVars, messageVars, openerVars
<1> QED
  BY <1>6, <1>7, <1>8, <1>9, <1>10, <1>11, <1>12, <1>13, <1>14, <1>15, <1>16, <1>17, <1>18
     DEF Next, SocketHandler, MessageHandler

-----------------------------------------------------------------------------
(* References.  First, what a change of the copies does to the count. *)
LEMMA CountsAfter ==
    ASSUME TypeOK, NEW S \in SUBSET NodeId, NEW n \in NodeId
    PROVE  /\ n \in S => AddRef(S)[n] = nRefCount[n] + 1 /\ Release(S)[n] = nRefCount[n] - 1
           /\ n \notin S => AddRef(S)[n] = nRefCount[n] /\ Release(S)[n] = nRefCount[n]
           /\ nRefCount[n] \in Nat
BY DEF TypeOK, AddRef, Release

(* A node that is published is at no other place yet. *)
LEMMA NewNode ==
    ASSUME TypeOK, NodeInv, NEW n, Publish(n)
    PROVE  /\ n \in NodeId
           /\ n \notin vNodes \cup vNodesDisconnected \cup fInbound \cup fNetworkNode
           /\ n \notin serviced \cup polled
           /\ \A o \in Opener : pnode[o] # n
           /\ n > nLastNodeId
<1>1. n \in NodeId /\ n = nLastNodeId + 1 /\ nLastNodeId \in Nat
  BY ConnectionsAssumption DEF Publish, TypeOK, NodeId
<1>2. n \in Nat /\ n # None /\ n > nLastNodeId /\ ~(n <= nLastNodeId)
  BY <1>1, ConnectionsAssumption
<1> QED
  BY <1>1, <1>2 DEF NodeInv, NodesWereMade

(* Every step keeps the nodes, their marks and their references. *)
LEMMA NodeStep ==
    ASSUME TypeOK, TypeOK', NodeInv, [Next]_vars
    PROVE  NodeInv'
<1> USE DEF NodeInv
<1>1. CASE Disconnect
  <2>1. PICK gone \in SUBSET vNodes :
           /\ vNodes' = vNodes \ gone
           /\ nRefCount' = Release(gone \cap (fNetworkNode \cup fInbound))
           /\ vNodesDisconnected' = vNodesDisconnected \cup gone
    BY <1>1 DEF Disconnect, DisconnectNodes
  <2>2. UNCHANGED <<nLastNodeId, fInbound, fNetworkNode, serviced, polling, polled, at, granted, pnode>>
    BY <1>1 DEF Disconnect, DisconnectNodes, messageVars, openerVars
  <2>3. OpenersInPlace' /\ NodesWereMade' /\ UnmarkedWhileOpening' /\ HeldNodesExist'
    BY <2>1, <2>2 DEF OpenersInPlace, NodesWereMade, UnmarkedWhileOpening, HeldNodesExist, InUse
  <2>4. CopiesInPlace'
    BY <1>1, <2>2 DEF CopiesInPlace, Disconnect, DisconnectNodes
  <2>5. ASSUME NEW n \in NodeId, n \in gone \cap (fNetworkNode \cup fInbound)
        PROVE  /\ nRefCount'[n] = nRefCount[n] - 1
               /\ Owned(n) /\ ~Owned(n)'
    <3>1. gone \cap (fNetworkNode \cup fInbound) \in SUBSET NodeId
      BY <2>1 DEF TypeOK
    <3>2. n # None
      BY ConnectionsAssumption DEF NodeId
    <3> QED
      BY <2>1, <2>2, <2>5, <3>1, <3>2, CountsAfter DEF Owned, UnmarkedWhileOpening
  <2>6. ASSUME NEW n \in NodeId, n \notin gone \cap (fNetworkNode \cup fInbound)
        PROVE  nRefCount'[n] = nRefCount[n] /\ (Owned(n)' => Owned(n))
    <3>1. gone \cap (fNetworkNode \cup fInbound) \in SUBSET NodeId
      BY <2>1 DEF TypeOK
    <3>2. nRefCount'[n] = nRefCount[n]
      BY <2>1, <2>6, <3>1, CountsAfter
    <3> QED
      BY <2>1, <2>2, <3>2 DEF Owned
  <2>7. RefsCoverUses'
    BY <2>2, <2>5, <2>6, CountsAfter DEF RefsCoverUses, TypeOK
  <2> QED
    BY <2>3, <2>4, <2>7
<1>2. CASE Delete
  <2>1. PICK gone \in SUBSET vNodesDisconnected :
           /\ \A n \in gone : nRefCount[n] <= 0
           /\ vNodesDisconnected' = vNodesDisconnected \ gone
    BY <1>2 DEF Delete
  <2>2. /\ UNCHANGED <<nLastNodeId, vNodes, nRefCount, serviced, polling, polled, at, granted, pnode>>
        /\ fInbound' \subseteq fInbound /\ fNetworkNode' \subseteq fNetworkNode
    BY <1>2 DEF Delete, messageVars, openerVars
  <2>3. OpenersInPlace' /\ NodesWereMade' /\ UnmarkedWhileOpening' /\ RefsCoverUses'
    BY <2>1, <2>2 DEF OpenersInPlace, NodesWereMade, UnmarkedWhileOpening, RefsCoverUses, Owned
  <2>4. CopiesInPlace'
    BY <1>2, <2>2 DEF CopiesInPlace, Delete
  <2>5. ASSUME NEW n \in NodeId, InUse(n)
        PROVE  n \notin gone
    <3>1. nRefCount[n] \in Nat /\ nRefCount[n] >= 1
      BY <2>5, CountsAfter DEF RefsCoverUses, InUse, Owned, TypeOK
    <3> QED
      BY <3>1, <2>1
  <2>6. HeldNodesExist'
    BY <2>1, <2>2, <2>5 DEF HeldNodesExist, InUse
  <2> QED
    BY <2>3, <2>4, <2>6
<1>3. CASE Accept
  <2>1. PICK n \in NodeId : Publish(n) /\ fInbound' = fInbound \cup {n}
    BY <1>3 DEF Accept
  <2>2. UNCHANGED <<vNodesDisconnected, fNetworkNode, serviced, polling, polled,
                    at, granted, pnode>>
    BY <1>3 DEF Accept, messageVars, openerVars
  <2>3. n > nLastNodeId /\ nLastNodeId' = n /\ vNodes' = vNodes \cup {n} /\ n # None
    BY <2>1, NewNode, ConnectionsAssumption DEF Publish, NodeId
  <2>4. n \notin vNodesDisconnected /\ n \notin serviced \cup polled /\ n \notin vNodes
    BY <2>1, NewNode
  <2>5. \A o \in Opener : pnode[o] # n
    BY <2>1, NewNode
  <2>6. OpenersInPlace' /\ UnmarkedWhileOpening' /\ HeldNodesExist'
    BY <2>1, <2>2, <2>3, <2>5 DEF OpenersInPlace, UnmarkedWhileOpening, HeldNodesExist, InUse
  <2>7. NodesWereMade'
    BY <2>1, <2>2, <2>3, <2>4 DEF NodesWereMade, TypeOK, NodeId
  <2>8. CopiesInPlace'
    BY <1>3, <2>2 DEF CopiesInPlace, Accept
  <2>9. ASSUME NEW m \in NodeId
        PROVE  IF m = n THEN nRefCount'[m] = nRefCount[m] + 1
                        ELSE nRefCount'[m] = nRefCount[m] /\ (Owned(m)' => Owned(m))
    BY <2>1, <2>2, <2>3, CountsAfter DEF Publish, Owned
  <2>10. RefsCoverUses'
    BY <2>2, <2>4, <2>9, CountsAfter DEF RefsCoverUses, TypeOK
  <2> QED
    BY <2>6, <2>7, <2>8, <2>10
<1>4. CASE AcceptNone
  BY <1>4 DEF AcceptNone, messageVars, openerVars, OpenersInPlace, NodesWereMade, Owned,
              UnmarkedWhileOpening, RefsCoverUses, CopiesInPlace, HeldNodesExist, InUse
<1>5. CASE Copy
  <2>1. serviced' = vNodes /\ nRefCount' = AddRef(vNodes) /\ vNodes \in SUBSET NodeId
    BY <1>5 DEF Copy, TypeOK
  <2>2. UNCHANGED <<nLastNodeId, vNodes, vNodesDisconnected, fInbound, fNetworkNode, polling, polled,
                    at, granted, pnode>>
    BY <1>5 DEF Copy, messageVars, openerVars
  <2>3. serviced = {}
    BY <1>5 DEF Copy, CopiesInPlace
  <2>4. OpenersInPlace' /\ NodesWereMade' /\ UnmarkedWhileOpening' /\ HeldNodesExist'
    BY <2>1, <2>2 DEF OpenersInPlace, NodesWereMade, UnmarkedWhileOpening, HeldNodesExist, InUse
  <2>5. CopiesInPlace'
    BY <1>5, <2>2 DEF CopiesInPlace, Copy
  <2>6. \A n \in NodeId : Owned(n)' <=> Owned(n)
    BY <2>2 DEF Owned
  <2>7. RefsCoverUses'
    BY <2>1, <2>2, <2>3, <2>6, CountsAfter DEF RefsCoverUses, Owned
  <2> QED
    BY <2>4, <2>5, <2>7
<1>6. CASE Service
  <2>1. serviced' = {} /\ nRefCount' = Release(serviced) /\ serviced \in SUBSET NodeId
    BY <1>6 DEF Service, TypeOK
  <2>2. UNCHANGED <<nLastNodeId, vNodes, vNodesDisconnected, fInbound, fNetworkNode, polling, polled,
                    at, granted, pnode>>
    BY <1>6 DEF Service, messageVars, openerVars
  <2>3. OpenersInPlace' /\ NodesWereMade' /\ UnmarkedWhileOpening' /\ HeldNodesExist' /\ CopiesInPlace'
    BY <2>1, <2>2 DEF OpenersInPlace, NodesWereMade, UnmarkedWhileOpening, HeldNodesExist, InUse,
                      CopiesInPlace
  <2>4. \A n \in NodeId : Owned(n)' <=> Owned(n)
    BY <2>2 DEF Owned
  <2>5. RefsCoverUses'
    BY <2>1, <2>2, <2>4, CountsAfter DEF RefsCoverUses
  <2> QED
    BY <2>3, <2>5
<1>7. CASE Poll
  <2>1. polled' = vNodes /\ nRefCount' = AddRef(vNodes) /\ vNodes \in SUBSET NodeId
    BY <1>7 DEF Poll, TypeOK
  <2>2. UNCHANGED <<nLastNodeId, vNodes, vNodesDisconnected, fInbound, fNetworkNode, handler, serviced,
                    at, granted, pnode>>
    BY <1>7 DEF Poll, socketVars, openerVars
  <2>3. polled = {}
    BY <1>7 DEF Poll, CopiesInPlace
  <2>4. OpenersInPlace' /\ NodesWereMade' /\ UnmarkedWhileOpening' /\ HeldNodesExist'
    BY <2>1, <2>2 DEF OpenersInPlace, NodesWereMade, UnmarkedWhileOpening, HeldNodesExist, InUse
  <2>5. CopiesInPlace'
    BY <1>7, <2>2 DEF CopiesInPlace, Poll
  <2>6. \A n \in NodeId : Owned(n)' <=> Owned(n)
    BY <2>2 DEF Owned
  <2>7. RefsCoverUses'
    BY <2>1, <2>2, <2>3, <2>6, CountsAfter DEF RefsCoverUses, Owned
  <2> QED
    BY <2>4, <2>5, <2>7
<1>8. CASE GiveBack
  <2>1. polled' = {} /\ nRefCount' = Release(polled) /\ polled \in SUBSET NodeId
    BY <1>8 DEF GiveBack, GiveBackOf, TypeOK
  <2>2. UNCHANGED <<nLastNodeId, vNodes, vNodesDisconnected, fInbound, fNetworkNode, handler, serviced,
                    at, granted, pnode>>
    BY <1>8 DEF GiveBack, GiveBackOf, socketVars, openerVars
  <2>3. OpenersInPlace' /\ NodesWereMade' /\ UnmarkedWhileOpening' /\ HeldNodesExist' /\ CopiesInPlace'
    BY <2>1, <2>2 DEF OpenersInPlace, NodesWereMade, UnmarkedWhileOpening, HeldNodesExist, InUse,
                      CopiesInPlace
  <2>4. \A n \in NodeId : Owned(n)' <=> Owned(n)
    BY <2>2 DEF Owned
  <2>5. RefsCoverUses'
    BY <2>1, <2>2, <2>4, CountsAfter DEF RefsCoverUses
  <2> QED
    BY <2>3, <2>5
<1>9. ASSUME NEW o \in Opener, Acquire(o) \/ ConnectFails(o) \/ MoveTo(o)
      PROVE  NodeInv'
  <2>1. UNCHANGED <<nLastNodeId, vNodes, vNodesDisconnected, fInbound, fNetworkNode, nRefCount, handler,
                    serviced, polling, polled, pnode>>
    BY <1>9 DEF Acquire, ConnectFails, MoveTo, socketVars, messageVars
  <2>2. OpenersInPlace'
    BY <1>9, <2>1 DEF OpenersInPlace, Acquire, ConnectFails, MoveTo, TypeOK
  <2> QED
    BY <2>1, <2>2 DEF NodesWereMade, UnmarkedWhileOpening, RefsCoverUses, Owned, CopiesInPlace,
                      HeldNodesExist, InUse
<1>10. ASSUME NEW o \in Opener, ConnectNode(o)
       PROVE  NodeInv'
  <2>1. PICK n \in NodeId : Publish(n) /\ pnode' = [pnode EXCEPT ![o] = n]
    BY <1>10 DEF ConnectNode
  <2>2. UNCHANGED <<vNodesDisconnected, fInbound, fNetworkNode, handler, serviced, polling, polled, granted>>
    BY <1>10 DEF ConnectNode, socketVars, messageVars
  <2>3. n > nLastNodeId /\ nLastNodeId' = n /\ vNodes' = vNodes \cup {n} /\ n # None
    BY <2>1, NewNode, ConnectionsAssumption DEF Publish, NodeId
  <2>4. n \notin vNodesDisconnected /\ n \notin serviced \cup polled
        /\ n \notin fInbound \cup fNetworkNode
    BY <2>1, NewNode
  <2>5. \A p \in Opener : pnode[p] # n
    BY <2>1, NewNode
  <2>6. pnode[o] = None /\ pnode'[o] = n /\ \A p \in Opener : p # o => pnode'[p] = pnode[p]
    BY <1>10, <2>1 DEF ConnectNode, OpenersInPlace, TypeOK
  <2>7. OpenersInPlace'
    BY <1>10, <2>2, <2>3, <2>5, <2>6 DEF ConnectNode, OpenersInPlace, TypeOK
  <2>8. UnmarkedWhileOpening' /\ HeldNodesExist' /\ CopiesInPlace'
    BY <2>2, <2>3, <2>4, <2>6 DEF UnmarkedWhileOpening, HeldNodesExist, InUse, CopiesInPlace
  <2>9. NodesWereMade'
    BY <2>2, <2>3, <2>4, <2>6 DEF NodesWereMade, TypeOK, NodeId
  <2>10. ASSUME NEW m \in NodeId
         PROVE  IF m = n THEN nRefCount'[m] = nRefCount[m] + 1
                         ELSE nRefCount'[m] = nRefCount[m] /\ (Owned(m)' => Owned(m))
    BY <2>1, <2>3, <2>6, CountsAfter DEF Publish, Owned
  <2>11. RefsCoverUses'
    BY <2>2, <2>4, <2>10, CountsAfter DEF RefsCoverUses, TypeOK
  <2> QED
    BY <2>7, <2>8, <2>9, <2>11
<1>11. ASSUME NEW o \in Opener, Mark(o)
       PROVE  NodeInv'
  <2>1. UNCHANGED <<nLastNodeId, vNodes, vNodesDisconnected, fInbound, nRefCount, handler, serviced,
                    polling, polled, granted>>
    BY <1>11 DEF Mark, socketVars, messageVars
  <2>2. pnode'[o] = None /\ \A p \in Opener : p # o => pnode'[p] = pnode[p]
    BY <1>11 DEF Mark, TypeOK
  <2>3. pnode[o] \in NodeId /\ pnode[o] # None /\ fNetworkNode' = fNetworkNode \cup {pnode[o]}
    BY <1>11 DEF Mark, OpenersInPlace, TypeOK
  <2>4. OpenersInPlace'
    BY <1>11, <2>1, <2>2 DEF Mark, OpenersInPlace, TypeOK
  <2>5. NodesWereMade' /\ CopiesInPlace'
    BY <2>1, <2>2, <2>3 DEF NodesWereMade, CopiesInPlace
  <2>6. UnmarkedWhileOpening'
    BY <2>1, <2>2, <2>3 DEF UnmarkedWhileOpening, OpenersInPlace
  <2>7. \A n \in NodeId : n # None
    BY ConnectionsAssumption DEF NodeId
  <2>8. HeldNodesExist'
    BY <2>1, <2>2, <2>7 DEF HeldNodesExist, InUse
  <2>9. \A n \in NodeId : Owned(n)' => Owned(n)
    BY <2>1, <2>2, <2>7 DEF Owned
  <2>10. RefsCoverUses'
    BY <2>1, <2>9 DEF RefsCoverUses
  <2> QED
    BY <2>4, <2>5, <2>6, <2>8, <2>10
<1>12. CASE Process \/ ProcessDone \/ Lose \/ UNCHANGED vars
  BY <1>12 DEF Process, ProcessDone, Lose, vars, socketVars, messageVars, openerVars, OpenersInPlace,
              NodesWereMade, Owned, UnmarkedWhileOpening, RefsCoverUses, CopiesInPlace, HeldNodesExist, InUse
<1> QED
  BY <1>1, <1>2, <1>3, <1>4, <1>5, <1>6, <1>7, <1>8, <1>9, <1>10, <1>11, <1>12
     DEF Next, SocketHandler, MessageHandler, Open

-----------------------------------------------------------------------------
(* Slots.  What a grant gives back is what the set of grants loses. *)
LEMMA SlotsGivenBack ==
    ASSUME TypeOK, SlotsAreCounted, NEW S \in SUBSET NodeId, ReleaseGrants(S), granted' = granted
    PROVE  SlotsAreCounted'
<1> DEFINE back == Cardinality(S \cap grantOutbound)
           held == Cardinality(grantOutbound)
           left == Cardinality(grantOutbound \ S)
           some == Cardinality(granted)
<1>1. IsFiniteSet(grantOutbound) /\ grantOutbound \cap S \in SUBSET NodeId
  BY CountsAreNaturals DEF TypeOK
<1>2. left = held - Cardinality(grantOutbound \cap S)
  BY <1>1, FS_Difference
<1>3. grantOutbound \cap S = S \cap grantOutbound
  OBVIOUS
<1>4. left = held - back
  BY <1>2, <1>3
<1>5. back \in Nat /\ held \in Nat /\ some \in Nat /\ left \in Nat
  <2>1. S \cap grantOutbound \in SUBSET NodeId /\ grantOutbound \in SUBSET NodeId
        /\ grantOutbound \ S \in SUBSET NodeId /\ granted \in SUBSET Opener
    BY DEF TypeOK
  <2> QED
    BY <2>1, CountsAreNaturals
<1>6. value' = value + back /\ grantOutbound' = grantOutbound \ S
  BY DEF ReleaseGrants
<1>7. Cardinality(grantOutbound') = left /\ Cardinality(granted') = some
  BY <1>6
<1>8. value \in Nat /\ value + some + held = MaxOutbound
  BY DEF TypeOK, SlotsAreCounted
<1> HIDE DEF back, held, left, some
<1>9. value' + some + left = MaxOutbound
  BY <1>4, <1>5, <1>6, <1>8
<1> QED
  BY <1>7, <1>9 DEF SlotsAreCounted

(* Every step keeps the count of the slots. *)
LEMMA SlotStep ==
    ASSUME TypeOK, NodeInv, SlotInv, [Next]_vars
    PROVE  SlotInv'
<1> USE DEF SlotInv
<1>1. CASE Disconnect
  <2>1. PICK gone \in SUBSET vNodes : vNodes' = vNodes \ gone /\ ReleaseGrants(gone)
    BY <1>1 DEF Disconnect, DisconnectNodes
  <2>2. UNCHANGED <<fInbound, granted, pnode>>
    BY <1>1 DEF Disconnect, DisconnectNodes, openerVars
  <2>3. SlotsAreCounted'
    BY <2>1, <2>2, SlotsGivenBack DEF TypeOK
  <2>4. OutboundHasSlot'
    BY <2>1, <2>2 DEF OutboundHasSlot, ReleaseGrants
  <2> QED
    BY <2>3, <2>4
<1>2. CASE Delete
  <2>1. PICK gone \in SUBSET vNodesDisconnected : ReleaseGrants(gone)
    BY <1>2 DEF Delete
  <2>2. UNCHANGED <<vNodes, granted, pnode>>
    BY <1>2 DEF Delete, openerVars
  <2>5. vNodes \ fInbound' = vNodes \ fInbound
    BY <1>2 DEF Delete, NodeInv, NodesWereMade
  <2>3. SlotsAreCounted'
    BY <2>1, <2>2, SlotsGivenBack DEF TypeOK
  <2>4. OutboundHasSlot'
    BY <2>1, <2>2, <2>5 DEF OutboundHasSlot, ReleaseGrants, NodeInv, NodesWereMade
  <2> QED
    BY <2>3, <2>4
<1>3. CASE Accept
  BY <1>3 DEF Accept, Publish, SlotsAreCounted, OutboundHasSlot, openerVars
<1>4. CASE AcceptNone \/ Copy \/ Service \/ Lose \/ Poll \/ Process \/ ProcessDone \/ GiveBack \/ UNCHANGED vars
  BY <1>4 DEF AcceptNone, Copy, Service, Lose, Poll, Process, ProcessDone, GiveBack, GiveBackOf, vars, openerVars, SlotsAreCounted,
              OutboundHasSlot
<1>5. ASSUME NEW o \in Opener, Acquire(o)
      PROVE  SlotInv'
  <2>1. UNCHANGED <<vNodes, fInbound, grantOutbound, pnode>> /\ granted' = granted \cup {o}
        /\ value' = value - 1 /\ o \notin granted
    BY <1>5 DEF Acquire, NodeInv, OpenersInPlace
  <2>2. Cardinality(granted') = Cardinality(granted) + 1
    BY <2>1, CountsAreNaturals, FS_AddElement DEF TypeOK
  <2>3. SlotsAreCounted'
    BY <2>1, <2>2, CountsAreNaturals DEF SlotsAreCounted, TypeOK
  <2> QED
    BY <2>1, <2>3 DEF OutboundHasSlot
<1>6. ASSUME NEW o \in Opener, ConnectFails(o)
      PROVE  SlotInv'
  <2>1. UNCHANGED <<vNodes, fInbound, grantOutbound, pnode>> /\ granted' = granted \ {o}
        /\ value' = value + 1 /\ o \in granted /\ pnode[o] = None
    BY <1>6 DEF ConnectFails, NodeInv, OpenersInPlace
  <2>2. Cardinality(granted') = Cardinality(granted) - 1
    BY <2>1, CountsAreNaturals, FS_RemoveElement DEF TypeOK
  <2>3. SlotsAreCounted'
    BY <2>1, <2>2, CountsAreNaturals DEF SlotsAreCounted, TypeOK
  <2>4. \A n \in vNodes : n # None
    BY ConnectionsAssumption DEF TypeOK, NodeId
  <2> QED
    BY <2>1, <2>3, <2>4 DEF OutboundHasSlot
<1>7. ASSUME NEW o \in Opener, ConnectNode(o)
      PROVE  SlotInv'
  <2>1. PICK n \in NodeId : Publish(n) /\ pnode' = [pnode EXCEPT ![o] = n]
    BY <1>7 DEF ConnectNode
  <2>2. UNCHANGED <<fInbound, grantOutbound, value, granted>> /\ vNodes' = vNodes \cup {n}
        /\ o \in granted /\ pnode[o] = None
    BY <1>7, <2>1 DEF ConnectNode, Publish, NodeInv, OpenersInPlace
  <2>3. pnode'[o] = n /\ \A p \in Opener : p # o => pnode'[p] = pnode[p]
    BY <2>1 DEF TypeOK
  <2>4. \A m \in vNodes : m # None
    BY ConnectionsAssumption DEF TypeOK, NodeId
  <2>5. OutboundHasSlot'
    BY <2>2, <2>3, <2>4 DEF OutboundHasSlot, TypeOK
  <2> QED
    BY <2>2, <2>5 DEF SlotsAreCounted
<1>8. ASSUME NEW o \in Opener, MoveTo(o)
      PROVE  SlotInv'
  <2> DEFINE n == pnode[o]
  <2>1. UNCHANGED <<vNodes, fInbound, pnode>> /\ granted' = granted \ {o} /\ o \in granted
        /\ grantOutbound' = grantOutbound \cup {n} /\ n \in NodeId
    BY <1>8 DEF MoveTo, NodeInv, OpenersInPlace, TypeOK
  <2>2. OutboundHasSlot'
    BY <2>1 DEF OutboundHasSlot
  <2>3. Cardinality(granted') = Cardinality(granted) - 1
    BY <2>1, CountsAreNaturals, FS_RemoveElement DEF TypeOK
  <2>4. CASE n \in grantOutbound
    <3>1. {n} \cap grantOutbound = {n} /\ grantOutbound' = grantOutbound
      BY <2>1, <2>4
    <3>2. value' = value + 1
      BY <1>8, <3>1, FS_Singleton DEF MoveTo
    <3> QED
      BY <2>2, <2>3, <3>1, <3>2, CountsAreNaturals DEF SlotsAreCounted, TypeOK
  <2>5. CASE n \notin grantOutbound
    <3>1. {n} \cap grantOutbound = {}
      BY <2>5
    <3>2. value' = value + 0
      BY <1>8, <3>1, FS_EmptySet DEF MoveTo
    <3>3. Cardinality(grantOutbound') = Cardinality(grantOutbound) + 1
      BY <2>1, <2>5, CountsAreNaturals, FS_AddElement DEF TypeOK
    <3> QED
      BY <2>2, <2>3, <3>2, <3>3, CountsAreNaturals DEF SlotsAreCounted, TypeOK
  <2> QED
    BY <2>4, <2>5
<1>9. ASSUME NEW o \in Opener, Mark(o)
      PROVE  SlotInv'
  <2>1. UNCHANGED <<vNodes, fInbound, grantOutbound, value, granted>> /\ o \notin granted
        /\ \A p \in Opener : p # o => pnode'[p] = pnode[p]
    BY <1>9 DEF Mark, NodeInv, OpenersInPlace, TypeOK
  <2> QED
    BY <2>1 DEF SlotsAreCounted, OutboundHasSlot, TypeOK
<1> QED
  BY <1>1, <1>2, <1>3, <1>4, <1>5, <1>6, <1>7, <1>8, <1>9 DEF Next, SocketHandler, MessageHandler, Open

-----------------------------------------------------------------------------
(* The connections opened from here are no more than the slots handed out.   *)
LEMMA SlotsSuffice ==
    ASSUME TypeOK, SlotInv
    PROVE  OutboundWithinSlots
<1> DEFINE out == vNodes \ fInbound
           atOpener == {n \in NodeId : \E o \in granted : pnode[o] = n}
           opening == {o \in granted : pnode[o] \in NodeId}
           f == [o \in opening |-> pnode[o]]
<1>1. /\ out \in SUBSET NodeId /\ grantOutbound \in SUBSET NodeId /\ atOpener \in SUBSET NodeId
      /\ granted \in SUBSET Opener /\ opening \in SUBSET granted /\ opening \in SUBSET Opener
  BY DEF TypeOK
<1>2. /\ IsFiniteSet(grantOutbound) /\ IsFiniteSet(atOpener) /\ IsFiniteSet(opening) /\ IsFiniteSet(granted)
      /\ Cardinality(out) \in Nat /\ Cardinality(grantOutbound) \in Nat /\ Cardinality(atOpener) \in Nat
      /\ Cardinality(granted) \in Nat /\ Cardinality(opening) \in Nat
  BY <1>1, CountsAreNaturals
<1>3. f \in Surjection(opening, atOpener)
  BY <1>1 DEF Surjection
<1>4. Cardinality(atOpener) <= Cardinality(opening)
  BY <1>2, <1>3, FS_Surjection
<1>5. Cardinality(opening) <= Cardinality(granted)
  BY <1>1, <1>2, FS_Subset
<1>6. out \in SUBSET (grantOutbound \cup atOpener)
  BY <1>1 DEF SlotInv, OutboundHasSlot
<1>7. /\ IsFiniteSet(grantOutbound \cup atOpener)
      /\ Cardinality(grantOutbound \cup atOpener)
         = Cardinality(grantOutbound) + Cardinality(atOpener) - Cardinality(grantOutbound \cap atOpener)
  BY <1>2, FS_Union
<1>8. Cardinality(grantOutbound \cap atOpener) \in Nat
  <2>1. grantOutbound \cap atOpener \in SUBSET NodeId
    BY <1>1
  <2> QED
    BY <2>1, CountsAreNaturals
<1>9. Cardinality(out) <= Cardinality(grantOutbound \cup atOpener)
  BY <1>6, <1>7, FS_Subset
<1>10. value \in Nat /\ value + Cardinality(granted) + Cardinality(grantOutbound) = MaxOutbound
  BY DEF SlotInv, SlotsAreCounted, TypeOK
<1> DEFINE both == Cardinality(grantOutbound \cap atOpener)
           all == Cardinality(grantOutbound \cup atOpener)
           outs == Cardinality(out)
           slots == Cardinality(grantOutbound)
           ofOpeners == Cardinality(atOpener)
<1>11. all = slots + ofOpeners - both
  BY <1>7
<1>12. outs <= all /\ ofOpeners <= Cardinality(opening) /\ both \in Nat
  BY <1>4, <1>8, <1>9
<1>13. outs \in Nat /\ slots \in Nat /\ ofOpeners \in Nat
  BY <1>2
<1>14. value + Cardinality(granted) + slots = MaxOutbound
  BY <1>10
<1> HIDE DEF both, all, outs, slots, ofOpeners, out, opening
<1>15. outs <= MaxOutbound
  BY <1>2, <1>5, <1>10, <1>11, <1>12, <1>13, <1>14, ConnectionsAssumption
<1> QED
  BY <1>15 DEF OutboundWithinSlots, outs, out

(* At the start there are no nodes and all slots are free. *)
LEMMA InitInvariant ==
    ASSUME Init
    PROVE  IInv
<1> USE DEF Init
<1>1. TypeOK
  <2>1. polling \in BOOLEAN
    BY Zenon
  <2>2. nLastNodeId \in 0 .. MaxNodes /\ value \in Nat /\ nRefCount \in [NodeId -> Nat]
    BY ConnectionsAssumption
  <2>3. at \in [Opener -> {"idle", "connecting", "moving", "marking"}] /\ pnode \in [Opener -> NodeId \cup {None}]
    OBVIOUS
  <2>4. handler \in {"disconnect", "delete", "accept", "copy", "service"}
    OBVIOUS
  <2>5. waiting \subseteq polled /\ processing \in polled \cup {None}
    OBVIOUS
  <2> QED
    BY <2>1, <2>2, <2>3, <2>4, <2>5 DEF TypeOK
<1>2. OpenersInPlace /\ NodesWereMade /\ UnmarkedWhileOpening /\ CopiesInPlace
  BY DEF OpenersInPlace, NodesWereMade, UnmarkedWhileOpening, CopiesInPlace
<1>3. \A n \in NodeId : n # None
  BY ConnectionsAssumption DEF NodeId
<1>4. \A n \in NodeId : ~Owned(n) /\ ~InUse(n)
  BY <1>3 DEF Owned, InUse
<1>5. RefsCoverUses /\ HeldNodesExist
  BY <1>4 DEF RefsCoverUses, HeldNodesExist, Owned, InUse
<1>6. SlotInv
  BY ConnectionsAssumption, FS_EmptySet DEF SlotInv, SlotsAreCounted, OutboundHasSlot
<1> QED
  BY <1>1, <1>2, <1>5, <1>6 DEF IInv, NodeInv

(* The invariant holds in every state. *)
LEMMA InvariantHolds == Spec => []IInv
<1>1. IInv /\ [Next]_vars => IInv'
  BY TypeStep, NodeStep, SlotStep DEF IInv
<1> QED
  BY <1>1, InitInvariant, PTL DEF Spec

(* The sets, counters and states of the threads keep their types: in        *)
(* particular nRefCount and the semaphore never go below zero               *)
(* (assert, net.h:398).                                                     *)
THEOREM TypeCorrect == Spec => []TypeOK
<1>1. IInv => TypeOK
  BY DEF IInv
<1> QED
  BY <1>1, InvariantHolds, PTL

(* No thread uses a node that was deleted. *)
THEOREM UseBeforeDelete == Spec => []HeldNodesExist
<1>1. IInv => HeldNodesExist
  BY DEF IInv, NodeInv
<1> QED
  BY <1>1, InvariantHolds, PTL

(* No more connections are opened from here than there are slots. *)
THEOREM SlotsLimitOutbound == Spec => []OutboundWithinSlots
<1>1. IInv => OutboundWithinSlots
  BY SlotsSuffice DEF IInv
<1> QED
  BY <1>1, InvariantHolds, PTL

-----------------------------------------------------------------------------
(* The exchange of blocks. *)
(* A set of naturals has a least element: by the well-founded order of the *)
(* finite sets 0 .. n.                                                     *)
LEMMA LeastNumber ==
    ASSUME NEW T, T \subseteq Nat, T # {}
    PROVE  \E m \in T : \A n \in T : m <= n
<1> DEFINE U == {0 .. n : n \in T}
<1>1. U \subseteq FiniteSubsetsOf(Nat)
  <2>1. \A n \in T : IsFiniteSet(0 .. n)
    BY FS_Interval
  <2>2. \A n \in T : 0 .. n \in SUBSET Nat
    OBVIOUS
  <2>3. \A u \in U : u \in SUBSET Nat /\ IsFiniteSet(u)
    BY <2>1, <2>2
  <2> QED BY <2>3 DEF FiniteSubsetsOf
<1>2. U # {}
  OBVIOUS
<1>3. PICK x \in U : \A y \in U : <<y, x>> \notin StrictSubsetOrdering(Nat)
  <2> HIDE DEF U
  <2> QED BY <1>1, <1>2, FS_StrictSubsetOrderingWellFounded, WFMin
<1>4. PICK m \in T : x = 0 .. m
  OBVIOUS
<1>5. ASSUME NEW n \in T PROVE m <= n
  <2>1. <<0 .. n, 0 .. m>> \notin StrictSubsetOrdering(Nat)
    BY <1>3, <1>4
  <2>2. ~(0 .. n \subseteq 0 .. m /\ 0 .. n # 0 .. m)
    BY <2>1 DEF StrictSubsetOrdering
  <2> QED BY <2>2
<1> QED BY <1>5

(* Induction on the naturals, with the property as the set of those that have it. *)
LEMMA SetInduction ==
    ASSUME NEW T, NEW n \in Nat, 0 \in T, \A i \in 0 .. n - 1 : i \in T => i + 1 \in T
    PROVE  n \in T
<1> DEFINE Bad == {i \in 0 .. n : i \notin T}
<1>1. SUFFICES ASSUME Bad # {} PROVE FALSE
  OBVIOUS
<1>2. PICK m \in Bad : \A i \in Bad : m <= i
  <2>1. Bad \subseteq Nat OBVIOUS
  <2> HIDE DEF Bad
  <2> QED BY <1>1, <2>1, LeastNumber
<1>3. m # 0 /\ m - 1 \in 0 .. n - 1 /\ m - 1 \notin Bad
  BY <1>2
<1> QED BY <1>2, <1>3

(* What Without computes, one element at a time. *)
Kept(s, T, f, n) ==
   f = [i \in 0 .. n |-> IF i = 0 THEN <<>>
            ELSE IF s[i] \in T THEN f[i-1] ELSE Append(f[i-1], s[i])]

(* Without leaves out elements of a sequence and adds none. *)
LEMMA WithoutLemma ==
  ASSUME NEW S, NEW s \in Seq(S), NEW T
  PROVE  Without(s, T) \in Seq(S)
  <1> DEFINE P == {n \in 0 .. Len(s) : \E f : Kept(s, T, f, n)}
             g == CHOOSE f : Kept(s, T, f, Len(s))
  <1>1. 0 \in P
    <2>1. Kept(s, T, [i \in 0 .. 0 |-> <<>>], 0) BY DEF Kept
    <2> QED BY <2>1
  <1>2. ASSUME NEW n \in 0 .. Len(s) - 1, n \in P PROVE n + 1 \in P
    <2>1. PICK f : Kept(s, T, f, n) BY <1>2
    <2> DEFINE h == [i \in 0 .. n + 1 |-> IF i # n + 1 THEN f[i] ELSE IF s[i] \in T THEN f[n] ELSE Append(f[n], s[i])]
    <2>2. ASSUME NEW i \in 0 .. n + 1
          PROVE  h[i] = IF i = 0 THEN <<>>
                        ELSE IF s[i] \in T THEN h[i-1] ELSE Append(h[i-1], s[i])
      <3>1. CASE i = n + 1
        <4>1. i # 0 /\ i - 1 = n /\ i - 1 \in 0 .. n + 1 /\ i - 1 # n + 1 BY <3>1
        <4>2. h[i-1] = f[n] BY <4>1
        <4> QED BY <3>1, <4>1, <4>2
      <3>2. CASE i = 0 /\ i # n + 1
        BY <3>2, <2>1 DEF Kept
      <3>3. CASE i # 0 /\ i # n + 1
        <4>1. i \in 0 .. n /\ i - 1 \in 0 .. n + 1 /\ i - 1 # n + 1 BY <3>3
        <4>2. h[i] = f[i] /\ h[i-1] = f[i-1] BY <4>1, <3>3
        <4>3. f[i] = IF s[i] \in T THEN f[i-1] ELSE Append(f[i-1], s[i])
          BY <2>1, <3>3, <4>1 DEF Kept
        <4> QED BY <3>3, <4>2, <4>3
      <3> QED BY <3>1, <3>2, <3>3
    <2>3. Kept(s, T, h, n + 1)
      <3> DEFINE k == [i \in 0 .. n + 1 |-> IF i = 0 THEN <<>>
                        ELSE IF s[i] \in T THEN h[i-1] ELSE Append(h[i-1], s[i])]
      <3>1. h = k BY <2>2
      <3> QED BY <3>1 DEF Kept
    <2> QED BY <2>3
  <1>3. Len(s) \in P
    <2>1. Len(s) \in Nat OBVIOUS
    <2> HIDE DEF P
    <2> QED BY <1>1, <1>2, <2>1, SetInduction
  <1>4. Kept(s, T, g, Len(s)) BY <1>3
  <1>5. Without(s, T) = g[Len(s)] BY DEF Without, Kept
  <1> HIDE DEF g
  <1> DEFINE Q == {n \in 0 .. Len(s) : g[n] \in Seq(S)}
  <1>6. 0 \in Q BY <1>4 DEF Kept
  <1>7. ASSUME NEW n \in 0 .. Len(s) - 1, n \in Q PROVE n + 1 \in Q
    <2>0. n + 1 \in 0 .. Len(s) /\ n + 1 # 0 /\ (n + 1) - 1 = n /\ s[n+1] \in S OBVIOUS
    <2>1. g[n + 1] = IF s[n+1] \in T THEN g[(n+1)-1] ELSE Append(g[(n+1)-1], s[n+1])
      BY <1>4, <2>0 DEF Kept
    <2>2. g[n + 1] \in Seq(S) BY <1>7, <2>0, <2>1
    <2> QED BY <2>0, <2>2
  <1>8. Len(s) \in Q
    <2>1. Len(s) \in Nat OBVIOUS
    <2> HIDE DEF Q
    <2> QED BY <1>6, <1>7, <2>1, SetInduction
  <1> QED BY <1>5, <1>8

-----------------------------------------------------------------------------
(* What a node keeps for a peer, when what it has announced or been asked   *)
(* for is in mine; and what it has sent to it, when that peer has announced *)
(* what is in yours.                                                        *)
PeerOf(mine) ==
    [known : SUBSET Block, toSend : Seq(mine), continue : Block \cup {NoBlock},
     requested : SUBSET Block, getData : Seq(mine), fSyncStarted : BOOLEAN]
MessageOf(mine, yours) ==
    [type : {"inv"}, blocks : Seq(mine)] \cup [type : {"getdata"}, blocks : Seq(yours) \ {<<>>}]
    \cup [type : {"block"}, block : Block]
    \cup [type : {"getblocks"}, locator : Block, stop : Block \cup {NoBlock}]

(* The chains: an index has the branch of each block, and what is or was on *)
(* the active chain has been connected.                                     *)
ChainsOK ==
    /\ index \in [Node -> SUBSET Block]
    /\ tip \in [Node -> Block]
    /\ scripts \in [Node -> SUBSET Block]
    /\ \A n \in Node :
          /\ tip[n] \in index[n] /\ scripts[n] \subseteq index[n]
          /\ Chain(n) \in Seq(scripts[n])
          /\ \A b \in index[n] : Branch[b] \in Seq(index[n])

(* The connections: what is announced, asked for or about to be served has  *)
(* been connected by the node that announced it.                            *)
PeersOK(peers, S) ==
    /\ peers \in [Node -> [Node -> PeerOf(Block)]]
    /\ \A n, p \in Node : peers[n][p] \in PeerOf(S[n])
ChannelsOK(sent, S) ==
    /\ sent \in [Node -> [Node -> Seq(MessageOf(Block, Block))]]
    /\ \A n, p \in Node : sent[n][p] \in Seq(MessageOf(S[n], S[p]))
LinksOK == PeersOK(peer, scripts) /\ ChannelsOK(channel, scripts)

CountsOK ==
    /\ linked \subseteq Links
    /\ nSyncStarted \in [Node -> Int]
    /\ nDisconnects \in Nat

ExchangeInv == ChainsOK /\ LinksOK /\ CountsOK

-----------------------------------------------------------------------------
(* What is true of a set is true of a larger one. *)
LEMMA LargerSets ==
    ASSUME NEW A, NEW B, A \subseteq B, NEW C, NEW D, C \subseteq D
    PROVE  /\ PeerOf(A) \subseteq PeerOf(B)
           /\ MessageOf(A, C) \subseteq MessageOf(B, D)
           /\ Seq(MessageOf(A, C)) \subseteq Seq(MessageOf(B, D))
<1>1. Seq(A) \subseteq Seq(B) /\ Seq(C) \subseteq Seq(D)
  OBVIOUS
<1>2. PeerOf(A) \subseteq PeerOf(B)
  BY <1>1 DEF PeerOf
<1>3. MessageOf(A, C) \subseteq MessageOf(B, D)
  BY <1>1 DEF MessageOf
<1>4. Seq(MessageOf(A, C)) \subseteq Seq(MessageOf(B, D))
  BY <1>3
<1> QED BY <1>2, <1>3, <1>4

(* A node with nothing to do for a peer. *)
LEMMA NewPeerLemma ==
    ASSUME NEW A
    PROVE  NewPeer \in PeerOf(A)
<1>1. <<>> \in Seq(A) OBVIOUS
<1> QED BY <1>1 DEF NewPeer, PeerOf

(* The blocks of a branch. *)
LEMMA BranchLemma ==
    ASSUME NEW b \in Block
    PROVE  /\ Branch[b] \in Seq(Block) /\ Len(Branch[b]) \in Nat \ {0}
           /\ Branch[b][Len(Branch[b])] = b
           /\ Height(b) \in Nat
           /\ b # Genesis => /\ Parent(b) \in Block
                             /\ Branch[b] = Append(Branch[Parent(b)], b)
<1>1. /\ Branch[b] \in Seq(Block) /\ Len(Branch[b]) \in Nat \ {0}
      /\ Branch[b][Len(Branch[b])] = b /\ Branch[b][1] = Genesis
  BY BranchAssumption DEF Last
<1>2. ASSUME b # Genesis
      PROVE  Parent(b) \in Block /\ Branch[b] = Append(Branch[Parent(b)], b)
  <2>1. Len(Branch[b]) > 1 BY <1>1, <1>2
  <2>2. Len(Branch[b]) - 1 \in DOMAIN Branch[b] BY <1>1, <2>1
  <2>3. Parent(b) \in Block BY <1>1, <2>2 DEF Parent
  <2>4. Branch[Parent(b)] = SubSeq(Branch[b], 1, Len(Branch[b]) - 1)
    BY <2>2, BranchAssumption DEF Parent
  <2>5. Branch[b] = Append(SubSeq(Branch[b], 1, Len(Branch[b]) - 1), Branch[b][Len(Branch[b])])
    BY <1>1, <2>1
  <2> QED BY <1>1, <2>3, <2>4, <2>5
<1> QED BY <1>1, <1>2 DEF Height

(* AcceptBlock and ActivateBestChain keep the chains, and forget nothing.   *)
LEMMA AcceptBlockKeeps ==
    ASSUME ChainsOK, NEW n \in Node, NEW b \in Block, AcceptBlock(n, b),
           b # Genesis => Parent(b) \in index[n]
    PROVE  /\ ChainsOK'
           /\ \A p \in Node : scripts[p] \subseteq scripts'[p]
           /\ Height(b) > Height(tip[n]) => b \in scripts'[n]
<1>1. /\ index \in [Node -> SUBSET Block] /\ tip \in [Node -> Block]
      /\ scripts \in [Node -> SUBSET Block]
      /\ \A p \in Node :
          /\ tip[p] \in index[p] /\ scripts[p] \subseteq index[p]
          /\ Branch[tip[p]] \in Seq(scripts[p])
          /\ \A c \in index[p] : Branch[c] \in Seq(index[p])
  BY DEF ChainsOK, Chain
<1>2. index' = [index EXCEPT ![n] = index[n] \cup {b}]
  BY DEF AcceptBlock
<1>3. Branch[b] \in Seq(index'[n])
  <2>1. CASE b = Genesis
    <3>1. Branch[b] \in Seq(Block) /\ Branch[b][Len(Branch[b])] = b /\ Branch[b][1] = Genesis
      BY BranchAssumption, BranchLemma
    <3>2. Branch[Branch[b][1]] = SubSeq(Branch[b], 1, 1)
      <4>1. 1 \in DOMAIN Branch[b] BY BranchLemma
      <4> QED BY <4>1, BranchAssumption
    <3>3. Len(SubSeq(Branch[b], 1, 1)) = 1 BY <3>1, BranchLemma
    <3>4. Len(Branch[b]) = 1 BY <2>1, <3>1, <3>2, <3>3
    <3>6. \A i \in 1 .. Len(Branch[b]) : Branch[b][i] \in {b} BY <3>4, <3>1, <2>1
    <3> QED BY <3>1, <3>6, <1>1, <1>2
  <2>2. CASE b # Genesis
    <3>1. Branch[b] = Append(Branch[Parent(b)], b) /\ Branch[Parent(b)] \in Seq(index[n])
      BY <2>2, <1>1, BranchLemma
    <3>2. Branch[Parent(b)] \in Seq(index[n] \cup {b}) BY <3>1
    <3> QED BY <3>1, <3>2, <1>1, <1>2
  <2> QED BY <2>1, <2>2
<1>4. index' \in [Node -> SUBSET Block] /\ \A p \in Node : index[p] \subseteq index'[p]
  BY <1>1, <1>2
<1>5. \A p \in Node : \A c \in index'[p] : Branch[c] \in Seq(index'[p])
  <2> SUFFICES ASSUME NEW p \in Node, NEW c \in index'[p]
               PROVE  Branch[c] \in Seq(index'[p])
    OBVIOUS
  <2>1. CASE c \in index[p]
    <3>1. Branch[c] \in Seq(index[p]) BY <2>1, <1>1
    <3> QED BY <3>1, <1>4
  <2>2. CASE c \notin index[p]
    <3>1. p = n /\ c = b BY <2>2, <1>1, <1>2
    <3> QED BY <3>1, <1>3
  <2> QED BY <2>1, <2>2
<1>6. CASE Height(b) > Height(tip[n])
  <2>1. /\ tip' = [tip EXCEPT ![n] = b]
        /\ scripts' = [scripts EXCEPT ![n] = scripts[n] \cup Elements(Branch[b])]
    BY <1>6 DEF AcceptBlock
  <2>2. Branch[b] \in Seq(Elements(Branch[b])) /\ b \in Elements(Branch[b])
        /\ Elements(Branch[b]) \subseteq index'[n]
    BY <1>3, BranchLemma DEF Elements
  <2>3. scripts' \in [Node -> SUBSET Block] /\ tip' \in [Node -> Block]
    BY <1>1, <1>4, <2>1, <2>2
  <2>4. \A p \in Node : scripts[p] \subseteq scripts'[p] /\ scripts'[p] \subseteq index'[p]
    BY <1>1, <1>4, <2>1, <2>2
  <2>5. \A p \in Node : Branch[tip'[p]] \in Seq(scripts'[p])
    <3> SUFFICES ASSUME NEW p \in Node PROVE Branch[tip'[p]] \in Seq(scripts'[p])
      OBVIOUS
    <3>1. CASE p = n
      <4>1. tip'[p] = b /\ scripts'[p] = scripts[p] \cup Elements(Branch[b])
        BY <3>1, <2>1, <1>1
      <4> QED BY <4>1, <2>2
    <3>2. CASE p # n
      BY <3>2, <2>1, <1>1
    <3> QED BY <3>1, <3>2
  <2>6. \A p \in Node : tip'[p] \in index'[p]
    BY <1>1, <1>2, <1>4, <2>1
  <2>7. b \in scripts'[n] BY <2>1, <2>2, <1>1
  <2> QED BY <1>4, <1>5, <2>3, <2>4, <2>5, <2>6, <2>7 DEF ChainsOK, Chain
<1>7. CASE ~(Height(b) > Height(tip[n]))
  <2>1. tip' = tip /\ scripts' = scripts
    BY <1>7 DEF AcceptBlock
  <2>2. \A p \in Node : tip'[p] \in index'[p] /\ scripts'[p] \subseteq index'[p]
    BY <1>1, <1>4, <2>1
  <2> QED BY <1>1, <1>4, <1>5, <1>7, <2>1, <2>2 DEF ChainsOK, Chain
<1> QED BY <1>6, <1>7

(* A node does something for one peer, or sends it something. *)
LEMMA OnePeer ==
    ASSUME NEW peers, NEW S \in [Node -> SUBSET Block], PeersOK(peers, S),
           NEW n \in Node, NEW p \in Node, NEW r \in PeerOf(S[n])
    PROVE  PeersOK([peers EXCEPT ![n][p] = r], S)
<1>1. r \in PeerOf(Block) BY LargerSets
<1> QED BY <1>1 DEF PeersOK

(* The same of what is on the way. *)
LEMMA OneChannel ==
    ASSUME NEW sent, NEW S \in [Node -> SUBSET Block], ChannelsOK(sent, S),
           NEW n \in Node, NEW p \in Node, NEW s \in Seq(MessageOf(S[n], S[p]))
    PROVE  ChannelsOK([sent EXCEPT ![n][p] = s], S)
<1>1. s \in Seq(MessageOf(Block, Block)) BY LargerSets
<1> QED BY <1>1 DEF ChannelsOK

(* What a node has announced stays connected when it connects more. *)
LEMMA LinksGrow ==
    ASSUME NEW peers, NEW sent, NEW S, NEW T, PeersOK(peers, S), ChannelsOK(sent, S),
           \A n \in Node : S[n] \subseteq T[n]
    PROVE  PeersOK(peers, T) /\ ChannelsOK(sent, T)
<1>1. \A n, p \in Node : peers[n][p] \in PeerOf(T[n])
  <2> SUFFICES ASSUME NEW n \in Node, NEW p \in Node PROVE peers[n][p] \in PeerOf(T[n])
    OBVIOUS
  <2>1. PeerOf(S[n]) \subseteq PeerOf(T[n]) BY LargerSets
  <2> QED BY <2>1 DEF PeersOK
<1>2. \A n, p \in Node : sent[n][p] \in Seq(MessageOf(T[n], T[p]))
  <2> SUFFICES ASSUME NEW n \in Node, NEW p \in Node
               PROVE  sent[n][p] \in Seq(MessageOf(T[n], T[p]))
    OBVIOUS
  <2>1. Seq(MessageOf(S[n], S[p])) \subseteq Seq(MessageOf(T[n], T[p])) BY LargerSets
  <2> QED BY <2>1 DEF ChannelsOK
<1> QED BY <1>1, <1>2 DEF PeersOK, ChannelsOK

(* A new tip is announced by a node that has connected it. *)
LEMMA RelayKeeps ==
    ASSUME NEW S \in [Node -> SUBSET Block], NEW peers, PeersOK(peers, S),
           NEW n \in Node, NEW b \in Block, Height(b) > Height(tip[n]) => b \in S[n],
           NEW mine, mine \in [Node -> PeerOf(S[n])]
    PROVE  PeersOK([peers EXCEPT ![n] = Relay(n, b, mine)], S)
<1>1. ASSUME NEW q \in Node PROVE Relay(n, b, mine)[q] \in PeerOf(S[n])
  <2>1. CASE <<n, q>> \in linked /\ Height(b) > Height(tip[n])
    <3>1. mine[q] \in PeerOf(S[n]) OBVIOUS
    <3>2. mine[q].toSend \in Seq(S[n]) BY <3>1 DEF PeerOf
    <3>3. Append(mine[q].toSend, b) \in Seq(S[n]) BY <2>1, <3>2
    <3>4. PushInventory(mine[q], b) \in PeerOf(S[n])
      BY <3>1, <3>2, <3>3 DEF PushInventory, PeerOf
    <3> QED BY <2>1, <3>4 DEF Relay
  <2>2. CASE ~(<<n, q>> \in linked /\ Height(b) > Height(tip[n]))
    BY <2>2 DEF Relay
  <2> QED BY <2>1, <2>2
<1>2. \A q \in Node : Relay(n, b, mine)[q] \in PeerOf(Block)
  BY <1>1, LargerSets
<1>3. Relay(n, b, mine) = [q \in Node |-> Relay(n, b, mine)[q]]
  BY DEF Relay
<1> DEFINE R == Relay(n, b, mine)
<1>4. R \in [Node -> PeerOf(Block)] BY <1>2, <1>3
<1> HIDE DEF R
<1> QED BY <1>1, <1>4 DEF PeersOK, R

(* The node that finds a block connects it before it announces it. *)
LEMMA MineKeeps ==
    ASSUME ExchangeInv, NEW n \in Node, NEW b \in Block, Mine(n, b)
    PROVE  ExchangeInv'
<1>1. /\ ChainsOK' /\ (\A p \in Node : scripts[p] \subseteq scripts'[p])
      /\ Height(b) > Height(tip[n]) => b \in scripts'[n]
  <2>1. AcceptBlock(n, b) /\ Parent(b) = tip[n] /\ tip[n] \in index[n]
    BY DEF Mine, ExchangeInv, ChainsOK
  <2> QED BY <2>1, AcceptBlockKeeps DEF ExchangeInv
<1>2. PeersOK(peer, scripts') /\ ChannelsOK(channel, scripts')
  BY <1>1, LinksGrow DEF ExchangeInv, LinksOK
<1>3. peer[n] \in [Node -> PeerOf(scripts'[n])]
  BY <1>2 DEF PeersOK
<1>4. scripts' \in [Node -> SUBSET Block]
  BY <1>1 DEF ChainsOK
<1>5. PeersOK([peer EXCEPT ![n] = Relay(n, b, peer[n])], scripts')
  BY <1>1, <1>2, <1>3, <1>4, RelayKeeps
<1>6. PeersOK(peer', scripts') /\ ChannelsOK(channel', scripts')
  BY <1>2, <1>5 DEF Mine
<1>7. CountsOK'
  BY DEF Mine, linkVars, ExchangeInv, CountsOK
<1> QED BY <1>1, <1>6, <1>7 DEF ExchangeInv, LinksOK

(* A queue loses its head. *)
LEMMA QueueLemma ==
    ASSUME NEW M, NEW queue \in Seq(M), queue # <<>>
    PROVE  Head(queue) \in M /\ Tail(queue) \in Seq(M)
  OBVIOUS

(* Something is put behind a queue. *)
LEMMA ConcatLemma ==
    ASSUME NEW M, NEW queue \in Seq(M), NEW more \in Seq(M)
    PROVE  queue \o more \in Seq(M)
  OBVIOUS

(* Short messages. *)
LEMMA OneLemma ==
    ASSUME NEW M
    PROVE  <<>> \in Seq(M) /\ \A m \in M : <<m>> \in Seq(M)
  OBVIOUS

(* Part of a sequence. *)
LEMMA PartLemma ==
    ASSUME NEW S, NEW s \in Seq(S), NEW m \in Nat, m >= 1, NEW k \in Int, k <= Len(s)
    PROVE  SubSeq(s, m, k) \in Seq(S)
  OBVIOUS

(* The next message from a peer. *)
LEMMA HeadLemma ==
    ASSUME ExchangeInv, NEW n \in Node, NEW p \in Node, NEW type, Receives(n, p, type)
    PROVE  /\ Head(channel[p][n]) \in MessageOf(scripts[p], scripts[n])
           /\ Head(channel[p][n]).type = type
           /\ ChannelsOK([channel EXCEPT ![p][n] = Tail(channel[p][n])], scripts)
           /\ peer[n][p] \in PeerOf(scripts[n])
           /\ scripts \in [Node -> SUBSET Block]
<1>1. channel[p][n] \in Seq(MessageOf(scripts[p], scripts[n])) /\ channel[p][n] # <<>>
  BY DEF ExchangeInv, LinksOK, ChannelsOK, Receives
<1>2. /\ Head(channel[p][n]) \in MessageOf(scripts[p], scripts[n])
      /\ Tail(channel[p][n]) \in Seq(MessageOf(scripts[p], scripts[n]))
  BY <1>1, QueueLemma
<1>3. ChannelsOK([channel EXCEPT ![p][n] = Tail(channel[p][n])], scripts)
  BY <1>2, OneChannel DEF ExchangeInv, LinksOK, ChainsOK
<1> QED BY <1>2, <1>3 DEF ExchangeInv, LinksOK, PeersOK, ChainsOK, Receives

(* A node sends something. *)
LEMMA SendKeeps ==
    ASSUME ExchangeInv, NEW n \in Node, NEW p \in Node,
           NEW sent, ChannelsOK(sent, scripts),
           NEW reply \in Seq(MessageOf(scripts[n], scripts[p]))
    PROVE  ChannelsOK([sent EXCEPT ![n][p] = channel[n][p] \o reply], scripts)
<1>1. channel[n][p] \in Seq(MessageOf(scripts[n], scripts[p]))
  BY DEF ExchangeInv, LinksOK, ChannelsOK
<1>2. channel[n][p] \o reply \in Seq(MessageOf(scripts[n], scripts[p]))
  BY <1>1, ConcatLemma
<1>3. scripts \in [Node -> SUBSET Block]
  BY DEF ExchangeInv, ChainsOK
<1> QED BY <1>2, <1>3, OneChannel

(* A node reads a message and answers it. *)
LEMMA TakeAndSendKeeps ==
    ASSUME ExchangeInv, NEW n \in Node, NEW p \in Node,
           ChannelsOK([channel EXCEPT ![p][n] = Tail(channel[p][n])], scripts),
           NEW reply \in Seq(MessageOf(scripts[n], scripts[p])), TakeAndSend(n, p, reply)
    PROVE  ChannelsOK(channel', scripts)
<1>1. channel \in [Node -> [Node -> Seq(MessageOf(Block, Block))]]
  BY DEF ExchangeInv, LinksOK, ChannelsOK
<1>2. channel' = [[channel EXCEPT ![p][n] = Tail(channel[p][n])]
                     EXCEPT ![n][p] = channel[n][p] \o reply]
  BY <1>1 DEF TakeAndSend
<1> QED BY <1>2, SendKeeps

(* A step that changes one peer's state and sends something. *)
LEMMA StepKeeps ==
    ASSUME ExchangeInv, UNCHANGED chainVars, UNCHANGED linkVars,
           PeersOK(peer', scripts), ChannelsOK(channel', scripts)
    PROVE  ExchangeInv'
<1>1. ChainsOK'
  BY DEF chainVars, ExchangeInv, ChainsOK, Chain
<1>2. LinksOK'
  BY DEF chainVars, LinksOK
<1>3. CountsOK'
  BY DEF linkVars, ExchangeInv, CountsOK
<1> QED BY <1>1, <1>2, <1>3 DEF ExchangeInv

(* The elements of a sequence. *)
LEMMA ElementsLemma ==
    ASSUME NEW S, NEW s \in Seq(S)
    PROVE  Elements(s) \subseteq S
  BY DEF Elements

(* What a node asks for has been announced by the peer it asks. *)
LEMMA ReceiveInvKeeps ==
    ASSUME ExchangeInv, NEW n \in Node, NEW p \in Node, ReceiveInv(n, p)
    PROVE  ExchangeInv'
<1> DEFINE msg == Head(channel[p][n])
           toFetch == Without(msg.blocks, index[n])
           reply == IF toFetch = <<>> THEN <<>> ELSE <<GetData(toFetch)>>
           r == [peer[n][p] EXCEPT !.known = @ \cup Elements(msg.blocks)]
<1>1. /\ msg \in MessageOf(scripts[p], scripts[n]) /\ msg.type = "inv"
      /\ ChannelsOK([channel EXCEPT ![p][n] = Tail(channel[p][n])], scripts)
      /\ peer[n][p] \in PeerOf(scripts[n]) /\ scripts \in [Node -> SUBSET Block]
  BY HeadLemma DEF ReceiveInv
<1>2. msg.blocks \in Seq(scripts[p]) /\ Elements(msg.blocks) \subseteq Block
  <2>1. msg.blocks \in Seq(scripts[p])
    BY <1>1 DEF MessageOf
  <2> QED BY <2>1, <1>1, ElementsLemma
<1>3. reply \in Seq(MessageOf(scripts[n], scripts[p]))
  <2>1. toFetch \in Seq(scripts[p])
    BY <1>2, WithoutLemma
  <2>2. toFetch # <<>> => GetData(toFetch) \in MessageOf(scripts[n], scripts[p])
    BY <2>1 DEF GetData, MessageOf
  <2> QED BY <2>2, OneLemma
<1>4. r \in PeerOf(scripts[n])
  BY <1>1, <1>2 DEF PeerOf
<1>5. peer' = [peer EXCEPT ![n][p] = r] /\ TakeAndSend(n, p, reply)
  BY DEF ReceiveInv, ExchangeInv, LinksOK, PeersOK
<1>6. PeersOK(peer', scripts)
  BY <1>1, <1>4, <1>5, OnePeer DEF ExchangeInv, LinksOK
<1>7. ChannelsOK(channel', scripts)
  <2> HIDE DEF reply
  <2> QED BY <1>1, <1>3, <1>5, TakeAndSendKeeps
<1> QED BY <1>6, <1>7, StepKeeps DEF ReceiveInv

(* What follows the fork is of the node's chain. *)
LEMMA WantedLemma ==
    ASSUME ExchangeInv, NEW n \in Node, NEW locator \in Block, NEW stop \in Block \cup {NoBlock}
    PROVE  Wanted(n, locator, stop) \in Seq(scripts[n])
<1> DEFINE chain == Chain(n)
           next == Cardinality(Elements(Chain(n)) \cap Elements(Branch[locator])) + 1
           stops == \E i \in next .. Len(Chain(n)) : Chain(n)[i] = stop
           last == IF stops THEN Height(stop) ELSE Len(Chain(n))
<1>1. /\ chain \in Seq(scripts[n]) /\ Len(chain) \in Nat
      /\ tip[n] \in Block /\ Branch[tip[n]] = chain
  BY DEF ExchangeInv, ChainsOK, Chain
<1>2. next \in Nat /\ next >= 1
  <2>1. Branch[locator] \in Surjection(1 .. Len(Branch[locator]), Elements(Branch[locator]))
    BY BranchLemma DEF Elements, Surjection
  <2>2. IsFiniteSet(1 .. Len(Branch[locator]))
    BY BranchLemma, FS_Interval
  <2>3. IsFiniteSet(Elements(Branch[locator]))
    BY <2>1, <2>2, FS_Surjection
  <2>4. IsFiniteSet(Elements(Chain(n)) \cap Elements(Branch[locator]))
    BY <2>3, FS_Intersection
  <2> QED BY <2>4, FS_CardinalityType
<1>3. last \in Int /\ last <= Len(chain)
  <2>1. CASE stops
    <3>1. PICK i \in next .. Len(chain) : chain[i] = stop BY <2>1
    <3>2. i \in DOMAIN chain BY <3>1, <1>1, <1>2
    <3>3. Branch[stop] = SubSeq(chain, 1, i)
      BY <3>1, <3>2, <1>1, BranchAssumption
    <3>4. Len(Branch[stop]) = i BY <3>2, <3>3, <1>1
    <3> QED BY <2>1, <3>2, <3>4, <1>1 DEF Height
  <2>2. CASE ~stops
    BY <2>2, <1>1
  <2> QED BY <2>1, <2>2
<1>4. Wanted(n, locator, stop) = SubSeq(chain, next, last)
  BY DEF Wanted
<1> HIDE DEF chain, next, last
<1>5. SubSeq(chain, next, last) \in Seq(scripts[n])
  BY <1>1, <1>2, <1>3, PartLemma
<1> QED BY <1>4, <1>5

(* A node announces what it queued for the peer. *)
LEMMA SendMessagesKeeps ==
    ASSUME ExchangeInv, NEW n \in Node, NEW p \in Node, SendMessages(n, p)
    PROVE  ExchangeInv'
<1> DEFINE new == Without(peer[n][p].toSend, peer[n][p].known)
           asks == IF StartsSync(n, p) THEN <<GetBlocks(tip[n], NoBlock)>> ELSE <<>>
           tells == IF new # <<>> THEN <<Inv(new)>> ELSE <<>>
           r == [peer[n][p] EXCEPT !.fSyncStarted = peer[n][p].fSyncStarted \/ StartsSync(n, p),
                                   !.known = peer[n][p].known \cup Elements(new),
                                   !.toSend = <<>>]
           M == MessageOf(scripts[n], scripts[p])
<1>1. /\ peer[n][p] \in PeerOf(scripts[n]) /\ scripts \in [Node -> SUBSET Block]
      /\ channel[n][p] \in Seq(M) /\ tip[n] \in Block
  BY DEF ExchangeInv, ChainsOK, LinksOK, PeersOK, ChannelsOK
<1>2. new \in Seq(scripts[n])
  <2>1. peer[n][p].toSend \in Seq(scripts[n]) BY <1>1 DEF PeerOf
  <2> QED BY <2>1, WithoutLemma
<1>3. asks \in Seq(M)
  <2>1. GetBlocks(tip[n], NoBlock) \in M
    BY <1>1 DEF GetBlocks, MessageOf
  <2> HIDE DEF M
  <2> QED BY <2>1, OneLemma
<1>4. tells \in Seq(M)
  <2>1. Inv(new) \in M
    BY <1>2 DEF Inv, MessageOf
  <2> HIDE DEF M, new
  <2> QED BY <2>1, OneLemma
<1>5. r \in PeerOf(scripts[n])
  <2>1. StartsSync(n, p) \in BOOLEAN BY DEF StartsSync
  <2>2. Elements(new) \subseteq Block BY <1>1, <1>2, ElementsLemma
  <2>3. <<>> \in Seq(scripts[n]) OBVIOUS
  <2> HIDE DEF new
  <2> QED BY <1>1, <2>1, <2>2, <2>3 DEF PeerOf
<1>6. PeersOK([peer EXCEPT ![n][p] = r], scripts)
  BY <1>1, <1>5, OnePeer DEF ExchangeInv, LinksOK
<1>7. ChannelsOK([channel EXCEPT ![n][p] = channel[n][p] \o asks \o tells], scripts)
  <2> HIDE DEF M, asks, tells
  <2>1. channel[n][p] \o asks \o tells \in Seq(M)
    BY <1>1, <1>3, <1>4, ConcatLemma
  <2> QED BY <2>1, <1>1, OneChannel DEF ExchangeInv, LinksOK, M
<1>8. /\ peer' = [peer EXCEPT ![n][p] = r] /\ channel' = [channel EXCEPT ![n][p] = channel[n][p] \o asks \o tells]
      /\ UNCHANGED chainVars /\ linked' = linked /\ nDisconnects' = nDisconnects
      /\ nSyncStarted' \in {nSyncStarted, [nSyncStarted EXCEPT ![n] = nSyncStarted[n] + 1]}
  BY DEF SendMessages
<1>9. CountsOK'
  <2>1. nSyncStarted' \in [Node -> Int]
    BY <1>8 DEF ExchangeInv, CountsOK
  <2> QED BY <2>1, <1>8 DEF ExchangeInv, CountsOK
<1>10. ChainsOK'
  BY <1>8 DEF chainVars, ExchangeInv, ChainsOK, Chain
<1>11. LinksOK'
  <2> HIDE DEF r, asks, tells
  <2> QED BY <1>6, <1>7, <1>8 DEF LinksOK, chainVars
<1> QED BY <1>9, <1>10, <1>11 DEF ExchangeInv

(* A batch is of the chain of the node that queues it. *)
LEMMA ReceiveGetBlocksKeeps ==
    ASSUME ExchangeInv, NEW n \in Node, NEW p \in Node, ReceiveGetBlocks(n, p)
    PROVE  ExchangeInv'
<1> DEFINE msg == Head(channel[p][n])
           wanted == Wanted(n, msg.locator, msg.stop)
           full == Len(wanted) >= Limit
           batch == IF full THEN SubSeq(wanted, 1, Limit) ELSE wanted
           pushed == PushAll(peer[n][p], batch)
           r == [pushed EXCEPT !.continue = IF full THEN batch[Limit] ELSE @]
<1>1. /\ msg \in MessageOf(scripts[p], scripts[n]) /\ msg.type = "getblocks"
      /\ ChannelsOK([channel EXCEPT ![p][n] = Tail(channel[p][n])], scripts)
      /\ peer[n][p] \in PeerOf(scripts[n]) /\ scripts \in [Node -> SUBSET Block]
  BY HeadLemma DEF ReceiveGetBlocks
<1>2. msg.locator \in Block /\ msg.stop \in Block \cup {NoBlock}
  BY <1>1 DEF MessageOf
<1>3. wanted \in Seq(scripts[n])
  BY <1>2, WantedLemma
<1>4. /\ batch \in Seq(scripts[n])
      /\ full => batch[Limit] \in scripts[n]
  <2> HIDE DEF wanted
  <2>1. Limit \in Nat \ {0} BY NodeAssumption
  <2>2. full => SubSeq(wanted, 1, Limit) \in Seq(scripts[n])
    <3>1. ASSUME full PROVE Limit \in Int /\ Limit <= Len(wanted) /\ 1 \in Nat /\ 1 >= 1
      BY <3>1, <2>1, <1>3
    <3> QED BY <3>1, <1>3, PartLemma
  <2>3. full => SubSeq(wanted, 1, Limit)[Limit] = wanted[Limit] /\ wanted[Limit] \in scripts[n]
    BY <1>3, <2>1
  <2> QED BY <1>3, <2>2, <2>3
<1>5. pushed \in PeerOf(scripts[n])
  <2> HIDE DEF batch
  <2>1. Without(batch, Queued(peer[n][p])) \in Seq(scripts[n])
    BY <1>4, WithoutLemma
  <2>2. peer[n][p].toSend \in Seq(scripts[n])
    BY <1>1 DEF PeerOf
  <2>3. peer[n][p].toSend \o Without(batch, Queued(peer[n][p])) \in Seq(scripts[n])
    BY <2>1, <2>2, ConcatLemma
  <2> QED BY <1>1, <2>3 DEF PushAll, PeerOf
<1>6. r \in PeerOf(scripts[n])
  <2>1. full => batch[Limit] \in Block BY <1>1, <1>4
  <2> HIDE DEF batch, pushed, full
  <2> QED BY <1>5, <2>1 DEF PeerOf
<1>7. peer' = [peer EXCEPT ![n][p] = r] /\ TakeAndSend(n, p, <<>>)
  BY DEF ReceiveGetBlocks
<1>8. PeersOK(peer', scripts)
  <2> HIDE DEF r
  <2> QED BY <1>1, <1>6, <1>7, OnePeer DEF ExchangeInv, LinksOK
<1>9. ChannelsOK(channel', scripts)
  <2>1. <<>> \in Seq(MessageOf(scripts[n], scripts[p])) BY OneLemma
  <2> QED BY <1>1, <1>7, <2>1, TakeAndSendKeeps
<1> QED BY <1>8, <1>9, StepKeeps DEF ReceiveGetBlocks

(* A block is served, or not, whoever has asked for it. *)
LEMMA ProcessGetDataKeeps ==
    ASSUME ExchangeInv, NEW n \in Node, NEW p \in Node,
           NEW blocks \in Seq(scripts[n]), blocks # <<>>,
           NEW taken, ChannelsOK(taken, scripts), taken[n][p] = channel[n][p],
           ProcessGetData(n, p, blocks, taken)
    PROVE  ExchangeInv'
<1> DEFINE b == Head(blocks)
           last == b = peer[n][p].continue
           sends == IF Serves(n, b) THEN <<BlockMsg(b)>> ELSE <<>>
           tells == IF Serves(n, b) /\ last THEN <<Inv(<<tip[n]>>)>> ELSE <<>>
           r == [peer[n][p] EXCEPT !.getData = Tail(blocks),
                       !.continue = IF Serves(n, b) /\ last THEN NoBlock ELSE @]
           M == MessageOf(scripts[n], scripts[p])
<1>1. /\ peer[n][p] \in PeerOf(scripts[n]) /\ scripts \in [Node -> SUBSET Block]
      /\ taken[n][p] \in Seq(M) /\ tip[n] \in scripts[n]
  <2>1. Chain(n) \in Seq(scripts[n]) /\ tip[n] \in Block
    BY DEF ExchangeInv, ChainsOK
  <2>2. tip[n] = Chain(n)[Len(Chain(n))] /\ Len(Chain(n)) \in DOMAIN Chain(n)
    BY <2>1, BranchLemma DEF Chain
  <2> QED BY <2>1, <2>2 DEF ExchangeInv, ChainsOK, LinksOK, PeersOK, ChannelsOK
<1>2. b \in scripts[n] /\ Tail(blocks) \in Seq(scripts[n]) /\ b \in Block
  BY <1>1, QueueLemma
<1>3. sends \in Seq(M)
  <2>1. BlockMsg(b) \in M
    BY <1>2 DEF BlockMsg, MessageOf
  <2> HIDE DEF M
  <2> QED BY <2>1, OneLemma
<1>4. tells \in Seq(M)
  <2>1. <<tip[n]>> \in Seq(scripts[n]) BY <1>1, OneLemma
  <2>2. Inv(<<tip[n]>>) \in M
    BY <2>1 DEF Inv, MessageOf
  <2> HIDE DEF M
  <2> QED BY <2>2, OneLemma
<1>5. r \in PeerOf(scripts[n])
  BY <1>1, <1>2 DEF PeerOf
<1>6. PeersOK([peer EXCEPT ![n][p] = r], scripts)
  BY <1>1, <1>5, OnePeer DEF ExchangeInv, LinksOK
<1>7. ChannelsOK([taken EXCEPT ![n][p] = taken[n][p] \o sends \o tells], scripts)
  <2> HIDE DEF M, sends, tells
  <2>1. taken[n][p] \o sends \o tells \in Seq(M)
    BY <1>1, <1>3, <1>4, ConcatLemma
  <2> QED BY <2>1, <1>1, OneChannel DEF M
<1>8. /\ peer' = [peer EXCEPT ![n][p] = r]
      /\ channel' = [taken EXCEPT ![n][p] = taken[n][p] \o sends \o tells]
      /\ UNCHANGED <<chainVars, linkVars>>
  <2>1. peer \in [Node -> [Node -> PeerOf(Block)]]
    BY DEF ExchangeInv, LinksOK, PeersOK
  <2>2. peer' = [peer EXCEPT ![n][p].getData = Tail(blocks),
                     ![n][p].continue = IF Serves(n, b) /\ last THEN NoBlock ELSE @]
    BY DEF ProcessGetData
  <2>3. peer' = [peer EXCEPT ![n][p] = r]
    BY <2>1, <2>2 DEF PeerOf
  <2> QED BY <2>3 DEF ProcessGetData
<1> HIDE DEF r, sends, tells
<1> QED BY <1>6, <1>7, <1>8, StepKeeps

(* The first block of a getdata is served when it is read. *)
LEMMA ReceiveGetDataKeeps ==
    ASSUME ExchangeInv, NEW n \in Node, NEW p \in Node, ReceiveGetData(n, p)
    PROVE  ExchangeInv'
<1> DEFINE msg == Head(channel[p][n])
           taken == [channel EXCEPT ![p][n] = Tail(channel[p][n])]
<1>1. /\ msg \in MessageOf(scripts[p], scripts[n]) /\ msg.type = "getdata"
      /\ ChannelsOK(taken, scripts)
  BY HeadLemma DEF ReceiveGetData
<1>2. msg.blocks \in Seq(scripts[n]) /\ msg.blocks # <<>>
  BY <1>1 DEF MessageOf
<1>3. taken[n][p] = channel[n][p]
  <2>1. n # p
    BY NodeAssumption DEF ReceiveGetData, Receives, ExchangeInv, CountsOK, Links
  <2> QED BY <2>1 DEF ExchangeInv, LinksOK, ChannelsOK
<1>4. ProcessGetData(n, p, msg.blocks, taken)
  BY DEF ReceiveGetData
<1> HIDE DEF taken, msg
<1> QED BY <1>1, <1>2, <1>3, <1>4, ProcessGetDataKeeps

(* The others are served one by one. *)
LEMMA ServeNextKeeps ==
    ASSUME ExchangeInv, NEW n \in Node, NEW p \in Node, ServeNext(n, p)
    PROVE  ExchangeInv'
<1>1. peer[n][p].getData \in Seq(scripts[n]) /\ peer[n][p].getData # <<>>
  BY DEF ServeNext, ExchangeInv, LinksOK, PeersOK, PeerOf
<1>2. ProcessGetData(n, p, peer[n][p].getData, channel) /\ ChannelsOK(channel, scripts)
  BY DEF ServeNext, ExchangeInv, LinksOK
<1> QED BY <1>1, <1>2, ProcessGetDataKeeps

(* A dropped block is answered with a getblocks, which asks for nothing yet. *)
LEMMA ReceiveOrphanKeeps ==
    ASSUME ExchangeInv, NEW n \in Node, NEW p \in Node, ReceiveOrphan(n, p)
    PROVE  ExchangeInv'
<1> DEFINE b == Head(channel[p][n]).block
           stop == IF b \in peer[n][p].requested THEN Parent(b) ELSE b
           reply == <<GetBlocks(tip[n], stop)>>
           r == [peer[n][p] EXCEPT !.requested = @ \cup {stop}]
<1>1. /\ Head(channel[p][n]) \in MessageOf(scripts[p], scripts[n])
      /\ Head(channel[p][n]).type = "block"
      /\ ChannelsOK([channel EXCEPT ![p][n] = Tail(channel[p][n])], scripts)
      /\ peer[n][p] \in PeerOf(scripts[n]) /\ scripts \in [Node -> SUBSET Block]
  BY HeadLemma DEF ReceiveOrphan
<1>2. b \in Block /\ b # Genesis /\ tip[n] \in Block
  <2>1. b \in Block BY <1>1 DEF MessageOf
  <2> QED BY <2>1 DEF ReceiveOrphan, ExchangeInv, ChainsOK
<1>3. stop \in Block
  <2>1. Parent(b) \in Block BY <1>2, BranchLemma
  <2> QED BY <1>2, <2>1
<1>4. reply \in Seq(MessageOf(scripts[n], scripts[p]))
  <2>1. GetBlocks(tip[n], stop) \in MessageOf(scripts[n], scripts[p])
    BY <1>2, <1>3 DEF GetBlocks, MessageOf
  <2> QED BY <2>1, OneLemma
<1>5. r \in PeerOf(scripts[n])
  BY <1>1, <1>3 DEF PeerOf
<1>6. peer' = [peer EXCEPT ![n][p] = r] /\ TakeAndSend(n, p, reply)
  BY DEF ReceiveOrphan, ExchangeInv, LinksOK, PeersOK
<1> HIDE DEF r, reply
<1>7. PeersOK(peer', scripts)
  BY <1>1, <1>5, <1>6, OnePeer DEF ExchangeInv, LinksOK
<1>8. ChannelsOK(channel', scripts)
  BY <1>1, <1>4, <1>6, TakeAndSendKeeps
<1> QED BY <1>7, <1>8, StepKeeps DEF ReceiveOrphan

(* A block that arrives after its parent is taken, and announced. *)
LEMMA ReceiveBlockKeeps ==
    ASSUME ExchangeInv, NEW n \in Node, NEW p \in Node, ReceiveBlock(n, p)
    PROVE  ExchangeInv'
<1> DEFINE b == Head(channel[p][n]).block
           peers == [peer[n] EXCEPT ![p].known = @ \cup {b}]
<1>1. /\ Head(channel[p][n]) \in MessageOf(scripts[p], scripts[n])
      /\ Head(channel[p][n]).type = "block"
      /\ ChannelsOK([channel EXCEPT ![p][n] = Tail(channel[p][n])], scripts)
      /\ peer[n][p] \in PeerOf(scripts[n]) /\ scripts \in [Node -> SUBSET Block]
  BY HeadLemma DEF ReceiveBlock
<1>2. b \in Block
  BY <1>1 DEF MessageOf
<1>3. ChannelsOK(channel', scripts)
  <2>1. TakeAndSend(n, p, <<>>) BY DEF ReceiveBlock
  <2>2. <<>> \in Seq(MessageOf(scripts[n], scripts[p])) BY OneLemma
  <2> QED BY <1>1, <2>1, <2>2, TakeAndSendKeeps
<1>4. peers \in [Node -> PeerOf(scripts[n])]
  <2>1. peer[n] \in [Node -> PeerOf(scripts[n])]
    BY DEF ExchangeInv, LinksOK, PeersOK
  <2>2. [peer[n][p] EXCEPT !.known = @ \cup {b}] \in PeerOf(scripts[n])
    BY <1>1, <1>2 DEF PeerOf
  <2>3. peers = [peer[n] EXCEPT ![p] = [peer[n][p] EXCEPT !.known = @ \cup {b}]]
    BY <2>1
  <2> QED BY <2>1, <2>2, <2>3
<1>5. CASE b \in index[n]
  <2>1. peer' = [peer EXCEPT ![n] = peers] /\ UNCHANGED <<chainVars, linkVars>>
    BY <1>5 DEF ReceiveBlock
  <2>2. PeerOf(scripts[n]) \subseteq PeerOf(Block)
    BY <1>1, LargerSets
  <2> HIDE DEF peers
  <2>3. peers \in [Node -> PeerOf(Block)]
    BY <1>4, <2>2
  <2>4. PeersOK([peer EXCEPT ![n] = peers], scripts)
    BY <1>4, <2>3 DEF ExchangeInv, LinksOK, PeersOK
  <2>5. PeersOK(peer', scripts) BY <2>1, <2>4
  <2> QED BY <1>3, <2>1, <2>5, StepKeeps
<1>6. CASE b \notin index[n]
  <2>1. /\ AcceptBlock(n, b) /\ peer' = [peer EXCEPT ![n] = Relay(n, b, peers)]
        /\ UNCHANGED linkVars /\ (b # Genesis => Parent(b) \in index[n])
    BY <1>6 DEF ReceiveBlock
  <2>2. /\ ChainsOK' /\ (\A q \in Node : scripts[q] \subseteq scripts'[q])
        /\ Height(b) > Height(tip[n]) => b \in scripts'[n]
    BY <1>2, <2>1, AcceptBlockKeeps DEF ExchangeInv
  <2>3. PeersOK(peer, scripts') /\ ChannelsOK(channel', scripts')
    BY <1>3, <2>2, LinksGrow DEF ExchangeInv, LinksOK
  <2>4. scripts' \in [Node -> SUBSET Block]
    BY <2>2 DEF ChainsOK
  <2> HIDE DEF peers
  <2>5. peers \in [Node -> PeerOf(scripts'[n])]
    <3>1. PeerOf(scripts[n]) \subseteq PeerOf(scripts'[n]) BY <2>2, LargerSets
    <3> QED BY <3>1, <1>4
  <2>6. PeersOK(peer', scripts')
    BY <1>2, <2>1, <2>2, <2>3, <2>4, <2>5, RelayKeeps
  <2>7. CountsOK'
    BY <2>1 DEF linkVars, ExchangeInv, CountsOK
  <2> QED BY <2>2, <2>3, <2>6, <2>7 DEF ExchangeInv, LinksOK
<1> QED BY <1>5, <1>6

(* A lost connection leaves nothing behind. *)
LEMMA LoseConnectionKeeps ==
    ASSUME ExchangeInv, NEW n \in Node, NEW p \in Node, LoseConnection(n, p)
    PROVE  ExchangeInv'
<1>1. scripts \in [Node -> SUBSET Block] /\ PeersOK(peer, scripts) /\ ChannelsOK(channel, scripts)
  BY DEF ExchangeInv, ChainsOK, LinksOK
<1>2. PeersOK([[peer EXCEPT ![n][p] = NewPeer] EXCEPT ![p][n] = NewPeer], scripts)
  <2>1. PeersOK([peer EXCEPT ![n][p] = NewPeer], scripts)
    BY <1>1, NewPeerLemma, OnePeer
  <2> QED BY <1>1, <2>1, NewPeerLemma, OnePeer
<1>3. ChannelsOK([[channel EXCEPT ![n][p] = <<>>] EXCEPT ![p][n] = <<>>], scripts)
  <2>1. ChannelsOK([channel EXCEPT ![n][p] = <<>>], scripts)
    BY <1>1, OneLemma, OneChannel
  <2> QED BY <1>1, <2>1, OneLemma, OneChannel
<1>4. PeersOK(peer', scripts)
  BY <1>1, <1>2 DEF LoseConnection, PeersOK
<1>5. ChannelsOK(channel', scripts)
  BY <1>1, <1>3 DEF LoseConnection, ChannelsOK
<1>6. ChainsOK' /\ scripts' = scripts
  BY DEF LoseConnection, chainVars, ExchangeInv, ChainsOK, Chain
<1>7. CountsOK'
  BY DEF LoseConnection, FinalizeNode, ExchangeInv, CountsOK
<1> QED BY <1>4, <1>5, <1>6, <1>7 DEF ExchangeInv, LinksOK

(* A new one starts with nothing. *)
LEMMA ConnectKeeps ==
    ASSUME ExchangeInv, NEW n \in Node, NEW p \in Node, Connect(n, p)
    PROVE  ExchangeInv'
<1>1. ChainsOK' /\ LinksOK'
  BY DEF Connect, chainVars, ExchangeInv, ChainsOK, Chain, LinksOK
<1>2. CountsOK'
  BY DEF Connect, ExchangeInv, CountsOK, Links
<1> QED BY <1>1, <1>2 DEF ExchangeInv

(* The nodes start with the branches of their blocks. *)
LEMMA StartKeeps ==
    SyncInit => ExchangeInv
<1> SUFFICES ASSUME SyncInit PROVE ExchangeInv
  OBVIOUS
<1>1. /\ index \in [Node -> SUBSET Block] /\ tip \in [Node -> Block]
      /\ \A n \in Node : tip[n] \in index[n] /\ \A b \in index[n] : Elements(Branch[b]) \subseteq index[n]
  BY NodeAssumption DEF SyncInit
<1>2. ASSUME NEW b \in Block, NEW S, Elements(Branch[b]) \subseteq S
      PROVE  Branch[b] \in Seq(S)
  <2>1. Branch[b] \in Seq(Block) BY BranchLemma
  <2>2. \A i \in 1 .. Len(Branch[b]) : Branch[b][i] \in S BY <2>1, <1>2 DEF Elements
  <2> QED BY <2>1, <2>2
<1>3. ChainsOK
  <2>1. \A n \in Node : scripts[n] = Elements(Branch[tip[n]]) /\ scripts[n] \subseteq index[n]
    BY <1>1 DEF SyncInit
  <2>2. scripts \in [Node -> SUBSET Block]
    BY <1>1, <2>1 DEF SyncInit
  <2>3. \A n \in Node : Branch[tip[n]] \in Seq(scripts[n])
    BY <1>1, <1>2, <2>1
  <2>4. \A n \in Node : \A b \in index[n] : Branch[b] \in Seq(index[n])
    BY <1>1, <1>2
  <2> QED BY <1>1, <2>1, <2>2, <2>3, <2>4 DEF ChainsOK, Chain
<1>4. LinksOK
  <2>1. \A n, p \in Node : NewPeer \in PeerOf(scripts[n]) /\ NewPeer \in PeerOf(Block)
    BY NewPeerLemma
  <2>2. \A n, p \in Node : <<>> \in Seq(MessageOf(scripts[n], scripts[p])) /\ <<>> \in Seq(MessageOf(Block, Block))
    BY OneLemma
  <2> QED BY <2>1, <2>2 DEF SyncInit, LinksOK, PeersOK, ChannelsOK
<1>5. CountsOK
  BY DEF SyncInit, CountsOK
<1> QED BY <1>3, <1>4, <1>5 DEF ExchangeInv

(* Theorem: the invariant of the exchange of blocks, for any nodes, links,  *)
(* blocks and limits, whichever connections are lost: what a node announces *)
(* it has connected, and what is asked of it, or waits in vRecvGetData to be *)
(* served, it has announced.                                                *)
THEOREM ExchangeInvariance == SyncSpec => []ExchangeInv
<1>1. SyncInit => ExchangeInv
  BY StartKeeps
<1>2. ExchangeInv /\ [SyncNext]_syncVars => ExchangeInv'
  <2> SUFFICES ASSUME ExchangeInv, [SyncNext]_syncVars PROVE ExchangeInv'
    OBVIOUS
  <2>1. ASSUME NEW n \in Node, NEW b \in Block, Mine(n, b) PROVE ExchangeInv'
    BY <2>1, MineKeeps
  <2>2. ASSUME NEW n \in Node, HandleMessages(n) PROVE ExchangeInv'
    <3>1. PICK p \in Node : Receive(n, p) \/ SendMessages(n, p)
      BY <2>2 DEF HandleMessages
    <3> QED BY <3>1, SendMessagesKeeps, ReceiveInvKeeps, ReceiveGetBlocksKeeps, ReceiveGetDataKeeps,
               ServeNextKeeps, ReceiveOrphanKeeps, ReceiveBlockKeeps DEF Receive
  <2>3. ASSUME NEW n \in Node, NEW p \in Node, LoseConnection(n, p) \/ Connect(n, p)
        PROVE  ExchangeInv'
    BY <2>3, LoseConnectionKeeps, ConnectKeeps
  <2>4. CASE UNCHANGED syncVars
    BY <2>4, StepKeeps DEF syncVars, ExchangeInv, LinksOK
  <2> QED BY <2>1, <2>2, <2>3, <2>4 DEF SyncNext
<1> QED BY <1>1, <1>2, PTL DEF SyncSpec

(* A node has every block that it is asked for, and has connected it. *)
RequestsConnected ==
    \A n, p \in Node :
       /\ Elements(peer[p][n].getData) \subseteq index[p] \cap scripts[p]
       /\ \A i \in DOMAIN channel[n][p] :
             channel[n][p][i].type = "getdata" =>
                Elements(channel[n][p][i].blocks) \subseteq index[p] \cap scripts[p]

(* Theorem: however deep the forks are, the only requests that              *)
(* ProcessGetData can refuse are those its depth rule refuses.              *)
THEOREM RequestsAreOfConnected == SyncSpec => []RequestsConnected
<1>1. ASSUME ExchangeInv PROVE RequestsConnected
  <2> USE <1>1
  <2>1. ASSUME NEW n \in Node, NEW p \in Node
        PROVE  Elements(peer[p][n].getData) \subseteq index[p] \cap scripts[p]
    <3>1. peer[p][n].getData \in Seq(scripts[p]) /\ scripts[p] \subseteq index[p]
      BY DEF ExchangeInv, LinksOK, PeersOK, PeerOf, ChainsOK
    <3> QED BY <3>1, ElementsLemma
  <2>2. ASSUME NEW n \in Node, NEW p \in Node, NEW i \in DOMAIN channel[n][p],
               channel[n][p][i].type = "getdata"
        PROVE  Elements(channel[n][p][i].blocks) \subseteq index[p] \cap scripts[p]
    <3>1. channel[n][p][i] \in MessageOf(scripts[n], scripts[p]) /\ scripts[p] \subseteq index[p]
      BY DEF ExchangeInv, LinksOK, ChannelsOK, ChainsOK
    <3>2. channel[n][p][i].blocks \in Seq(scripts[p])
      BY <3>1, <2>2 DEF MessageOf
    <3> QED BY <3>1, <3>2, ElementsLemma
  <2> QED BY <2>1, <2>2 DEF RequestsConnected
<1> QED BY <1>1, ExchangeInvariance, PTL

(* Two blocks of different branches are less than the depth apart down to   *)
(* which a node serves what is off its chain.                               *)
ShallowForks ==
    \A b, c \in Block :
        b \notin Elements(Branch[c]) => Height(c) - Height(b) < MaxReorganizationDepth

(* What has been connected is served, on the chain or off it. *)
LEMMA RequestsLemma ==
    ASSUME ShallowForks, ExchangeInv
    PROVE  RequestsCanBeServed
<1>1. ASSUME NEW n \in Node, NEW b \in scripts[n] PROVE Serves(n, b)
  <2>1. b \in index[n] /\ b \in Block /\ tip[n] \in Block
    BY DEF ExchangeInv, ChainsOK
  <2> QED BY <2>1 DEF Serves, ShallowForks, Chain
<1>2. ASSUME NEW n \in Node, NEW p \in Node, NEW b \in Elements(peer[p][n].getData)
      PROVE  Serves(p, b)
  <2>1. peer[p][n].getData \in Seq(scripts[p])
    BY DEF ExchangeInv, LinksOK, PeersOK, PeerOf
  <2> QED BY <2>1, <1>1, ElementsLemma
<1>3. ASSUME NEW n \in Node, NEW p \in Node, NEW i \in DOMAIN channel[n][p],
             channel[n][p][i].type = "getdata",
             NEW b \in Elements(channel[n][p][i].blocks)
      PROVE  Serves(p, b)
  <2>1. channel[n][p][i] \in MessageOf(scripts[n], scripts[p])
    BY DEF ExchangeInv, LinksOK, ChannelsOK
  <2>2. channel[n][p][i].blocks \in Seq(scripts[p])
    BY <2>1, <1>3 DEF MessageOf
  <2> QED BY <2>2, <1>1, ElementsLemma
<1> QED BY <1>2, <1>3 DEF RequestsCanBeServed

(* Theorem: ProcessGetData serves whatever a node is asked for by a peer    *)
(* that runs the same program, through reorganisations and lost connections, *)
(* as long as no fork is MaxReorganizationDepth deep.                       *)
THEOREM RequestsServed ==
    ASSUME ShallowForks
    PROVE  SyncSpec => []RequestsCanBeServed
<1>1. ExchangeInv => RequestsCanBeServed
  BY RequestsLemma
<1> QED BY <1>1, ExchangeInvariance, PTL
=============================================================================
