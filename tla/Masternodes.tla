---------------------------- MODULE Masternodes ----------------------------
(* The masternode list of each node (masternodeman.cpp, masternode.cpp)    *)
(* and the masternode itself (activemasternode.cpp): one collateral, its   *)
(* broadcasts "mnb", the pings "mnp" of the node that runs it, and "dseg"  *)
(* with which a node asks for an entry or for the list.                    *)
(*                                                                         *)
(* Time goes in steps.  A step is longer than a message takes and than the *)
(* periods of ThreadCheckObfuScationPool, MASTERNODE_PING_SECONDS,         *)
(* MASTERNODE_MIN_MNP_SECONDS and MASTERNODE_MIN_MNB_SECONDS, so in a step *)
(* there is one ping, and every node runs CheckAndRemove.  The blockchain  *)
(* is synced, signatures verify, a ping's block is known, and the          *)
(* masternode's address can be reached.                                    *)
EXTENDS Naturals, FiniteSets

CONSTANTS
    Node,
    Links,          \* the connections, as sets of two nodes
    Hot,            \* the node with masternode=1 and the masternode's key
    Wallets,        \* where the collateral's key may be: at Hot or elsewhere
    PingValid,      \* an hour: a ping older than this is rejected
    Expiration,     \* MASTERNODE_EXPIRATION_SECONDS
    Removal,        \* MASTERNODE_REMOVAL_SECONDS
    MaxBroadcasts,  \* bound
    MaxEvents,      \* bound on broadcasts, restarts, outages and TRY_LOCKs that fail
    None

ASSUME MasternodesAssumption ==
    /\ \A l \in Links : l \subseteq Node /\ Cardinality(l) = 2
    /\ Hot \in Node /\ Wallets \subseteq Node
    /\ PingValid \in Nat \ {0}
    /\ Expiration \in Nat /\ PingValid < Expiration
    /\ Removal \in Nat /\ Expiration < Removal
    /\ MaxBroadcasts \in Nat /\ MaxEvents \in Nat
    /\ None \notin Nat
    /\ None \notin [mnb : Nat, ping : Nat,
                    state : {"ENABLED", "EXPIRED", "REMOVE", "VIN_SPENT"}]

Broadcast == 1 .. MaxBroadcasts     \* in the order of their sigTime
OldestSeen == 2 * Removal + 1       \* ages above this are all alike

VARIABLES
    list,           \* vMasternodes of each node: None, or an entry
    seen,           \* mapSeenMasternodeBroadcast: the age of lastPing, or None
    pinged,         \* nodes with this step's ping in mapSeenMasternodePing
    messages,       \* on the way, the invs of broadcasts and pings included
    known,          \* setInventoryKnown of the two ends of a connection
    collateral,     \* what each node's chain says of the collateral
    status,         \* activeMasternode.status
    hasVin,         \* activeMasternode.vin is set
    wallet,         \* the node that can sign a broadcast
    signed,         \* how many broadcasts have been made
    fresh,          \* those made in this step
    early,          \* those made before the collateral was old enough
    cut,            \* nodes without connections
    late,           \* history: who took a newer broadcast without its ping,
                    \* and has had no later one for it
    nFaults

netVars == <<messages, known, cut>>
activeVars == <<status, hasVin>>
signVars == <<signed, fresh, early>>
vars == <<list, seen, pinged, netVars, collateral, late, activeVars, wallet, signVars,
          nFaults>>

Init ==
    /\ list = [n \in Node |-> None]
    /\ seen = [n \in Node |-> [b \in Broadcast |-> None]]
    /\ pinged = {}
    /\ messages = {} /\ known = {} /\ cut = {}
    /\ collateral = [n \in Node |-> "young"]
    /\ status = "INITIAL" /\ hasVin = FALSE
    /\ wallet \in Wallets
    /\ signed = 0 /\ fresh = {} /\ early = {}
    /\ late = {}
    /\ nFaults = 0

-----------------------------------------------------------------------------
Peers(n) == {p \in Node \ cut : n \notin cut /\ {n, p} \in Links}
Entry(b, age) == [mnb |-> b, ping |-> age, state |-> "ENABLED"]
Enabled(e) == e # None /\ e.state = "ENABLED"

(* An inv of a broadcast goes to the peers that are not known to have it,  *)
(* in PushInventory as in SendMessages; one of a ping to those without it. *)
Announce(n, b, peers) ==
    {[type |-> "mnb", from |-> n, to |-> p, mnb |-> b] :
        p \in {q \in peers : <<{n, q}, b>> \notin known}}
RelayPing(n) ==
    {[type |-> "mnp", from |-> n, to |-> p, mnb |-> None] : p \in Peers(n) \ pinged}
Dseg(n, peers) ==
    {[type |-> "dseg", from |-> n, to |-> p, mnb |-> None] : p \in peers}

(* The messages taken are replaced by the new ones. *)
Send(taken, new) ==
    /\ messages' = (messages \ taken) \cup new
    /\ known' = known \cup {<<{m.from, m.to}, m.mnb>> : m \in {k \in new : k.type = "mnb"}}
    /\ UNCHANGED cut

(* TRY_LOCK(cs_main) may fail. *)
Busy == IF signed + nFaults < MaxEvents THEN BOOLEAN ELSE {FALSE}
CountBusy(busy) == nFaults' = IF busy THEN nFaults + 1 ELSE nFaults

\* mutant: the collateral is not looked at again
CheckAgesOnly(n, e, busy) ==
    [e EXCEPT !.state = IF e.ping >= Removal THEN "REMOVE"
                        ELSE IF e.ping >= Expiration THEN "EXPIRED" ELSE "ENABLED"]

(* CMasternode::Check *)
Check(n, e, busy) ==
    [e EXCEPT !.state =
        CASE @ = "VIN_SPENT" -> @
          [] @ # "VIN_SPENT" /\ e.ping >= Removal -> "REMOVE"
          [] @ # "VIN_SPENT" /\ e.ping \in Expiration .. Removal - 1 -> "EXPIRED"
          [] OTHER -> IF busy THEN @
                      ELSE IF collateral[n] = "spent" THEN "VIN_SPENT"
                      ELSE "ENABLED"]

(* UpdateFromNewBroadcast: the broadcast's ping is taken when it is recent *)
(* and not too early after the one before.                                 *)
TakesPing(e, age) == age < PingValid /\ age < e.ping
UpdateFromNewBroadcast(e, b, age) ==
    [e EXCEPT !.mnb = b, !.ping = IF TakesPing(e, age) THEN age ELSE @]

-----------------------------------------------------------------------------
CanSign == signed < MaxBroadcasts /\ signed + nFaults < MaxEvents

(* CActiveMasternode::Register, on the node of the wallet. *)
Register(n, taken, busy) ==
    LET b == signed + 1
        e == list[n]
    IN /\ CanSign
       /\ signed' = b
       /\ fresh' = fresh \cup {b}
       /\ early' = IF \A m \in Node : collateral[m] = "young" THEN early \cup {b} ELSE early
       /\ seen' = [seen EXCEPT ![n][b] = 0]
       /\ pinged' = pinged \cup {n}
       /\ list' = [list EXCEPT ![n] =
                     IF e = None THEN Entry(b, 0)
                     ELSE IF TakesPing(e, 0)
                          THEN Check(n, UpdateFromNewBroadcast(e, b, 0), busy)
                          ELSE UpdateFromNewBroadcast(e, b, 0)]
       /\ Send(taken, Announce(n, b, Peers(n))
                \cup (IF e # None /\ TakesPing(e, 0) /\ Enabled(list'[n])
                      THEN RelayPing(n) ELSE {}))

(* startmasternode "alias", in the wallet of the operator. *)
StartAlias(busy) ==
    /\ wallet # Hot
    /\ collateral[wallet] # "spent"
    /\ Register(wallet, {}, busy)
    /\ CountBusy(busy)
    /\ UNCHANGED <<late, collateral, activeVars, wallet>>

-----------------------------------------------------------------------------
(* AlreadyHave, or the peer no longer has it when the getdata comes. *)
IgnoreMnb(n, m) ==
    /\ m.type = "mnb" /\ m.to = n
    /\ seen[n][m.mnb] # None \/ seen[m.from][m.mnb] = None
    /\ Send({m}, {})
    /\ UNCHANGED <<list, seen, pinged, late, collateral, activeVars, wallet, signVars,
                   nFaults>>

(* What the peer sends is what it has when the getdata comes. *)
Fetched(n, m) ==
    /\ m.type = "mnb" /\ m.to = n
    /\ seen[n][m.mnb] = None /\ seen[m.from][m.mnb] # None

Older(n, b) == list[n] # None /\ list[n].mnb > b

RefuseOlder(n, m) ==
    /\ Fetched(n, m)
    /\ Older(n, m.mnb)
    /\ seen' = [seen EXCEPT ![n][m.mnb] = seen[m.from][m.mnb]]
    /\ Send({m}, {})
    /\ UNCHANGED <<list, pinged, late, collateral, activeVars, wallet, signVars,
                   nFaults>>

(* CMasternodeBroadcast::CheckAndUpdate: an enabled entry that was not     *)
(* broadcast within MASTERNODE_MIN_MNB_SECONDS.                            *)
Updates(e, b) == Enabled(e) /\ e.mnb \notin fresh /\ b > e.mnb
CheckAndUpdate(n, e, b, age, busy) ==
    IF Updates(e, b) THEN Check(n, UpdateFromNewBroadcast(e, b, age), busy) ELSE e

(* "we are a masternode with the same vin (i.e. already activated)" *)
Ours(n) == n = Hot /\ hasVin

(* CheckInputsAndAdd has nothing to do. *)
KeepEntry(n, m, busy) ==
    LET age == seen[m.from][m.mnb]
        e == CheckAndUpdate(n, list[n], m.mnb, age, busy)
        updated == Updates(list[n], m.mnb)
        takesPing == updated /\ TakesPing(list[n], age)
    IN /\ Fetched(n, m) /\ ~Older(n, m.mnb)
       /\ Ours(n) \/ Enabled(e)
       /\ list' = [list EXCEPT ![n] = e]
       /\ seen' = [seen EXCEPT ![n][m.mnb] = age]
       /\ pinged' = IF takesPing /\ Enabled(e) THEN pinged \cup {n} ELSE pinged
       /\ Send({m}, IF updated /\ Enabled(e)
                    THEN Announce(n, m.mnb, Peers(n))
                         \cup (IF takesPing THEN RelayPing(n) ELSE {})
                    ELSE {})
       /\ CountBusy(busy)
       /\ late' = IF updated /\ e.ping = age THEN late \ {<<n, m.mnb>>}
                  ELSE late \cup {k \in {<<n, m.mnb>>} : updated}
       /\ UNCHANGED <<collateral, activeVars, wallet, signVars>>

(* "not mnb fault, let it to be checked again later" *)
Forgets(n, busy) == busy \/ collateral[n] = "young"

(* CheckInputsAndAdd: an entry that is not enabled makes room first. *)
AddEntry(n, m, busy) ==
    LET age == seen[m.from][m.mnb]
        adds == ~busy /\ collateral[n] = "good" /\ m.mnb \notin early
    IN /\ Fetched(n, m) /\ ~Older(n, m.mnb)
       /\ ~Ours(n)
       /\ ~Enabled(CheckAndUpdate(n, list[n], m.mnb, age, busy))
       /\ list' = [list EXCEPT ![n] = IF adds THEN Entry(m.mnb, age) ELSE None]
       /\ seen' = [seen EXCEPT ![n][m.mnb] = IF Forgets(n, busy) THEN None ELSE age]
       /\ Send({m}, IF adds THEN Announce(n, m.mnb, Peers(n)) ELSE {})
       /\ IF adds /\ n = Hot      \* EnableHotColdMasterNode
          THEN status' = "STARTED" /\ hasVin' = TRUE
          ELSE UNCHANGED activeVars
       /\ CountBusy(busy)
       /\ late' = IF adds THEN late \ {<<n, m.mnb>>} ELSE late
       /\ UNCHANGED <<pinged, collateral, wallet, signVars>>

-----------------------------------------------------------------------------
TakesPings(e) == Enabled(e) /\ e.ping > 0

(* mnp: known, or of an entry that is not enabled or has had a ping. *)
IgnorePing(n, m) ==
    /\ m.type = "mnp" /\ m.to = n
    /\ n \in pinged \/ (list[n] # None /\ ~TakesPings(list[n]))
    /\ pinged' = pinged \cup {n}
    /\ Send({m}, {})
    /\ UNCHANGED <<list, seen, late, collateral, activeVars, wallet, signVars,
                   nFaults>>

\* mutant: mapSeenMasternodeBroadcast keeps the ping it came with
PingOfBroadcastKept(n, e) == seen[n]

(* "mapSeenMasternodeBroadcast.lastPing is probably outdated" *)
PingOfBroadcast(n, e) ==
    [seen[n] EXCEPT ![e.mnb] = IF @ = None THEN None ELSE 0]

\* the broadcast and the entry have a ping together again
PingedTogether(n, e) ==
    late' = IF seen[n][e.mnb] = None THEN late ELSE late \ {<<n, e.mnb>>}

(* CMasternodePing::CheckAndUpdate *)
TakePing(n, m, busy) ==
    LET e == Check(n, [list[n] EXCEPT !.ping = 0], busy)
    IN /\ m.type = "mnp" /\ m.to = n
       /\ n \notin pinged
       /\ TakesPings(list[n])
       /\ pinged' = pinged \cup {n}
       /\ list' = [list EXCEPT ![n] = e]
       /\ seen' = [seen EXCEPT ![n] = PingOfBroadcast(n, e)]
       /\ Send({m}, IF Enabled(e) THEN RelayPing(n) ELSE {})
       /\ PingedTogether(n, e)
       /\ CountBusy(busy)
       /\ UNCHANGED <<collateral, activeVars, wallet, signVars>>

\* mutant: a ping of an unknown masternode is dropped
DropPing(n, m) ==
    /\ m.type = "mnp" /\ m.to = n
    /\ n \notin pinged /\ list[n] = None
    /\ Send({m}, {})
    /\ UNCHANGED <<list, seen, pinged, late, collateral, activeVars, wallet, signVars,
                   nFaults>>

(* AskForMN: the node that sent the ping of an unknown masternode. *)
AskForMN(n, m) ==
    /\ m.type = "mnp" /\ m.to = n
    /\ n \notin pinged /\ list[n] = None
    /\ pinged' = pinged \cup {n}
    /\ Send({m}, Dseg(n, {m.from}))
    /\ UNCHANGED <<list, seen, late, collateral, activeVars, wallet, signVars,
                   nFaults>>

(* dseg, for this entry or for the list. *)
AnswerDseg(n, m) ==
    LET e == list[n]
    IN /\ m.type = "dseg" /\ m.to = n
       /\ IF Enabled(e)
          THEN /\ Send({m}, Announce(n, e.mnb, {m.from}))
               /\ seen' = [seen EXCEPT ![n][e.mnb] = IF @ = None THEN e.ping ELSE @]
               /\ late' = IF seen[n][e.mnb] = None THEN late \ {<<n, e.mnb>>} ELSE late
          ELSE Send({m}, {}) /\ UNCHANGED <<seen, late>>
       /\ UNCHANGED <<list, pinged, collateral, activeVars, wallet, signVars,
                      nFaults>>

Receive(n) ==
    \E m \in messages :
       \/ IgnoreMnb(n, m) \/ RefuseOlder(n, m)
       \/ \E busy \in Busy : KeepEntry(n, m, busy) \/ AddEntry(n, m, busy)
       \/ IgnorePing(n, m) \/ AskForMN(n, m) \/ AnswerDseg(n, m)
       \/ \E busy \in Busy : TakePing(n, m, busy)

-----------------------------------------------------------------------------
Removed(e, forceExpired) ==
    e # None /\ e.state \in {"REMOVE", "VIN_SPENT"}
                            \cup (IF forceExpired THEN {"EXPIRED"} ELSE {})

(* What CheckAndRemove leaves of a list and of the broadcasts seen: with   *)
(* an entry all its broadcasts go, "if we missed a few pings and the node  *)
(* was removed, this will allow is to get it back".                        *)
CheckAndRemoveList(n, e, force) == IF Removed(e, force) THEN None ELSE e
CheckAndRemoveSeen(n, e, force) ==
    [b \in Broadcast |->
        IF Removed(e, force) \/ seen[n][b] = OldestSeen THEN None ELSE seen[n][b]]

Checked(n, busy) == IF list[n] = None THEN None ELSE Check(n, list[n], busy)

CheckAndRemove(n, busy) ==
    LET e == Checked(n, busy)
    IN /\ list' = [list EXCEPT ![n] = CheckAndRemoveList(n, e, FALSE)]
       /\ seen' = [seen EXCEPT ![n] = CheckAndRemoveSeen(n, e, FALSE)]
       /\ CountBusy(busy)
       /\ UNCHANGED <<pinged, netVars, late, collateral, activeVars, wallet, signVars>>

-----------------------------------------------------------------------------
(* SendMasternodePing: the entry is pinged whatever its state. *)
SendMasternodePing ==
    /\ status' = IF list[Hot] = None THEN "NOT_CAPABLE" ELSE "STARTED"
    /\ IF list[Hot] # None /\ list[Hot].ping > 0
       THEN /\ list' = [list EXCEPT ![Hot].ping = 0]
            /\ seen' = [seen EXCEPT ![Hot] = PingOfBroadcast(Hot, list[Hot])]
            /\ pinged' = pinged \cup {Hot}
            /\ Send({}, RelayPing(Hot))
            /\ PingedTogether(Hot, list[Hot])
       ELSE UNCHANGED <<list, seen, pinged, netVars, late>>

ManagePing ==
    /\ status = "STARTED"
    /\ SendMasternodePing
    /\ UNCHANGED <<hasVin, nFaults, signVars>>

(* ManageStatus in the state INITIAL: an entry with our key is taken over, *)
(* and pinged at once.                                                     *)
ManageTakeOver(busy) ==
    LET e == Checked(Hot, busy)
    IN /\ status = "INITIAL" /\ Enabled(e)
       /\ status' = "STARTED" /\ hasVin' = TRUE
       /\ IF e.ping > 0
          THEN /\ list' = [list EXCEPT ![Hot] = [e EXCEPT !.ping = 0]]
               /\ seen' = [seen EXCEPT ![Hot] = PingOfBroadcast(Hot, e)]
               /\ pinged' = pinged \cup {Hot}
               /\ Send({}, RelayPing(Hot))
               /\ PingedTogether(Hot, e)
          ELSE /\ list' = [list EXCEPT ![Hot] = e]
               /\ UNCHANGED <<seen, pinged, netVars, late>>
       /\ CountBusy(busy)
       /\ UNCHANGED signVars

(* ... otherwise the node registers itself, if its wallet has the          *)
(* collateral; "Hot node, waiting for remote activation" if not.           *)
ManageNotCapable ==
    /\ wallet # Hot \/ collateral[Hot] # "good" \/ ~CanSign
    /\ status' = IF wallet = Hot /\ collateral[Hot] = "young"
                 THEN "INPUT_TOO_NEW" ELSE "NOT_CAPABLE"
    /\ hasVin' = (hasVin \/ (wallet = Hot /\ collateral[Hot] # "spent"))
    /\ UNCHANGED <<seen, pinged, netVars, signVars>>

ManageActivate(busy) ==
    /\ status # "STARTED"
    /\ ~(status = "INITIAL" /\ Enabled(Checked(Hot, busy)))
    /\ \/ /\ ManageNotCapable
          /\ list' = IF status = "INITIAL" THEN [list EXCEPT ![Hot] = Checked(Hot, busy)]
                     ELSE list
       \/ /\ wallet = Hot /\ collateral[Hot] = "good"
          /\ Register(Hot, {}, busy)
          /\ status' = "STARTED" /\ hasVin' = TRUE
    /\ CountBusy(busy)
    /\ UNCHANGED late

ManageStatus(busy) ==
    /\ ManagePing \/ ManageTakeOver(busy) \/ ManageActivate(busy)
    /\ UNCHANGED <<collateral, wallet>>

-----------------------------------------------------------------------------
(* CheckAndRemove and ManageStatus have run, and would change nothing. *)
AllChecked(n) ==
    LET e == Checked(n, FALSE)
    IN /\ e = list[n] /\ ~Removed(e, FALSE)
       /\ \A b \in Broadcast : seen[n][b] # OldestSeen
AllManaged ==
    /\ status # "INITIAL"
    /\ status = "STARTED" => list[Hot] # None /\ list[Hot].ping = 0
    /\ status # "STARTED" => wallet # Hot \/ collateral[Hot] # "good" \/ ~CanSign

(* The next step begins: nothing is on the way any more. *)
Aged(age) == IF age = None THEN None ELSE IF age < OldestSeen THEN age + 1 ELSE age

Tick ==
    /\ messages = {}
    /\ \A n \in Node : AllChecked(n)
    /\ AllManaged
    /\ list' = [n \in Node |-> IF list[n] = None THEN None
                               ELSE [list[n] EXCEPT !.ping = Aged(@)]]
    /\ seen' = [n \in Node |-> [b \in Broadcast |-> Aged(seen[n][b])]]
    /\ pinged' = {} /\ fresh' = {}
    /\ UNCHANGED <<netVars, late, collateral, status, hasVin, wallet, signed, early,
                   nFaults>>

(* The collateral gets its fifteenth confirmation, or is spent. *)
CollateralConfirmed(n) ==
    /\ collateral[n] = "young"
    /\ collateral' = [collateral EXCEPT ![n] = "good"]
    /\ UNCHANGED <<list, seen, pinged, netVars, late, activeVars, wallet, signVars,
                   nFaults>>

CollateralSpent(n) ==
    /\ collateral[n] = "good"
    /\ \A m \in Node : collateral[m] # "young"
    /\ collateral' = [collateral EXCEPT ![n] = "spent"]
    /\ UNCHANGED <<list, seen, pinged, netVars, late, activeVars, wallet, signVars,
                   nFaults>>

(* The connections of a node are lost, with what was on the way, and new   *)
(* ones know nothing of each other.                                        *)
WithoutNode(n) ==
    /\ messages' = {m \in messages : n \notin {m.from, m.to}}
    /\ known' = {k \in known : n \notin k[1]}

CutOff(n) ==
    /\ signed + nFaults < MaxEvents /\ n \notin cut
    /\ nFaults' = nFaults + 1
    /\ cut' = cut \cup {n}
    /\ WithoutNode(n)
    /\ UNCHANGED <<list, seen, pinged, late, collateral, activeVars, wallet, signVars>>

Reconnect(n) ==
    /\ n \in cut
    /\ cut' = cut \ {n}
    /\ UNCHANGED <<list, seen, pinged, messages, known, late, collateral,
                   activeVars, wallet, signVars, nFaults>>

(* setInventoryKnown holds a thousand entries; in time newer ones push    *)
(* these out.                                                              *)
KnownForgotten ==
    /\ messages = {} /\ known # {}
    /\ known' = {}
    /\ UNCHANGED <<list, seen, pinged, messages, cut, late, collateral,
                   activeVars, wallet, signVars, nFaults>>

(* A restart: mncache.dat is read with CheckAndRemove(true) and the peers  *)
(* are asked for the list; those that were asked within three hours do not *)
(* answer.  After a crash there is no recent mncache.dat.                  *)
Restart(n, crash, asked) ==
    LET e == IF crash THEN None ELSE Checked(n, FALSE)
    IN /\ signed + nFaults < MaxEvents
       /\ nFaults' = nFaults + 1
       /\ list' = [list EXCEPT ![n] = CheckAndRemoveList(n, e, TRUE)]
       /\ seen' = [seen EXCEPT ![n] = IF crash THEN [b \in Broadcast |-> None]
                                      ELSE CheckAndRemoveSeen(n, e, TRUE)]
       /\ pinged' = IF crash THEN pinged \ {n} ELSE pinged
       /\ messages' = {m \in messages : n \notin {m.from, m.to}} \cup Dseg(n, asked)
       /\ known' = {k \in known : n \notin k[1]}
       /\ IF n = Hot THEN status' = "INITIAL" /\ hasVin' = FALSE
          ELSE UNCHANGED activeVars
       /\ UNCHANGED <<cut, late, collateral, wallet, signVars>>

-----------------------------------------------------------------------------
(* The threads of the nodes; the steps of time go with them. *)
Work ==
    \/ \E n \in Node : Receive(n)
    \/ \E busy \in Busy : (\E n \in Node : CheckAndRemove(n, busy)) \/ ManageStatus(busy)
    \/ Tick

Next ==
    \/ Work
    \/ \E busy \in Busy : StartAlias(busy)
    \/ \E n \in Node : CollateralConfirmed(n) \/ CollateralSpent(n)
    \/ \E n \in Node : CutOff(n) \/ Reconnect(n)
    \/ KnownForgotten
    \/ \E n \in Node, crash \in BOOLEAN :
          \E asked \in {{}, Peers(n)} : Restart(n, crash, asked)

(* The threads run, outages end, and other traffic goes on. *)
Fairness ==
    /\ WF_vars(Work)
    /\ WF_vars(\E n \in Node : Reconnect(n))
    /\ SF_vars(KnownForgotten)

Spec == Init /\ [][Next]_vars /\ Fairness

-----------------------------------------------------------------------------
(* A node that has an entry can send its broadcast, and with the very ping *)
(* of that entry: who gets it would drop the masternode at once if that    *)
(* ping were older, and not be sent the broadcast again.  The one          *)
(* exception, until the next ping, is a newer broadcast whose ping         *)
(* UpdateFromNewBroadcast did not take, because it was old or came too     *)
(* soon after the one before.                                              *)
ServedIsCurrent ==
    \A n \in Node :
        list[n] # None /\ <<n, list[n].mnb>> \notin late
            => seen[n][list[n].mnb] = list[n].ping

(* A masternode that runs and pings gets into every list and stays there,  *)
(* whoever restarted, was cut off or had removed it before.                *)
ListedWhilePinging ==
    <>[](status = "STARTED" /\ \A n \in Node : collateral[n] = "good")
        => <>[](\A n \in Node : Enabled(list[n]))

(* A masternode whose collateral is spent leaves every list, although its  *)
(* pings, its broadcasts and the saved lists go on.                        *)
SpentLeaves ==
    <>[](\A n \in Node : collateral[n] = "spent") => <>[](\A n \in Node : list[n] = None)
=============================================================================
