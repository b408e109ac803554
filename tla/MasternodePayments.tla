------------------------ MODULE MasternodePayments ------------------------
(* Who is paid in a block: votes of masternodes for the payee of a height,  *)
(* flooded through the network, counted by every node for itself, and       *)
(* enforced by CheckBlock (IsBlockPayeeValid) when a payee has enough.      *)
(* Nodes and masternodes restart and crash; mnpayments.dat keeps the votes  *)
(* and the tally of the last clean shutdown, and nothing keeps what a       *)
(* masternode has voted for.                                                *)
(*                                                                          *)
(* Signatures are those of the masternode named.  A vote that was sent may  *)
(* reach a node any number of times, in any order, or never: by inv, mnget  *)
(* or not at all when cs_main was busy.                                     *)
EXTENDS Integers, FiniteSets

CONSTANTS
    Node,           \* nodes that count votes
    Masternode,     \* of which some may be nodes as well
    Payee,
    NoPayee,        \* the empty script
    Height,
    Ranked,         \* the masternodes that vote for a height: see ProcessBlock
    Unpaid,         \* heights of budget payments, or with nobody to pay
    StartHeight,
    Required,       \* MNPAYMENTS_SIGNATURES_REQUIRED
    Ahead,          \* votes are for the tip + 10
    Future,         \* and are taken up to the tip + 20
    Past,           \* and down to the tip - 1.25 times the masternodes
    Keep,           \* nLimit of CleanPaymentList
    MaxRevoters,    \* bound on masternodes that lose nLastBlockHeight
    MaxRestarts     \* bound on restarts of nodes

Vote == [mn : Masternode, height : Height, payee : Payee \cup {NoPayee}]

ASSUME QuorumAssumption ==
    /\ Required \in Nat \ {0}
    /\ MaxRevoters \in Nat
    /\ IsFiniteSet(Masternode)
    /\ \A h \in Height : Ranked[h] \subseteq Masternode

ASSUME HeightAssumption ==
    /\ Height \subseteq Nat
    /\ {0, StartHeight} \subseteq Height
    /\ {Ahead, Future, Past, Keep} \subseteq Nat
    /\ Past <= Keep
    /\ NoPayee \notin Payee

VARIABLES
    votes,              \* mapMasternodePayeeVotes of each node
    tally,              \* mapMasternodeBlocks: nVotes by height and payee
    lastVote,           \* mapMasternodesLastVote, -1 without an entry
    saved,              \* mnpayments.dat
    height,             \* of the tip
    sent,               \* votes that have been relayed
    nLastBlockHeight,   \* of each masternode
    revoters,           \* masternodes that have been started again
    nRestarts

paymentVars == <<votes, tally, lastVote, saved, height, sent,
                 nLastBlockHeight, revoters, nRestarts>>

NoTally == [h \in Height |-> [p \in Payee \cup {NoPayee} |-> 0]]

NoPayments == [votes |-> {}, tally |-> NoTally]

PaymentsInit ==
    /\ votes = [n \in Node |-> {}]
    /\ tally = [n \in Node |-> NoTally]
    /\ lastVote = [n \in Node |-> [m \in Masternode |-> -1]]
    /\ saved = [n \in Node |-> NoPayments]
    /\ height = [n \in Node |-> StartHeight]
    /\ sent = {}
    /\ nLastBlockHeight = [m \in Masternode |-> 0]
    /\ revoters = {}
    /\ nRestarts = 0

-----------------------------------------------------------------------------
(* AddWinningMasternode: a vote is new if no equal one is kept. *)
IsNew(n, v) == v \notin votes[n]

AddWinningMasternode(n, v) ==
    /\ IsNew(n, v)
    /\ votes' = [votes EXCEPT ![n] = @ \cup {v}]
    /\ tally' = [tally EXCEPT ![n][v.height][v.payee] = @ + 1]

\* mutant: >= for >
IsNotBehind(m, h) == h >= nLastBlockHeight[m]

(* A masternode votes for a height once, as long as it runs. *)
IsLater(m, h) == h > nLastBlockHeight[m]

(* A masternode votes when the best chain has a block at h - Ahead.  Which  *)
(* payee is next in the queue is a choice; for a block that pays budgets,   *)
(* or when nobody can be paid, it votes for nobody at height 0.             *)
NewWinner(m, h, p) ==
    IF h \in Unpaid THEN [mn |-> m, height |-> 0, payee |-> NoPayee]
    ELSE [mn |-> m, height |-> h, payee |-> p]

(* Each masternode ranks itself on its own list and its own chain; those    *)
(* that find themselves ten or better may be more than ten.                 *)
ProcessBlock(m, h, p) ==
    /\ m \in Ranked[h]
    /\ IsLater(m, h)
    /\ m \in Node => h = height[m] + Ahead
    /\ IF m \in Node THEN AddWinningMasternode(m, NewWinner(m, h, p))
       ELSE UNCHANGED <<votes, tally>>
    /\ sent' = sent \cup {NewWinner(m, h, p)}
    /\ nLastBlockHeight' = [nLastBlockHeight EXCEPT ![m] = h]
    /\ UNCHANGED <<lastVote, saved, height, revoters, nRestarts>>

InRange(n, v) == v.height + Past >= height[n] /\ v.height <= height[n] + Future

(* CanVote remembers the height of a masternode's last vote only. *)
CanVote(n, v) ==
    /\ lastVote[n][v.mn] # v.height
    /\ lastVote' = [lastVote EXCEPT ![n][v.mn] = v.height]

(* IsValid asks for a masternode the receiver knows and ranks ten or better *)
(* or not at all (-1: it is listed but not enabled): the choice of each     *)
(* node at each vote, and a refusal changes nothing.  The signature is      *)
(* verified last, with the key the node knows, which may be an old one.     *)
ReceiveVote(n, v) ==
    /\ v \in sent
    /\ v \notin votes[n]
    /\ InRange(n, v)
    /\ CanVote(n, v)
    /\ \/ AddWinningMasternode(n, v)
       \/ UNCHANGED <<votes, tally>>      \* an old key
    /\ UNCHANGED <<saved, height, sent, nLastBlockHeight, revoters, nRestarts>>

UpdatedBlockTip(n) ==
    /\ height[n] + 1 \in Height
    /\ height' = [height EXCEPT ![n] = @ + 1]
    /\ UNCHANGED <<votes, tally, lastVote, saved, sent, nLastBlockHeight, revoters, nRestarts>>

Old(v, nHeight) == v.height + Keep < nHeight

\* mutant: erases old votes but keeps the tallies of their blocks
CleanedVotesOnly(data, nHeight) ==
    [votes |-> {v \in data.votes : ~Old(v, nHeight)}, tally |-> data.tally]

(* CleanPaymentList: an old vote goes, and with it the tally of its block. *)
Cleaned(data, nHeight) ==
    LET old == {v \in data.votes : Old(v, nHeight)}
    IN [votes |-> data.votes \ old,
        tally |-> [h \in Height |->
                     IF \E v \in old : v.height = h THEN NoTally[h] ELSE data.tally[h]]]

Payments(n) == [votes |-> votes[n], tally |-> tally[n]]

Load(n, data) ==
    /\ votes' = [votes EXCEPT ![n] = data.votes]
    /\ tally' = [tally EXCEPT ![n] = data.tally]

CleanPaymentList(n) ==
    /\ Load(n, Cleaned(Payments(n), height[n]))
    /\ UNCHANGED <<lastVote, saved, height, sent, nLastBlockHeight, revoters, nRestarts>>

-----------------------------------------------------------------------------
(* What a process that starts has lost. *)
Forget(n) ==
    /\ lastVote' = [lastVote EXCEPT ![n] = [m \in Masternode |-> -1]]
    /\ n \in Masternode \ revoters => Cardinality(revoters) < MaxRevoters
    /\ nLastBlockHeight' = [m \in Masternode |-> IF m = n THEN 0 ELSE nLastBlockHeight[m]]
    /\ revoters' = revoters \cup ({n} \cap Masternode)
    /\ nRestarts < MaxRestarts
    /\ nRestarts' = nRestarts + 1

(* DumpMasternodePayments at the shutdown, Read at the next start. *)
Restart(n) ==
    /\ Forget(n)
    /\ saved' = [saved EXCEPT ![n] = Payments(n)]
    /\ Load(n, Cleaned(Payments(n), height[n]))
    /\ UNCHANGED <<height, sent>>

(* After a crash the file is an older one, and the chain may be shorter. *)
Crash(n) ==
    /\ Forget(n)
    /\ \E nHeight \in Height :
          /\ nHeight <= height[n]
          /\ height' = [height EXCEPT ![n] = nHeight]
          /\ Load(n, Cleaned(saved[n], nHeight))
    /\ UNCHANGED <<saved, sent>>

(* A masternode whose counting is not of interest starts again. *)
RestartMasternode(m) ==
    /\ m \in Masternode \ Node
    /\ Cardinality(revoters \cup {m}) <= MaxRevoters
    /\ nLastBlockHeight' = [nLastBlockHeight EXCEPT ![m] = 0]
    /\ revoters' = revoters \cup {m}
    /\ UNCHANGED <<votes, tally, lastVote, saved, height, sent, nRestarts>>

PaymentsNext ==
    \/ \E m \in Masternode, h \in Height, p \in Payee : ProcessBlock(m, h, p)
    \/ \E n \in Node, v \in sent : ReceiveVote(n, v)
    \/ \E n \in Node : \/ UpdatedBlockTip(n) \/ CleanPaymentList(n)
                       \/ Restart(n) \/ Crash(n)
    \/ \E m \in Masternode : RestartMasternode(m)

PaymentsSpec == PaymentsInit /\ [][PaymentsNext]_paymentVars

-----------------------------------------------------------------------------
(* IsTransactionValid: the blocks of a height are refused unless they pay   *)
(* a payee with enough votes, as soon as there is one.                      *)
Requires(n, h, p) == tally[n][h][p] >= Required

(* The masternodes that have voted for a height. *)
Voters(h) == {m \in Masternode : \E v \in sent : v.mn = m /\ v.height = h}

(* Two nodes require different payees for a height, so that each refuses    *)
(* the block the other asks for, only if the voters of the height are too   *)
(* many for one quorum: twice the quorum, those counted twice that voted    *)
(* and lost their memory of it.  With ten voters and a quorum of six it     *)
(* takes two such voters, however votes are repeated, delayed, forgotten    *)
(* and read back, and whomever each node takes votes from.                  *)
PayeesAgree ==
    \A a, b \in Node, h \in Height \ {0}, p, q \in Payee \cup {NoPayee} :
       Requires(a, h, p) /\ Requires(b, h, q) /\ p # q
          => Cardinality(Voters(h)) + Cardinality(Voters(h) \cap revoters) >= 2 * Required

(* The tally of a height is the number of the votes a node keeps for it,    *)
(* also after votes were forgotten, saved, read and received again.         *)
TallyIsVotes ==
    \A n \in Node, h \in Height, p \in Payee \cup {NoPayee} :
       tally[n][h][p] = Cardinality({v \in votes[n] : v.height = h /\ v.payee = p})
=============================================================================
