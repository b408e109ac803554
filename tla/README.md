# A TLA+ model of the rTwCore node

rTwCore (the binaries are called `mubdid`, `mubdi-qt`, `mubdi-cli`) is a proof-of-stake node of the Bitcoin /
Dash / PIVX family. `src/base/src` holds the node; `main.cpp` is its validation engine. This directory models
the parts of the node whose order of steps decides what the user's money is, checks them with TLC on small
instances, and proves the main invariants with TLAPS for all values of the constants. Every definition that
stands for code is listed with its lines in `PROJECT.json` under `map`.

    tlc -workers 2 -config BlockTree.cfg MCBlockTree.tla     # a run; see the table of runs
    tlapm BlockTreeProofs.tla                                # the proofs of a component

## 1. Inventory

| Component | State | Operations | Interacts with | What makes it correct |
|---|---|---|---|---|
| Coin caches and database (`coins.cpp`, `txdb.cpp`) | `cacheCoins` with DIRTY/FRESH flags and `hashBlock` per layer, LevelDB records | fetch, modify, flush a view, flush to disk | block connection edits a view inside `cs_main`; shutdown and the periodic flush write | each layer shows exactly the coins of the block it names, also after a crash |
| Block index and chain selection (`main.cpp`, `chain.cpp`) | `mapBlockIndex` with status bits, `setBlockIndexCandidates`, `mapBlocksUnlinked`, `chainActive`, `mapRejectedBlocks` | ProcessNewBlock, AcceptBlock, ActivateBestChain, InvalidateBlock, ReconsiderBlock, ReprocessBlocks | messages, miner and RPC call it from several threads; transaction locks and payee votes reject blocks | best chain without a failed block becomes active; index lists agree with the tree |
| Connection rules, undo data (`main.cpp`, `undo.h`) | `CBlockUndo`, coins, zerocoin database | ConnectBlock, DisconnectBlock | called by chain selection on a coin view | disconnecting undoes connecting |
| Chainstate files (`main.cpp`, `init.cpp`) | block and undo files, block index, transaction index and zerocoin databases | FlushStateToDisk, LoadBlockIndexDB, VerifyDB, reindex | shutdown, crash, start | what is on disk can be loaded and continued |
| Transaction locks (`swifttx.cpp`) | `mapTxLockReq`, `mapTxLockReqRejected`, `mapTxLockVote`, `mapTxLocks`, `mapLockedInputs` | "ix", "txlvote", own requests, cleaning | mempool and CheckBlock consult `mapLockedInputs`; completion of a refused lock runs ReprocessBlocks | votes count once, inputs have one owner, locks expire |
| Mempool, orphans (`txmempool.cpp`, `main.cpp`) | `mapTx`, `mapNextTx`, `mapOrphanTransactions` | add, remove, remove conflicts, check; "tx" | blocks connected and disconnected, peers | the maps agree with each other and with the coins; orphans follow their parents |
| Block download (`main.cpp`) | `CNodeState`, `nSyncStarted`, inventory filters, `vRecvGetData` | inv, getblocks, getdata, block; connect, disconnect | message thread of each node, ProcessNewBlock | what is asked for is served; nodes get to the best chain; the exchange ends |
| Connections (`net.cpp`) | `vNodes`, `vNodesDisconnected`, flags and reference count of each node, `semOutbound` | open, accept, copy, disconnect, delete | socket thread, message thread, two threads that open connections | no node is deleted under a user; slots are not counted twice; lost nodes go |
| Sporks (`spork.cpp`, `sporkdb.cpp`) | `mapSporksActive`, spork database | "spork", "getsporks", load, ReprocessBlocks | switch checks of all other parts | the newest signed value wins, also after restart |
| Masternode sync (`masternode-sync.cpp`) | current asset, attempts, times, per-peer fulfilled requests | Process once a second, answers, Reset | gates locks, payments, budget | the sync ends or is retried |
| Masternode list (`masternode*.cpp`, `activemasternode.cpp`) | entries with state, last ping, asked-for times | broadcast, ping, Check, remove, own masternode | ranks voters of locks and winners | spent or silent masternodes leave the list |
| Payments (`masternode-payments.cpp`) | winner votes, tally per block, `mnpayments.dat` | vote, clean, dump and load, check a block's payee | CheckBlock, other nodes | tallies are the sum of the votes kept; two payees are required only with two quorums |
| Budget (`masternode-budget.cpp`) | proposals, finalized budgets, votes, orphans, immature lists | vote, finalize, NewBlock | CheckBlock, sync | each masternode's last vote counts, once |
| Obfuscation pool (`obfuscation*.cpp`) | session, entries, state, timeouts | switched off, but for its timer thread | that thread drives sync, lock cleaning and payments | |
| Check queue, scheduler (`checkqueue.h`, `scheduler.cpp`) | queue, counters, two condition variables; tasks by time | Add, Wait, Loop; serviceQueue | ConnectBlock; background tasks | all checks run, nobody waits for ever |
| Address manager (`addrman.cpp`) | new and tried tables, reference counts | Add, Good, Attempt, Select | network threads | tables and counts agree |
| Wallet, zerocoin, miner, sockets, RPC, scripts, GUI | their own | | call into the above | see section 7 |

What is hard here: `cs_main` is given up between the steps of one reorganisation, and some maps
(`mapRejectedBlocks`, all of SwiftX) are used without any lock; messages come in any order, more than once or
never; a reorganisation may fail half way; caches at two levels are flushed independently of each other, and the
process may die in between, or between the writes to five kinds of files; timers forget what late messages still
refer to; what a node has voted for is in memory only; a connection is used by four threads. `PROJECT.json`
lists these under `hazards`, each at its line.

## 2. The modules

| Module | Models | EXTENDS / uses |
|---|---|---|
| `CoinsMap` | abstract: one map with drafts and a durable copy | |
| `CoinsCache` | the two caches over the database | INSTANCE `CoinsMap` |
| `CoinsCacheProofs` | its theorems | `CoinsCache`, `TLAPS` |
| `MCCoinsCache` | instance for TLC | `CoinsCache` |
| `BlockTree` | block index, chain selection, operator, ReprocessBlocks | |
| `BlockTreeProofs` | its theorems | `BlockTree`, `TLAPS` |
| `MCBlockTree` | two block trees for TLC | `BlockTree` |
| `SwiftTX` | transaction locks with mempool and chain as their surroundings | |
| `SwiftTXProofs` | its theorems | `SwiftTX`, `TLAPS` |
| `MCSwiftTX` | two conflicting transactions for TLC | `SwiftTX` |
| `CheckQueue` | script check queue: workers, master, interruptions | |
| `MCCheckQueue` | two workers and four checks for TLC | `CheckQueue` |
| `ChainState` | block and undo files, index, coins' best block and zerocoin serials on disk; crash, start, VerifyDB | |
| `ChainStateProofs` | its theorems | `ChainState`, `FiniteSetTheorems`, `TLAPS` |
| `MCChainState` | two branches that spend a serial for TLC | `ChainState` |
| `Ledger` | coins with undo data, mempool and orphans under ConnectTip and DisconnectTip | |
| `MCLedger` | transactions and blocks for TLC | `Ledger` |
| `ConnectBlockProofs` | the theorems of `CheckQueue` and of `Ledger` | both, `FiniteSetTheorems`, `SequenceTheorems`, `WellFoundedInduction`, `TLAPS` |
| `BlockSync` | several nodes that fetch blocks from each other | |
| `MCBlockSync` | three nodes and six blocks for TLC | `BlockSync` |
| `MasternodePayments` | votes for payees on several nodes, restarts, crashes | |
| `MasternodePaymentsProofs` | its theorems | `MasternodePayments`, `FiniteSetTheorems`, `TLAPS` |
| `MCMasternodePayments` | two masternodes and two payees for TLC | `MasternodePayments` |
| `MasternodeSync` | the stages of CMasternodeSync | |
| `MCMasternodeSync` | its instance for TLC | `MasternodeSync` |
| `Connections` | the life of a CNode between four threads | |
| `MCConnections` | three connections for TLC | `Connections` |
| `NetworkProofs` | the theorems of `Connections` and of `BlockSync` | both, `FiniteSetTheorems`, `SequenceTheorems`, `WellFoundedInduction`, `TLAPS` |
| `Masternodes` | the masternode list of each node, broadcasts, pings, a masternode's own node | |
| `MCMasternodes` | a masternode, a node and its operator's wallet for TLC | `Masternodes` |
| `MasternodesProofs` | the theorems of `Masternodes` and of `MasternodeSync` | both, `SequenceTheorems`, `TLAPS` |

How the modules fit together: `BlockTree` says which block is connected or taken off next and when, with the
verdict on each block given; `Ledger` says what that does to coins and pool, with the choice of the block left
open; `CoinsCache` what the caches make of such edits, with the coins of a block given; `ChainState` which of it
survives. `CoinsAreOfChain` of `Ledger`, a theorem, discharges the assumption of `CoinsCache` that a block
reached again has the same coins, but for the flag of a coinstake that was spent wholly (section 6). `SwiftTX`
and `MasternodePayments` have the reasons for which `BlockTree!Dispute` changes a block's verdict. `BlockSync`
has several block indexes, each reduced to what messages touch, and `Connections` what a connection is below it.

### CoinsCache

`db`, `dbBest` are the `'c'` and `'B'` records; `tip`, `tipBest` the entries and `hashBlock` of `pcoinsTip`;
`view`, `viewOpen` the cache that ConnectTip, DisconnectTip or TestBlockValidity has on its stack, inside one
`cs_main` section. An entry is a value of `Coins` with the DIRTY and FRESH bits. `Fetched`, `IsFresh`,
`Modified`, `Merged` and `Written` are FetchCoins, ModifyCoins with the destructor of its handle, the cache's
BatchWrite and the database's BatchWrite, for one entry; the actions apply them. A read of the view goes through
`pcoinsTip`, which may gain an entry on the way, as in the code. `FlushTip` is one LevelDB batch, hence atomic.
`Crash` drops all caches. A batch that LevelDB refuses is left out (section 6).

`snapshot` is a history variable: the coins a block's state consists of, set when a view is flushed. `FlushView`
requires that a block reached again has the same coins; this is an assumption on the caller (undo data restores
what was there), which `Ledger` is about.

`DbIsSnapshot` and `TipIsSnapshot` say that each layer shows the coins of the block it names,
`BatchWriteAssert`, a theorem, is the assertion in the code, and `ImplementsMap` that callers cannot tell the
layers from the single map of `CoinsMap`.

### BlockTree

One action is one critical section of `cs_main`, so the states of the module are what another thread can see. A
block is received in two sections (`CheckBlock` before the lock, one of the `Accept...` actions under it), then
its thread is in `calls` until ActivateBestChain returns; every turn of that loop is `ActivateDone`,
`ActivateConnects` or `ActivateFails`. `MostWork`, `Discarded`, `MarkedChild` and `Erased` are FindMostWorkChain
with its side effects; `StopAt` is where ActivateBestChainStep stops, `PrunedBelow` is
PruneBlockIndexCandidates. The sets `failedValid`, `failedChild`, `haveData`, `scripts`, `linked` are the status
bits and `nChainTx # 0`. `Work` and `Height` are given with the tree; `Address` decides ties, as the comparator
does for blocks with equal work and sequence id.

The verdict of ConnectBlock on a block is constant (`BadScripts`), that of ContextualCheckBlock too
(`NonFinal`), while CheckBlock's verdict on a `Disputable` block changes with transaction locks and payee votes
(`Dispute`). A block CheckBlock rejects goes to `mapRejectedBlocks` (`rejected`, or `aged` once outside the
window of ReprocessBlocks, whose walk over that map is not protected by a lock). ConnectTip runs CheckBlock
again on every block it connects, except on the one ActivateBestChain was called with. `AcceptReconsiders` is
the path of AcceptBlock that reconsiders a failed checkpoint and activates the best chain without giving
`cs_main` up. `process = "dead"` is the end of the process when ActivateBestChain reads a null `pblock` (section
6).

Headers are not received without blocks: headers-first is switched off in `chainparams.cpp`; a header stays
without its block only when the block is not final or the disk is full.

`IndexIsLinked`, `CandidatesNotWorse`, `GoodBlocksAreCandidates` are assertions of `CheckBlockIndex`, the last
one restricted to states with no call of ActivateBestChain under way, where alone it holds. `ActiveChainClean`
is what FindMostWorkChain takes for granted of the active chain. `BestChainActive` and `BestChainWins` are the
purpose of the component, as a safety and as a liveness property; `PruneLeavesSuccessor` is the assertion of
PruneBlockIndexCandidates with its comment.

### SwiftTX

One action is one handler: `IxAccepted` and `IxRefused` for "ix", `VoteIgnored`, `VoteCounted`, `VoteCancels`
and `VoteCompletes` for "txlvote", `OwnRequest` for sendrawtransaction and the wallet,
`CleanTransactionLocksList` for the timer. `request`, `refused`, `voteSeen`, `locked` are the keys of the maps,
`lockedBy` is `mapLockedInputs`; `blank` are the keys of `mapTxLockReq` that `operator[]` has made with an empty
transaction. `votes` counts how often a vote is in `vecConsensusVotes`, so that a vote counted twice would show.
A lock's height is 0 until CreateNewLock has seen the request, and votes carry a height of their own: a
masternode computes it from its own chain.

The mempool and the confirmed transactions are sets; `TxAccepted`, `TxConfirmed`, `TxDisconnected` and
`Replayed` (ReprocessBlocks) change them under the code's checks of `mapLockedInputs`. `IxRefused` may happen to
any request, for AcceptToMemoryPool has many reasons to refuse. `Restart` empties all maps.

### CheckQueue

One action is one critical section of the queue's mutex, or one check run outside of it. `queue`, `nTodo`,
`nIdle`, `nTotal`, `fAllOk` are the members; `batch`, `left`, `fOk` are the locals of Loop in each thread
(`left` is what the BOOST_FOREACH has not run yet). A thread is `sleeping` in its condition variable until it is
notified, interrupted or woken for no reason, then `woken` until it has the mutex. `Enter`, `Resume` and
`FinishBatch` are the three ways into the part of Loop after "logically, the do loop starts here", which is
`Proceed`: leave, sleep, throw or take a batch, with the counters as the beginning of the section left them.

`stage` is where ConnectBlock is with its CCheckQueueControl: `adding`; `waiting` in control.Wait();
`destroying` when a block is refused before Wait and the destructor waits; `unwinding` when Wait was interrupted
and the destructor waits once more. A second way out of the destructor does not exist: it is noexcept (C++11),
so an interruption of the wait in `destroying` ends the process (`terminated`). `aborted` is the failed
assertion of the constructor, which is never reached. A worker that is interrupted is `gone` and stays counted
in nIdle and nTotal; the interruption point comes before `nIdle--`.

`added` and `verdict` are history variables for the checks of the current block and the result of Wait. A check
is valid or not, whatever thread runs it. The lock-free part of ConnectBlock, and which checks a transaction
has, are left open: any set may be added.

### ChainState

The disk is what has been written so far: `blkFile` and `revFile` are the blocks whose data and undo data can be
read, `fileInfo` the sizes recorded for these files, `diskIndex` the records of the block index, `coinsBest` the
`'B'` record, `spendOf` the zerocoin database, `txIndex` the transaction index. `index`, `dirty`, `cacheBest`
and `chainTip` are `mapBlockIndex`, `setDirtyBlockIndex`, the best block of `pcoinsTip` and `chainActive`. `pc`
says where the code is; a step ends where the process may die, so `Crash` is possible between any two writes.
ConnectTip is `ConnectSpends` (WriteCoinSpend, before the block is known to be valid), then `ConnectFails` or
`ConnectTip`; FlushStateToDisk is `FlushFileInfo`, `WriteBlockIndex` one record after another and `FlushCoins`.
`JustCheck` is TestBlockValidity on a new block, which writes serials too. `Start` is LoadBlockIndexDB with the
entries InsertBlockIndex makes for unknown parents (`"blank"`); `VerifyDown`, `VerifyUp` and `VerifyEnds` are
VerifyDB, which changes the zerocoin database on its way down and up.

The choice of the chain is that of `BlockTree` without the candidate set: any block of most work whose chain is
complete. The files are one each; -reindex, power loss (writes not synced) and the operator's commands are left
out (section 7).

`CoinsHaveBlocks` holds at every write, not only after a restart: it is what the order of FlushStateToDisk is
for. `StartSucceeds` says that no crash leaves a disk that LoadBlockIndexDB or VerifyDB refuse.
`SerialsRecorded` and `ChainSpendsOnce` are about the zerocoin database, which is written outside the view,
erased by disconnections and by VerifyDB, and is all that keeps a serial from being spent twice.

### Ledger

A transaction is its inputs, the numbers of its outputs and its kind; values and scripts are left out, and
`PoolRefuses` are the transactions the pool does not take for such reasons. `coins` is `pcoinsTip` with height,
coinbase and coinstake flags; `undo` the undo data in the files. `ConnectBlock` applies CheckInputs and
UpdateCoins to one transaction of a block after another, `DisconnectBlock` goes back from the last one, with
`clean` for what the code reports as inconsistent; both are functions of the number of transactions done, as the
loops of the code are. The pool is `mapTx` and `mapNextTx`. `LedgerConnectTip` is ConnectTip with
removeForBlock, `LedgerDisconnectTip` DisconnectTip with the way of each transaction back into the pool and
removeCoinbaseSpends, `ClearPool` what CreateNewBlock does when its own block is refused. The handler of "tx"
takes several steps: `ReceiveTx` starts `vWorkQueue`, `OrphanAccepted`, `OrphanRefused` and `OrphanWaits` treat
one orphan of those still `untried`, `NextWork` goes on. The handler has `cs_main` throughout, so nothing else
happens meanwhile; the steps show what the loop has done so far.

`CoinsAreOfChain` compares the coins with those of a node that has connected the active chain alone; the one
difference the code makes, a lost coinstake flag (`main.cpp:2727`), is in the property and in the run (section
6). `PoolStands` says that what is in the pool could be in the next block. It is what CTxMemPool::check, which
runs only with -checkmempool, is meant to assert, and differs from it for zerocoin spends: the code asserts
coins and an entry of mapNextTx for every input of every transaction, but the input of a zerocoin spend is no
coin and addUnchecked leaves it out of mapNextTx, so check fails at any zerocoin spend in the pool. Of these the
property says instead that they are in no block of the active chain, by the transaction index
(IsTransactionInChain reads it; -txindex is on by default). `OrphansFollow` is what the work queue promises.

### BlockSync

Several nodes run the same code. `index`, `tip`, `scripts` are each node's block index reduced to what the
messages touch; `peer[n][p]` is what n keeps for p in CNode and CNodeState; `channel[n][p]` what n has sent and
p not processed, in order, as on a TCP connection. `ReceiveInv`, `ReceiveGetBlocks`, `ReceiveGetData` with
`ServeNext`, `ReceiveOrphan` and `ReceiveBlock` are the branches of ProcessMessage and ProcessGetData;
`SendMessages` starts the synchronisation and announces. A block without its parent is dropped and getblocks
sent, since headers-first is switched off in `chainparams.cpp`; nothing records which block is in flight and
nothing repeats a request. `Disconnect` is FinalizeNode at both ends and loses what was on the way, `Connect`
the next connection. All blocks are valid and of equal work.

`RequestsCanBeServed` is what makes it safe that requests are not repeated. `ExchangeEnds` says that the
getblocks and getdata of dropped blocks do not go on for ever. `FollowsUnlessDropped` and `DownloadsAllButTip`
are the purpose of the protocol, with the limits the code really has: when a block was dropped, a tip announced
alone may stay unknown (section 6).

### MasternodePayments

Each node keeps `votes`, `tally` (`mapMasternodeBlocks`), `lastVote` (`mapMasternodesLastVote`) and `saved`, its
mnpayments.dat. A vote that was `sent` may reach a node any number of times, in any order, or never.
`ReceiveVote` is ProcessMessageMasternodePayments with the checks in their order (CanVote records the height
before the signature is verified); `ProcessBlock` is a masternode's own vote; `CleanPaymentList` erases old
votes with their tallies. `Restart` and `Crash` load the file and forget what is not in it: `lastVote`, and
`nLastBlockHeight` of the masternode, which may then vote for the same height twice; `revoters` are those. Which
masternodes rank themselves ten or better and so vote for a height is a constant, `Ranked`, of any size: each
uses its own list and its own chain. What the receiver makes of a vote is a free choice of each node at each
vote: IsValid asks for a rank of ten or better on the receiver's list and chain, and lets rank -1 pass (the
masternode is listed but not enabled, or the height unknown).

`PayeesAgree` is what the threshold of six of ten is for, with its true limit: two nodes refuse each other's
blocks for their payee only if the masternodes that voted for the height, and once more those of them that lost
their memory of it, are at least twice the threshold. With ten voters that takes two restarted ones; with more
voters, since nodes rank differently, fewer or none (section 6). `TallyIsVotes` relates the two maps that are
kept, cleaned, saved and read separately.

### MasternodeSync

`asset`, `attempt` and the ages are the members of CMasternodeSync; `vNodes` what each connected peer has been
asked for (HasFulfilledRequest), oldest first. Time goes in steps of MASTERNODE_SYNC_TIMEOUT: `Process` is one
call that does its work, `LocksTaken` one that finds a lock taken. `Begin` leaves INITIAL, FAILED or an empty
list, `AskSporks`, `AskItems` and `StageEnds` are the stages, with `GiveUp` after StageTimeout; `Waits` is a
call that only lets time pass. `Added` are the callbacks of the three kinds of item; peers come and go and the
chain gets up to date (`BlockchainSynced` sets the flag; at block 600, `at600`, IsBlockchainSynced returns true
without it). `SporkChanges` switches spork 8 on and off. `Reset` is mnsync reset or a wake-up after an hour, in
another thread; CMasternodeSync has no lock, so Process may have decided that a stage is over and set the next
one after the reset: `ResetOverwritten`. Of `owed`, a history variable, see the property.

`FinishedIsReady` is what callers take IsSynced for, as far as the code gives it: a recent chain is `owed`
unless Process went on at block 600, the list and the votes unless payments were not enforced at some time since
the last reset, and nothing when Process overwrote that reset; each of the three exceptions is reached in the
run (section 6). `SyncEnds` shows that no stage lasts for ever as long as new peers come; the set of one moment
is not enough, for each is asked once per asset.

### Connections

A CNode is a number. `vNodes`, `vNodesDisconnected`, the flags (as the sets of nodes that have them),
`nRefCount`, and `grantOutbound` with `value` (CSemaphore and its grants) are shared. The socket handler goes
round `Disconnect`, `Delete`, `Accept`, `Copy`, `Service`; the message handler `Poll`, then for one node after
another `Process` and `ProcessDone`, then `GiveBack`; each opener `Acquire`, `ConnectNode`, `MoveTo`, `Mark`, of
which the last two run without a lock on a node other threads have already, so every interleaving with the
handlers is possible. `closed` are the nodes whose socket is closed, which the loops of the socket handler pass
by. `Lose` is a write that fails in any thread, disconnectnode or a ban. While the message handler is in a
node's messages (`processing`), the node may be lost, and at the end DisconnectOldProtocol may take
`fDisconnect` back. Openers have targets of their own, so FindNode finds nothing; one-shots and the connections
that take no slot (-connect, the RPC's onetry, masternodes) are left out.

`HeldNodesExist` is use before delete, `OutboundWithinSlots` the semaphore's purpose for the connections that
take a slot, and `LostNodeIsDeleted` that references and slots come back for a node whose opener is done with it
and whose messages are not being processed when it is lost. If they are, it may be stuck for ever (section 6).

### Masternodes

Several nodes and one collateral. `list` is each node's entry in `vMasternodes`, with the number of its
broadcast (in the order of sigTime), the age of its last ping and its state; `seen` is
`mapSeenMasternodeBroadcast`, which keeps a ping of its own for each broadcast; `pinged` are the nodes that have
this step's ping in `mapSeenMasternodePing`. Time goes in steps longer than the intervals of pings and checks,
so `Tick` waits until messages have arrived and the timers have run. A message "mnb" or "mnp" in `messages`
stands for its inv, getdata and answer; `known` is `setInventoryKnown`.

`RefuseOlder`, `KeepEntry` and `AddEntry` are the outcomes of "mnb", with CheckAndUpdate and CheckInputsAndAdd;
`TakePing`, `IgnorePing` and `AskForMN` those of "mnp"; `AnswerDseg` is "dseg". `Check` has the order of the
code's tests, and `busy` is a TRY_LOCK of `cs_main` that fails. `ManageStatus` is the masternode's own node:
pinging, taking over an entry with its key after a start, registering itself. `StartAlias` is the operator's
command, `Restart` reads mncache.dat or, after a crash, nothing. `collateral` is what each node's chain says, so
nodes see it mature and spent at different times.

`ServedIsCurrent` relates the two copies of the last ping, but for a newer broadcast that was taken without its
ping, until the next one (`late`, a history variable; section 6). `ListedWhilePinging` is the purpose of the
pings and of the ways back into a list, `SpentLeaves` that nothing brings back a masternode whose collateral is
gone.

## 3. Runs

| Run | Distinct states | Checks | Shows |
|---|---|---|---|
| `CoinsCache` | 28 996 | `DbIsSnapshot`, `TipIsSnapshot`, `ImplementsMap` | the layers are one map; a crash finds one block's coins |
| `BlockTree` | 70 635 | `IndexIsLinked`, `CandidatesNotWorse`, `BestChainActive`, `GoodBlocksAreCandidates`, `PruneLeavesSuccessor`, `BestChainWins` | blocks in any order through three threads, failed reorganisations, invalidateblock |
| `BlockTreeOperator` | 341 916 | `ActiveChainClean` | disputes, a checkpoint, reconsiderblock, ReprocessBlocks |
| `SwiftTX` | 461 351 | `OneVoteEach`, `CompleteIsRequested`, `AcceptedInputsHaveLock`, `InputsKeepOwner`, `LocksAreForgotten` | votes and requests in any order, conflicts, expiry, restart; every lock ends |
| `CheckQueue` | 257 000 | `AssertHolds`, `VerdictIsConjunction`, `FinishedBeforeReturn`, `WaitEnds` | blocks one after another, batches, failures, interruptions, lost wake-ups |
| `ChainState` | 520 400 | `CoinsHaveBlocks`, `StartSucceeds`, `SerialsRecorded`, `ChainSpendsOnce` | a crash between any two writes, also while starting; serials over reorganisations |
| `Ledger` | 47 364 | `CoinsAreOfChain`, `PoolStands`, `OrphansFollow` | coins, undo data, pool and orphans over reorganisations, a coinstake spent wholly and taken off |
| `BlockSync` | 84 703 | `RequestsCanBeServed`, `ExchangeEnds`, `FollowsUnlessDropped`, `DownloadsAllButTip` | three nodes download, fork, reorganise and lose a connection |
| `MasternodePayments` | 392 286 | `PayeesAgree`, `TallyIsVotes` | votes in any order with restarts, crashes and cleaning |
| `MasternodeSync` | 456 104 | `FinishedIsReady`, `SyncEnds` | stages, time-outs, failures, peers that come and go, resets, the spork, block 600 |
| `Connections` | 486 869 | `HeldNodesExist`, `OutboundWithinSlots`, `LostNodeIsDeleted` | four threads, three connections, sockets that fail at any moment |
| `Masternodes` | 549 343 | `ServedIsCurrent`, `ListedWhilePinging`, `SpentLeaves` | outages, restarts, busy locks, a collateral spent at other times on each node |

The type invariants, and the auxiliary invariants of the proofs, are theorems (section 4); no run repeats them.

The best chain need not be active after `reconsiderblock` or ReprocessBlocks: candidates that were pruned before
do not come back, and ancestors cleared of their flags are not inserted. So `BestChainActive`,
`GoodBlocksAreCandidates` and `BestChainWins` are checked of the network and invalidateblock (`FairSpec`), where
they hold, and `ActiveChainClean` of all steps (`Spec`), which include those.

### Bounds and why they are enough

- `CoinsCache`: two transactions show interference between entries (the operators work entry by entry; the
  proofs use just that), two unspent values show a stale one, two blocks a change of the best block. Without a
  bound on steps: the state space is finite.
- `BlockTree`: the tree `0-1-2`, `0-3-4-5`, `0-6` has a reorganisation that fails at 4 after it has left 2, a
  branch that would have won, a tie at each height, and a stale block. Three threads allow two block calls and a
  call of the operator to overlap. `Threads` bounds the calls that run at a time, and no two of them have the
  same `pblock`. `Disputable` is empty here, since disputes are the subject of the next run.
- `BlockTreeOperator`: two branches above a common block that is a checkpoint and may be invalidated; disputed
  blocks in both. One thread at a time keeps the run small; the proofs cover any number.
- `InInitialDownload = TRUE` in both: outside it the first ActivateBestChain without a block ends the process
  (section 6), and the node would not go on.
- `SwiftTX`: two transactions that share an input, one of which has a second; two voters, both needed, one of
  them this node's own masternode; one of the voters may use the height 0 of too new inputs. `VotesAt` bounds
  the heights in votes.
- `CheckQueue`: two workers, so that one may be idle, interrupted or not yet started while the other works; four
  checks, the fewest that make a batch of two; one of them fails. `BatchSize = 2` caps it (128 in the code).
  Blocks follow each other without a bound.
- `ChainState`: `0-1` and `0-2-3-4` spend the same serial on both sides of a reorganisation, by two
  transactions, and 4 spends it a second time on its own branch; `1-5` is refused after its serials were looked
  at. `CheckBlocks = 1` lets VerifyDB pass over two blocks, one of which it may have to take off. There is no
  bound on crashes.
- `Ledger`: two branches from a coinbase that reaches `Maturity` (2; 100 in the code) on both, ten transactions
  that conflict, depend on each other across branches or spend a zerocoin spend; `f` is refused by the pool but
  is in a block. `k` spends both outputs of the coinstake `s`: in block 8 at its maturity, so that taking 8 off
  loses the flag, and in block 9, on another branch, too early, where a node that has lost the flag accepts it.
  Two peers, and room for two orphans, so that one is evicted.
- `BlockSync`: `c` dials two nodes that are not linked, so what one knows reaches the other only through it. Six
  blocks with a fork at the top and `Limit = 2` (500) make a download of three batches. One connection is lost,
  at any moment. All nodes start at height 2 and one of them a block ahead, or `c` at the genesis block and the
  others with everything.
- `MasternodePayments`: two masternodes, one of them counting votes itself, a second counting node, two payees
  (symmetric), both votes required. Both masternodes may be started again, so that different payees do get
  required, and one node restart or crash; height 1 pays nobody, so that votes for height 0 occur. The theorems
  hold for any numbers; the run has the smallest that allow a tally, a second vote and a forgotten one.
- `MasternodeSync`: one connection at a time, with `Attempts = 2`, `StageTimeout = 2`, `QuietTime = 1` and
  `RetryAfter = 1` in steps (in the code 2 attempts, 5, 2 and 12 steps). A second connection only adds the
  choice of the first peer that was not asked, which the theorem covers and which TLC has found harmless to
  `SyncEnds` too with smaller times (1 595 353 states, too long for a run). There are two items, one
  resynchronisation for lack of masternodes and one reset. Ages stop one above the longest they are compared
  with, which loses nothing.
- `Connections`: one slot that two openers compete for, one inbound connection, three nodes in all (`MaxNodes`),
  each of which may be lost, with its socket closed or not, at any moment; the theorems have no such numbers.
- `Masternodes`: the masternode `h` and the wallet `w` are linked through `p`, which relays; the key of the
  collateral is at `w` or at `h` itself. Two broadcasts (`MaxBroadcasts`) make one of them old. `MaxEvents = 2`
  bounds the broadcasts, restarts, outages and taken locks of a behaviour together: one event besides the first
  broadcast, at any moment of the entry's life, or two broadcasts. `PingValid`, `Expiration` and `Removal` are
  1, 2 and 3 steps, in the order of the 60, 120 and 130 minutes of the code. Ages stop at `OldestSeen`, beyond
  which none is compared.

Deadlock is checked where the system never stops: `CoinsCache`, `SwiftTX`, `ChainState`, `Ledger`,
`MasternodePayments`, `MasternodeSync`, `Connections`, `Masternodes`. `CheckQueue` may stop in `terminated`, so
there `WaitEnds` shows that nobody waits for ever. In the `BlockTree` runs and `BlockSync` a node that has every
block and no call or message under way has nothing to do; these runs switch the check off.

### Fairness

- `BlockTree!FairSpec`: weak fairness of all steps of ActivateBestChain together. A thread in the call retries
  `TRY_LOCK` every 50 ms and does nothing else; no fairness is assumed of any one thread, nor of arrivals, votes
  or the operator.
- `SwiftTX!FairSpec`: weak fairness of time passing for a lock (`Expires`) and of the cleaning, which
  ThreadCheckObfuScationPool runs every 60 seconds while the blockchain is synced; without sync locks stay.
  Requests, votes and blocks have none.
- `CheckQueue!FairSpec`: weak fairness of each thread's steps, that is, the operating system runs every thread
  that can run and the mutex starves none. Spurious wake-ups have no fairness: a Wait that needed one would
  fail.
- `BlockSync!SyncSpec`: weak fairness of all message handlers and reconnections taken together; the loops of
  each node guarantee more. Blocks need not be found and connections not be lost.
- `MasternodeSync!SyncSpec`: weak fairness of `Process`, which its thread calls every second and which works
  every fifth time, and strong fairness of the chain getting up to date: the tip does not stay at block 600, and
  the download of `BlockSync` goes on. `SyncEnds` has its own hypothesis, that new peers keep connecting; items,
  resets and disconnections have none.
- `Masternodes!Spec`: weak fairness of the threads of all nodes taken together (`Work`), of outages that end,
  and strong fairness of `KnownForgotten`: other traffic pushes an announcement out of `setInventoryKnown`, in
  the end, at a moment when nothing is on the way. Without it `ListedWhilePinging` fails (section 6).
- `Connections!Spec`: weak fairness of the socket and the message handler, loops that wait for a time only. The
  openers have none: they wait for slots and for the network.

## 4. Theorems

Every safety property and action property that a run checks is a theorem, stated of the specification the run
checks with every step of it, for all constants that satisfy its module's named assumptions. Three have a
hypothesis besides, which is named, justified below, and met by the constants of the run.

| Module | Theorem | Property |
|---|---|---|
| `CoinsCacheProofs` | `TypeCorrect`, `CacheCorrect`, `DatabaseIsSnapshot`, `TipIsConsistent`, `BatchWriteSafe` | `TypeOK`, `CacheInv`, `DbIsSnapshot`, `TipIsSnapshot`, `BatchWriteAssert` |
| | `CachesImplementMap` | `ImplementsMap` (refinement) |
| `BlockTreeProofs` | `TypeCorrect`, `IndexCorrect`, `CandidatesCorrect`, `ActiveChainCorrect`, `PruneCorrect` | `TypeOK`, `IndexIsLinked`, `CandidatesNotWorse`, `ActiveChainClean`, `PruneLeavesSuccessor` |
| | `BestChainCorrect`, `GoodBlocksCorrect`, if `Undisputed` and `CheckpointsValid` | `BestChainActive`, `GoodBlocksAreCandidates` |
| `SwiftTXProofs` | `TypeCorrect`, `VotesCountOnce`, `RequestComesFirst`, `AcceptedInputsExpire`, `OwnersStay` | `TypeOK`, `OneVoteEach`, `CompleteIsRequested`, `AcceptedInputsHaveLock`, `InputsKeepOwner` |
| `ConnectBlockProofs` | `TypeCorrect`, `TodoCorrect`, `IdleCorrect`, `IdleBeforeBlock`, `VerdictCorrect`, `ChecksEndWithBlock` | `TypeOK`, `TodoIsOutstanding`, `BusyIsNotIdle`, `AssertHolds`, `VerdictIsConjunction`, `FinishedBeforeReturn` of `CheckQueue` |
| | `CoinsInvariance`, `CoinsCorrect`, `DisconnectsClean`, `PoolCorrect`, `NoOrphanLeftBehind` | `CoinsInv`, `CoinsAreOfChain`, `TipComesOff`, `PoolStands`, `OrphansFollow` of `Ledger` |
| `ChainStateProofs` | `Invariance`, `TypeCorrect` | `StoreInv`, `StoreTypeOK` |
| | `CoinsReadable`, `StartAlwaysSucceeds`, `SerialsKnown`, `SpentOnceInChain` | `CoinsHaveBlocks`, `StartSucceeds`, `SerialsRecorded`, `ChainSpendsOnce` |
| `NetworkProofs` | `TypeCorrect`, `UseBeforeDelete`, `SlotsLimitOutbound` | `TypeOK`, `HeldNodesExist`, `OutboundWithinSlots` of `Connections` |
| | `ExchangeInvariance`, `RequestsAreOfConnected` | `ExchangeInv`, `RequestsConnected` of `BlockSync` |
| | `RequestsServed`, if `ShallowForks` | `RequestsCanBeServed` |
| `MasternodePaymentsProofs` | `TypeCorrect`, `TalliesAreVotes`, `NodesAgreeOnPayee` | `PaymentsTypeOK`, `TallyIsVotes`, `PayeesAgree` |
| `MasternodesProofs` | `SyncTypeCorrect`, `FinishedCorrect` | `SyncTypeOK`, `FinishedIsReady` of `MasternodeSync` |
| | `TypeCorrect`, `ServedCorrect`, `ListedCorrect` | `TypeOK`, `ServedIsCurrent`, `ListedAreConfirmed` of `Masternodes` |

**CoinsCache.** `TipIsSnapshot` and `DbIsSnapshot` are not inductive: a flush is right only because of what the
flags mean. `CacheInv` adds that nothing unspent lies under a FRESH entry, that an entry that is not DIRTY
equals what is below it, that an entry of the view that is not FRESH is also in the tip, and that a closed view
is empty. The proof looks at one transaction at a time (a slot: record, tip entry, view entry), shows what each
operator does to what the layers show, and lifts that to the maps. The refinement follows from the same lemmas:
reads stutter, a modifier is an edit of the draft, flushes are commits. The assumptions only separate `None` and
`NullBlock` from other values.

**BlockTree.** The inductive invariant is `TypeOK` with `ChainInv`, the conjunction of `IndexIsLinked`,
`CandidatesNotWorse` and `ActiveChainClean`; the last needs the others: FindMostWorkChain returns a candidate,
which is linked, so all blocks to connect have data, and its branch is clean. `DiscardedIsElsewhere` shows that
marking failed chains touches neither the active chain nor the way to the block chosen. `PruneCorrect` needs
that the block worked towards is above what was just connected. The assumption `TreeAssumption` defines the
tree; `PathFacts` derives from it what a path is, by induction on the height.

The best chain is harder. While a reorganisation fails half way, the tip is lower than it was, and good blocks
between the two tips are no candidates: they were pruned when the higher tip was reached. `FloorInv` says what
saves them: there is a block at least as good as the tip, whose chain connects, from which up no good block is
missing (`Floor`); when no call is under way it is the tip itself. A failed turn keeps the floor, a turn that
succeeds moves it. The hypotheses say when a floor stays good. `Undisputed`: no transaction lock or payee vote
turns against a block that was checked before. `CheckpointsValid`: checkpoints are on valid chains, and the
operator does not invalidate one. Neither can be dropped (section 6).

**SwiftTX.** `LockInv` adds to `TypeOK`: a vote that is counted is in `mapTxLockVote` (so it is not counted
again; the invariant holds since cleaning removes votes and their lock together, or keeps the vote), a lock with
a height has a request or refusal, an empty request belongs to a refused transaction, and an input of a never
refused owner belongs to a lock with a request.

**Ledger.** The recursions over the transactions of a block are treated by induction: on the least number at
which a set of numbers fails, since the provers have no scheme with a predicate. `CoinsInv` says that the coins
are `Alike` those of a node that connects the active chain alone, that is, but for the coinstake flags, and that
the undo data of every block that is or was in the chain `Fits` it: it restores, for each transaction in the
block and in the order of the code, the coins before it. `ConnectFits` makes the undo data, `DisconnectGives`
uses it up; blocks are connected again to the coins of the same parent, so what is in the file still fits. From
it, `CoinsCorrect`, with the flags: DisconnectBlock does not restore the flag of a coinstake whose last output
it gives back. That a block ever took the last output of a coinstake shows in its undo data, which stay in the
file (`MayBeLost`); `FlagsInv` says that the flags differ from those of the chain for such coinstakes only, and
only by being lost. `DisconnectsClean` is its consequence: DisconnectBlock can only find a tip inconsistent
(2692) that holds such a coinstake, and both theorems are of every chain, with nothing assumed of what is spent.

The pool invariant is `WellKept` (mapNextTx is exactly the inputs of the pool) and `Standing` (each input of a
transaction in the pool exists, in the pool or among the coins, and is ripe for the next block). A block that is
taken off breaks `Standing` for a while: `Passable` is what is left after its transactions were put back, and
`PrematureGone` that removeCoinbaseSpends removes what still does not stand. That remove takes a transaction
with all that spends from it is a closure: so many steps as there are transactions reach the end, for a step
that finds nothing new is the last (`SpendersClosed`).

`HandlerInv` is about the work queue of the handler of "tx": an orphan that follows a transaction the handler
has taken and that could be taken now is still going to be tried, for a transaction further back in the queue or
for its head. The one subtle step is an orphan that was refused before: it becomes acceptable only through a
transaction it spends (`NewlyAcceptable`), which then is put on the queue.

**CheckQueue.** `QueueInv` adds to the properties: where the threads are, and that those at work are those with
checks; that nIdle counts at least the threads that wait; and what `fAllOk` and each `fOk` say of the checks run
so far. `Ready` is what `Proceed` needs of the values it starts from; the lemmas show that it holds at its three
entries and that leaving, sleeping, throwing and taking a batch then keep the invariant. Counting uses the
library's theorems on cardinality; the threads and checks are any finite sets, and of the batch size only that
it is positive.

**ChainState.** `StoreInv` adds to the properties where the code is (`PlaceInv`: the coins' best block and the
tip are at most one block apart, the goal is above the tip while blocks are connected, and VerifyDB runs on
coins as they are on disk), what the index in memory offers (`IndexInv`), that what the index on disk offers
lies within the files as their sizes were recorded (`FileInv`: the order of FlushStateToDisk), and the zerocoin
database (`SerialInv`). The last has to follow VerifyDB: on the way down serials are erased, and a crash leaves
them out. What holds throughout is that the blocks of the chain on disk below those that the next start rechecks
(`Rechecked`) are recorded, and that the transaction index still names the block of each transaction, from which
ConnectTip's check decides. The assumptions describe the tree, whose paths are finite; `PathFacts` derives the
rest by induction on their length.

**MasternodePayments.** The tally of a payee is the number of votes kept, so two payees that two nodes require
for a height have `Required` voters each, and a masternode that is among both has voted twice, which only a
revoter does (`VotersOfTwoAreRevoters`). The two quorums together are then no more than the voters of the height
and once more its revoters, which is `PayeesAgree`. The theorem says so for any ranks, any number of
masternodes, any quorum and any restarts, whomever each node accepts votes from. The inductive invariant is the
type, the tallies (`TalliesCount`), that votes kept or saved were sent (`KnownWereSent`), and `VoteInv`: a
masternode that was not started again has `nLastBlockHeight` no lower than any vote of it (`VotedBefore`), hence
one vote for a height (`OneVoteEach`). Votes for height 0 are left out of `PayeesAgree`: a masternode may cast
several for nobody, and there is no block to refuse.

**Connections.** `HeldNodesExist` is not inductive: a node is deleted for its reference count alone. `NodeInv`
says where the openers are, that an opener's node is not marked (so its reference is not released), that the
references are no fewer than the uses, one for the place in `vNodes` or the opener and one for each copy of a
handler (`RefsCoverUses`), and `HeldNodesExist` itself. The flag, the sockets and the turn of the message
handler do not matter to it: a node is in use as long as it is in a copy. `SlotInv` counts the slots: free ones,
openers with a grant and nodes with one are together `MaxOutbound` (`SlotsAreCounted`), and every outbound node
in `vNodes` has one or its opener still has (`OutboundHasSlot`). `MaxNodes` may be any number.

**BlockSync.** Nothing repeats a request, so it must be one the other end can answer. `ExchangeInv` says that
what a node has announced, is about to send, or is asked for has been connected by it (`LinksOK`, for queues and
channels of any length), and that what is or was on its chain has been connected (`ChainsOK`).
`RequestsAreOfConnected` follows without further hypothesis. A node serves a connected block that is off its
chain only if it is less than the maximal depth below the tip (`main.cpp:5370`-5387), so `RequestsServed` needs
`ShallowForks`.

**MasternodeSync.** `FinishedIsReady` needs that the stages that are behind have left what is owed of them
(`StagesBehind`); a reset starts again from INITIAL and owes everything, unless Process overwrites it. The
spork, block 600 and resets may come at any moment, for any number of peers and any times.

**Masternodes.** `ServedIsCurrent` holds of a node's list and seen broadcasts together; the ping that is
replaced is replaced in both or, in the history variable `late`, was not. `ListedAreConfirmed`, found with it,
is stronger than it looks: CheckAndUpdate replaces the broadcast of a listed masternode without looking at the
age of the collateral; the new broadcast is no earlier than the one it replaces (`EarlyFirst`), which was looked
at.

## 5. What only TLC shows

- Liveness, beyond the prover: `BestChainWins`, `LocksAreForgotten`, `WaitEnds`, `ExchangeEnds`,
  `FollowsUnlessDropped`, `DownloadsAllButTip`, `SyncEnds`, `LostNodeIsDeleted`, `ListedWhilePinging`,
  `SpentLeaves`.

## 6. Seen in the source

Seen in the source while modelling. Most are outside of what the models above contain, or kept out of them by a
bound. Where a run reaches one, that is said, and the property that a run checks allows for it:

- Undo data. `main.cpp:2727`: when a block that spends the last output of a coinstake is taken off,
  DisconnectBlock restores the coinstake's coins without their coinstake flag, which the undo data holds
  (`undo.h:27`), against `main.h:536`, "Undo the effects of this block". It takes a transaction that spends the
  empty marker output too, since otherwise that one keeps the coins and their flag; an empty output can be spent
  by anybody, no rule of consensus forbids it. The run `Ledger` reaches what follows: a spend of the stake
  before its maturity is accepted by this node, where others refuse the block (`main.cpp:2549`), and when the
  block of the coinstake itself is to be taken off, its outputs differ from the coins (2692), DisconnectBlock
  fails, and a reorganisation that deep ends with an error. `CoinsCorrect` and `DisconnectsClean` (section 4)
  say that nothing else goes wrong.
- Pool. `txmempool.cpp:562`-576: CTxMemPool::check asserts coins and mapNextTx for every input; a zerocoin spend
  in the pool fails both, so with -checkmempool (on in regtest) the node stops at the first one.
- Coins and index. `txdb.cpp:71`: BatchWrite has emptied the cache's map when LevelDB refuses the batch; Flush
  keeps `hashBlock`, and the flush of PrepareShutdown (`init.cpp:224`-229) then writes the block's name without
  its coins. `main.cpp:3797`: InvalidateBlock that dies before its end may leave a failed tip on disk, and the
  assertion of PruneBlockIndexCandidates (3654) ends every start. `main.cpp:3118`: WriteCoinSpend comes before
  the note at 3205 that nothing may be written before this point.
- Chain selection. `main.cpp:3780`: ActivateBestChain reads `pblock` when it may be null, outside the initial
  download. `main.cpp:4260`: -maxreorg is described as "Maximum reorg depth", but compares the height of a block
  with the tip's when the block arrives; a fork that keeps up may be any length. `main.cpp:4594`:
  CheckBlockIndex asserts what does not hold between two steps of another thread. `main.cpp:3522`: the loop of
  DisconnectBlocksAndReprocess ignores failures. The two hypotheses of `BestChainCorrect`, each with TLC's
  counterexample when it is dropped: a chain may be disputed by a lock or a vote while a reorganisation to it is
  half way, when the chain left, better than the tip now, was pruned from the candidates (with `Disputable = {1,
  2}` in 13 steps); a checkpoint of which only the header is there, and an ancestor, are invalidated by the
  operator, and AcceptBlock reconsiders both without inserting the ancestor's descendants again (14 steps).
  Neither repairs itself before a better block arrives.
- Zerocoin. `rpcblockchain.cpp:538`: verifychain does not set `fVerifyingBlocks`, so the serials it erases on
  the way down (2663-2673) are not all written again. `txmempool.cpp:485`: a reorganisation removes every
  zerocoin spend from the pool.
- Block download. `main.cpp:6160`: after a reorganisation only the tip is announced. A peer that does not know
  its parent drops it (6153) and asks by getblocks up to that block, which answers without it (5875-5879); it is
  in `setInventoryKnown` (`net.h:462`) and is not announced again, so the peer waits for the next block.
  `main.cpp:299`-317: FinalizeNode does not take headers still in flight off `nQueuedValidatedHeaders`, against
  the comment at 182.
- Transaction locks. `swifttx.cpp:111`: inputs of a refused request are locked without votes; `swifttx.cpp:365`:
  they stay locked, against "expire after 60 minutes" (253).
- Payments. `masternode-payments.cpp:672`-685: IsValid lets rank -1 pass, and its comment (675) has it that
  nodes disagree on the ten best; `MasternodePayments` leaves both open. So the voters of a height may be more
  than ten, and with those that vote again after a restart (706: `nLastBlockHeight` is in memory only) reach
  twice the threshold of six: then two nodes may require different payees and refuse each other's blocks, as the
  run does with two voters that were both started again. 383-384: a vote is dropped when `cs_main` is taken;
  516: the payee is added after the locks are released; `masternode.cpp:30`: `mapCacheBlockHashes` is not
  cleared in a reorganisation.
- Masternode list. `masternode.cpp:566`: a node that was a masternode and is NOT_CAPABLE keeps its `vin`, so a
  new broadcast with the same key is "already activated" and neither added nor does it start the node again.
  `masternode-sync.cpp:388`: "Try to activate our masternode if possible" comes when the status has left
  INITIAL, in which alone ManageStatus looks for the entry. `masternode.cpp:587` and 605: a broadcast is
  forgotten "to be checked again later", but `setInventoryKnown` holds its announcement back until newer ones
  push it out. `masternodeman.cpp:325`: the iterator is read after it was advanced by `erase(it3++)`, also past
  the end. `masternode.cpp:141`-159: a newer broadcast whose ping is old, or came too soon after the one before,
  updates the entry without it; the node then serves the broadcast with that ping, not with its own. Each hop
  may leave it behind for as long as a ping is valid (an hour), so a node further on may get one that is older
  than the time for removal (130 minutes) and drop the masternode until its next ping; the run has too few
  events to do this (`MaxEvents`), the theorem's `late` leaves it open. Two broadcasts within five minutes leave
  different ones in the lists of different nodes.
- Synchronisation. `masternode-sync.cpp:56`-58: IsBlockchainSynced is true at block 600 whatever its age, so
  that a node that is at it while Process runs may finish on an old chain. 71-92: Reset runs in the RPC thread,
  Process in another, without a lock: a reset in the middle of Process is overwritten by the next stage, and the
  node may finish with an empty list; the run has both, and spork 8 switched on when the list and the votes were
  passed without items. The maps and the members of CMasternodeSync themselves race too, which is not modelled.
  The stage LIST begins with one attempt used up; a peer asked for the list twice within three hours punishes
  the asker, and the stages ask anew after each failure.
- Budget. `masternode-budget.cpp:1318`: orphan votes are kept by proposal, one each; 885-900: resetting forgets
  which votes were seen, not the votes.
- Network. `net.cpp:466`: DisconnectOldProtocol starts by clearing `fDisconnect`, and is called after every new
  block (`main.cpp:6180`) and for a version (5618). A write to the peer that fails during ProcessNewBlock, in
  any thread (823), has set the flag, closed the socket and left `vSendMsg` non-empty. When the flag is cleared
  before the socket handler's next round, both its loops pass the node by for its closed socket (930, 1048), the
  inactivity checks too, and no write is tried while `vSendMsg` is not empty: the node keeps its place and its
  slot until disconnectnode, a ban or a message still in its buffer that fails sets the flag again. The run
  reaches this state; `LostNodeIsDeleted` excludes nodes that are lost while their messages are processed. In
  the message thread itself, CloseSocketDisconnect clears `vRecvMsg` (461) under ProcessMessages, which erases
  up to an iterator of it (`main.cpp:6541`) when the flag was cleared since; the buffers are not modelled. 857,
  1488: a node that is lost between its place in `vNodes` and `fNetworkNode = true` keeps its reference and its
  slot for ever. 401-403: ConnectNode takes a reference of an existing node outside the lock.

## 7. Not modelled

- Scripts, keys, serialisation and cryptography: pure functions on bytes. RPC, REST and HTTP beyond the commands
  that are actions of `BlockTree` and `SwiftTX`: I/O.
- Of the network: proxies, the version handshake, addresses, the list of bans, traffic limits, the byte streams
  and buffers. The address manager is a cache of hints, random by design.
- Of `ChainState`: loss of power (what LevelDB and the file system do with writes that are not synced),
  -reindex, several block files, pruning by the operator's commands. Of VerifyDB: its early stop when the cache
  grows, `-checkblocks` 0 (all blocks) and its return at a shutdown.
- Of the masternode list: several masternodes and their ranks, of which `MasternodePayments` only has the
  outcome; collateral that a node's chain does not have at all, which is treated as one that is too young
  (`masternodeman.cpp:756` marks the broadcast as seen, where a young one is forgotten); the messages of the old
  protocol; an old mncache.dat found after a crash. The budget; spork messages, except as the flags that switch
  payments on.
- The obfuscation pool: its entry points return at once (`obfuscation.cpp:1386`). The scheduler: one thread with
  one periodic task in this program.
- The wallet, with its own bookkeeping and encryption; the miner and the staker, which are one more sender of
  blocks here; the accumulator arithmetic.
- The graphical interface, `mnside` and the files named "(dark)": copies or presentation.
- Data races on the maps of SwiftX and on `mapMasternodeBlocks`: handlers are atomic. Clock values are replaced
  by the event they trigger (a rejection ages, a lock expires), except in `MasternodeSync` and `Masternodes`,
  where time is the subject.

The modules cover a small share of a very large code base: the consensus and network core of `main.cpp`,
`txmempool`, `coins`, `txdb`, `net`, `swifttx` and the masternode files, where threads, messages and crashes
meet. Most of the other lines are the wallet, RPC, interface, cryptography and copies.

## 8. Plan

Built: `CoinsCache`, `BlockTree`, `SwiftTX`, `CheckQueue`, `ChainState`, `Ledger`, `BlockSync`,
`MasternodePayments`, `MasternodeSync`, `Connections`, `Masternodes`; every safety property of their runs is a
theorem. Left, in this order:

1. The refinement of one component by another: the coins that `CoinsCache` assumes by `Ledger`, the verdicts
   that `BlockTree` assumes by `SwiftTX`.
2. The ranks computed from the entries of `Masternodes` and the hash of a block, instead of the constant
   `Ranked`.
3. `Budget`: proposals, finalised budgets, their votes and the repetition of the synchronisation.
4. Spork messages; the address manager.
