----------------------------- MODULE CoinsCache -----------------------------
(***************************************************************************)
(* The layered unspent-output caches of coins.cpp: a per-block view over   *)
(* pcoinsTip over the LevelDB coin database.  Each cache entry carries the *)
(* DIRTY and FRESH flags that decide what a flush writes, skips or erases. *)
(* The view lives inside one cs_main critical section, as in ConnectTip,   *)
(* DisconnectTip and TestBlockValidity; pcoinsTip is flushed only between  *)
(* views, and a crash drops every cache.                                   *)
(*                                                                         *)
(* A transaction's outputs are a value of Coins; Pruned is the one with    *)
(* every output spent.  None stands for "no entry" in a cache or database. *)
(***************************************************************************)
CONSTANTS Txid, Coins, Pruned, Block, NullBlock, None

ASSUME PrunedAssumption == Pruned \in Coins
ASSUME NoneAssumption   == None \notin Coins
ASSUME EntryAssumption  ==
    None \notin [coins : Coins, dirty : BOOLEAN, fresh : BOOLEAN]
ASSUME MapAssumption    == None \notin [Txid -> Coins]
ASSUME NullAssumption   == NullBlock \notin Block

VARIABLES
    db,        \* the chainstate database, 'c' records
    dbBest,    \* its 'B' record
    tip,       \* pcoinsTip->cacheCoins
    tipBest,   \* pcoinsTip->hashBlock, NullBlock when not read yet
    view,      \* cacheCoins of the view on the stack
    viewOpen,  \* is there such a view?
    snapshot   \* history: the coins of each block whose state was committed

vars == <<db, dbBest, tip, tipBest, view, viewOpen, snapshot>>

Entry == [coins : Coins, dirty : BOOLEAN, fresh : BOOLEAN]
Cache == [Txid -> Entry \cup {None}]
Map   == [Txid -> Coins]
Empty == [t \in Txid |-> None]

TypeOK ==
    /\ db \in [Txid -> (Coins \ {Pruned}) \cup {None}]
    /\ dbBest \in Block \cup {NullBlock}
    /\ tip \in Cache
    /\ tipBest \in Block \cup {NullBlock}
    /\ view \in Cache
    /\ viewOpen \in BOOLEAN
    /\ snapshot \in [Block \cup {NullBlock} -> Map \cup {None}]

-----------------------------------------------------------------------------
(* The coins each layer shows, an absent record being a spent one. *)

DbCoins   == [t \in Txid |-> IF db[t] = None THEN Pruned ELSE db[t]]
TipCoins  == [t \in Txid |-> IF tip[t] = None THEN DbCoins[t] ELSE tip[t].coins]
ViewCoins == [t \in Txid |-> IF view[t] = None THEN TipCoins[t] ELSE view[t].coins]

TipBlock == IF tipBest = NullBlock THEN dbBest ELSE tipBest

(* Entry t of a cache after FetchCoins, base being what the layer below    *)
(* returns for t (None: not found).                                        *)
Fetched(entry, base) ==
    IF entry # None \/ base = None THEN entry
    ELSE [coins |-> base, dirty |-> FALSE, fresh |-> base = Pruned]

(* The entry ModifyCoins returns a handle to: found, or taken from base.   *)
(* An entry the base lacks, or only has spent, is fresh.                   *)
IsFresh(entry, base) ==
    IF entry # None THEN entry.fresh ELSE base \in {None, Pruned}

(* Mutant of Modified: only an entry ModifyCoins inserted becomes DIRTY.   *)
ModifiedIfInserted(entry, base, c) ==
    IF IsFresh(entry, base) /\ c = Pruned THEN None
    ELSE [coins |-> c, dirty |-> entry = None, fresh |-> IsFresh(entry, base)]

(* The entry once the CCoinsModifier that set it to c is destroyed.        *)
Modified(entry, base, c) ==
    IF IsFresh(entry, base) /\ c = Pruned THEN None
    ELSE [coins |-> c, dirty |-> TRUE, fresh |-> IsFresh(entry, base)]

(* Mutant of Merged: a spent child erases the parent's entry, FRESH or not. *)
MergedErasing(parent, child) ==
    IF child = None THEN parent
    ELSE IF ~child.dirty THEN parent
    ELSE IF child.coins = Pruned THEN None
    ELSE [coins |-> child.coins, dirty |-> TRUE,
          fresh |-> parent = None \/ parent.fresh]

(* CCoinsViewCache::BatchWrite: what the parent's entry becomes when the   *)
(* child's is pushed down.                                                 *)
Merged(parent, child) ==
    CASE child = None -> parent
      [] child # None /\ ~child.dirty -> parent
      [] child # None /\ child.dirty /\ parent = None ->
            IF child.coins = Pruned THEN None
            ELSE [coins |-> child.coins, dirty |-> TRUE, fresh |-> TRUE]
      [] child # None /\ child.dirty /\ parent # None ->
            IF parent.fresh /\ child.coins = Pruned THEN None
            ELSE [coins |-> child.coins, dirty |-> TRUE, fresh |-> parent.fresh]

(* Mutant of Written: spent coins are skipped, not erased.                 *)
WrittenUnspent(record, entry) ==
    IF entry = None THEN record
    ELSE IF entry.dirty /\ entry.coins # Pruned THEN entry.coins ELSE record

(* CCoinsViewDB::BatchWrite for one record. *)
Written(record, entry) ==
    IF entry = None THEN record
    ELSE IF ~entry.dirty THEN record
    ELSE IF entry.coins = Pruned THEN None
    ELSE entry.coins

-----------------------------------------------------------------------------
Init ==
    /\ db = Empty
    /\ dbBest = NullBlock
    /\ tip = Empty
    /\ tipBest = NullBlock
    /\ view = Empty
    /\ viewOpen = FALSE
    /\ snapshot = [b \in Block \cup {NullBlock} |->
                     IF b = NullBlock THEN [t \in Txid |-> Pruned] ELSE None]

(* AccessCoins/HaveCoins on pcoinsTip. *)
TipFetch(t) ==
    /\ ~viewOpen
    /\ tip' = [tip EXCEPT ![t] = Fetched(tip[t], db[t])]
    /\ UNCHANGED <<db, dbBest, tipBest, view, viewOpen, snapshot>>

(* CCoinsViewCache view(pcoinsTip). *)
OpenView ==
    /\ ~viewOpen
    /\ viewOpen' = TRUE
    /\ UNCHANGED <<db, dbBest, tip, tipBest, view, snapshot>>

TipEntry(t) == IF view[t] = None THEN Fetched(tip[t], db[t]) ELSE tip[t]
Found(entry) == IF entry = None THEN None ELSE entry.coins

(* AccessCoins on the view: a miss pulls the entry through pcoinsTip. *)
ViewFetch(t) ==
    /\ viewOpen
    /\ tip' = [tip EXCEPT ![t] = TipEntry(t)]
    /\ view' = [view EXCEPT ![t] = Fetched(view[t], Found(TipEntry(t)))]
    /\ UNCHANGED <<db, dbBest, tipBest, viewOpen, snapshot>>

(* ModifyCoins on the view, through the end of the modifier's life. *)
ViewModify(t, c) ==
    /\ viewOpen
    /\ tip' = [tip EXCEPT ![t] = TipEntry(t)]
    /\ view' = [view EXCEPT ![t] = Modified(view[t], Found(TipEntry(t)), c)]
    /\ UNCHANGED <<db, dbBest, tipBest, viewOpen, snapshot>>

(* SetBestBlock(b) and Flush of the view into pcoinsTip.  Assumed of the   *)
(* caller: the state a block leaves is the same every time it is reached,  *)
(* by connecting the block or by disconnecting its child (the undo data of *)
(* DisconnectBlock is not modelled here).                                  *)
FlushView(b) ==
    /\ viewOpen
    /\ snapshot[b] \in {None, ViewCoins}
    /\ tip' = [t \in Txid |-> Merged(tip[t], view[t])]
    /\ tipBest' = b
    /\ view' = Empty
    /\ viewOpen' = FALSE
    /\ snapshot' = [snapshot EXCEPT ![b] = ViewCoins]
    /\ UNCHANGED <<db, dbBest>>

(* The view goes out of scope unflushed: an invalid or only tested block. *)
DropView ==
    /\ viewOpen
    /\ view' = Empty
    /\ viewOpen' = FALSE
    /\ UNCHANGED <<db, dbBest, tip, tipBest, snapshot>>

(* FlushStateToDisk: pcoinsTip->Flush(), one atomic LevelDB batch. *)
FlushTip ==
    /\ ~viewOpen
    /\ db' = [t \in Txid |-> Written(db[t], tip[t])]
    /\ dbBest' = IF tipBest = NullBlock THEN dbBest ELSE tipBest
    /\ tip' = Empty
    /\ UNCHANGED <<tipBest, view, viewOpen, snapshot>>

(* The process dies and starts again with empty caches. *)
Crash ==
    /\ tip' = Empty
    /\ tipBest' = NullBlock
    /\ view' = Empty
    /\ viewOpen' = FALSE
    /\ UNCHANGED <<db, dbBest, snapshot>>

Next ==
    \/ \E t \in Txid : TipFetch(t) \/ ViewFetch(t)
    \/ \E t \in Txid, c \in Coins : ViewModify(t, c)
    \/ OpenView
    \/ \E b \in Block : FlushView(b)
    \/ DropView
    \/ FlushTip
    \/ Crash

Spec == Init /\ [][Next]_vars

-----------------------------------------------------------------------------
(* Properties. *)

(* The database always holds exactly the coins of the block it names, at   *)
(* every instant a crash could happen (CCoinsViewDB::BatchWrite puts 'c'   *)
(* and 'B' records in one batch, built from DIRTY entries only).           *)
DbIsSnapshot == DbCoins = snapshot[dbBest]

(* pcoinsTip shows exactly the coins of the block it names, whatever mix   *)
(* of cached, erased and database records it is made of.                   *)
TipIsSnapshot == TipCoins = snapshot[TipBlock]

(* assert(it->second.flags & CCoinsCacheEntry::FRESH) in BatchWrite: a new *)
(* unspent entry is pushed to a parent without one only when the child     *)
(* knows that nothing below has it.                                        *)
BatchWriteAssert ==
    \A t \in Txid :
        view[t] # None /\ tip[t] = None =>
            (view[t].dirty /\ view[t].coins # Pruned => view[t].fresh)

(* A FRESH entry may be erased instead of written, so nothing unspent may  *)
(* lie under it: "The parent view does not have this entry".               *)
FreshHasNothingBelow ==
    \A t \in Txid :
        /\ tip[t] # None => (tip[t].fresh => db[t] = None)
        /\ view[t] # None => (view[t].fresh => TipCoins[t] = Pruned)

(* An entry a flush skips ("ignore non-dirty entries") says what is below. *)
CleanIsUnchanged ==
    \A t \in Txid :
        /\ tip[t] # None => (~tip[t].dirty => tip[t].coins = DbCoins[t])
        /\ view[t] # None => (~view[t].dirty => view[t].coins = TipCoins[t])

(* An entry of the view that is not FRESH was read through pcoinsTip, and  *)
(* pcoinsTip still has it when the view is pushed down.                    *)
ViewWasPulledIn ==
    \A t \in Txid :
        view[t] # None => (~view[t].fresh => tip[t] # None)

ClosedViewIsEmpty == ~viewOpen => view = Empty

(* The inductive invariant of the caches. *)
CacheInv ==
    /\ TypeOK
    /\ FreshHasNothingBelow
    /\ CleanIsUnchanged
    /\ ViewWasPulledIn
    /\ ClosedViewIsEmpty
    /\ DbIsSnapshot
    /\ TipIsSnapshot

(* The layers implement one map with atomic drafts and a durable copy.     *)
(* The coins of an open view are the draft.                                *)
AbstractMap == INSTANCE CoinsMap WITH
    coins <- TipCoins, best <- TipBlock,
    draft <- ViewCoins, drafting <- viewOpen,
    durable <- DbCoins, durableBest <- dbBest

ImplementsMap == AbstractMap!Spec
=============================================================================
