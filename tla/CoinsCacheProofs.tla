-------------------------- MODULE CoinsCacheProofs --------------------------
(* Proofs about CoinsCache, for every set of transactions, coins, blocks.  *)
EXTENDS CoinsCache, TLAPS

Slot == Entry \cup {None}

(* The assumption on None, in the form the proofs use it. *)
LEMMA EntryIsSome ==
    ASSUME NEW c \in Coins, NEW x \in BOOLEAN, NEW y \in BOOLEAN
    PROVE  [coins |-> c, dirty |-> x, fresh |-> y] # None
BY EntryAssumption

(* Every operator on one cache entry yields an entry or None. *)
LEMMA FetchedType ==
    ASSUME NEW e \in Slot, NEW base \in Coins \cup {None}
    PROVE  Fetched(e, base) \in Slot
BY DEF Slot, Entry, Fetched

(* ModifyCoins leaves an entry, or none. *)
LEMMA ModifiedType ==
    ASSUME NEW e \in Slot, NEW base \in Coins \cup {None}, NEW c \in Coins
    PROVE  Modified(e, base, c) \in Slot
<1>1. IsFresh(e, base) \in BOOLEAN
  <2>1. CASE e = None
    BY <2>1 DEF IsFresh
  <2>2. CASE e # None
    <3>1. e \in Entry
      BY <2>2 DEF Slot
    <3>2. e.fresh \in BOOLEAN
      BY <3>1 DEF Entry
    <3> QED BY <2>2, <3>2 DEF IsFresh
  <2> QED BY <2>1, <2>2
<1>2. [coins |-> c, dirty |-> TRUE, fresh |-> IsFresh(e, base)] \in Entry
  BY <1>1 DEF Entry
<1> QED BY <1>2 DEF Modified, Slot

(* BatchWrite of a cache leaves an entry, or none. *)
LEMMA MergedType ==
    ASSUME NEW p \in Slot, NEW k \in Slot
    PROVE  Merged(p, k) \in Slot
<1>1. CASE k = None
  BY <1>1 DEF Merged, Slot
<1>2. CASE k # None /\ ~k.dirty
  BY <1>2 DEF Merged, Slot
<1>3. CASE k # None /\ k.dirty /\ p = None
  BY <1>3 DEF Merged, Slot, Entry
<1>4. CASE k # None /\ k.dirty /\ p # None
  BY <1>4 DEF Merged, Slot, Entry
<1> QED BY <1>1, <1>2, <1>3, <1>4

(* What the layer above reads is a coin, or nothing. *)
LEMMA FoundType ==
    ASSUME NEW e \in Slot
    PROVE  Found(e) \in Coins \cup {None}
BY DEF Slot, Entry, Found

(* The empty caches have the right types, *)
LEMMA TypeInit == Init => TypeOK
BY PrunedAssumption DEF Init, TypeOK, Empty, Cache, Map

(* and every step keeps them. *)
LEMMA TypeNext == TypeOK /\ [Next]_vars => TypeOK'
<1> SUFFICES ASSUME TypeOK, [Next]_vars PROVE TypeOK'
  OBVIOUS
<1>0. /\ \A t \in Txid : tip[t] \in Slot /\ view[t] \in Slot
      /\ \A t \in Txid : db[t] \in Coins \cup {None}
      /\ DbCoins \in Map /\ TipCoins \in Map /\ ViewCoins \in Map
  <2>1. \A t \in Txid : tip[t] \in Slot /\ view[t] \in Slot
    BY DEF TypeOK, Cache, Slot
  <2>2. \A t \in Txid : db[t] \in Coins \cup {None}
    BY DEF TypeOK
  <2>3. DbCoins \in Map
    BY <2>2, PrunedAssumption DEF DbCoins, Map
  <2>4. TipCoins \in Map
    BY <2>1, <2>3 DEF TipCoins, Map, Slot, Entry
  <2>5. ViewCoins \in Map
    BY <2>1, <2>4 DEF ViewCoins, Map, Slot, Entry
  <2> QED BY <2>1, <2>2, <2>3, <2>4, <2>5
<1>1. \A t \in Txid : TipEntry(t) \in Slot
  BY <1>0, FetchedType DEF TipEntry
<1>2. ASSUME NEW t \in Txid, TipFetch(t) PROVE TypeOK'
  BY <1>2, <1>0, FetchedType DEF TipFetch, TypeOK, Cache, Slot
<1>3. ASSUME NEW t \in Txid, ViewFetch(t) PROVE TypeOK'
  <2>1. Fetched(view[t], Found(TipEntry(t))) \in Slot
    BY <1>0, <1>1, FoundType, FetchedType
  <2> QED BY <1>3, <1>0, <1>1, <2>1 DEF ViewFetch, TypeOK, Cache, Slot
<1>4. ASSUME NEW t \in Txid, NEW c \in Coins, ViewModify(t, c) PROVE TypeOK'
  <2>1. Modified(view[t], Found(TipEntry(t)), c) \in Slot
    BY <1>0, <1>1, FoundType, ModifiedType
  <2> QED BY <1>4, <1>0, <1>1, <2>1 DEF ViewModify, TypeOK, Cache, Slot
<1>5. CASE OpenView
  BY <1>5 DEF OpenView, TypeOK
<1>6. ASSUME NEW b \in Block, FlushView(b) PROVE TypeOK'
  BY <1>6, <1>0, MergedType DEF FlushView, TypeOK, Cache, Slot, Empty
<1>7. CASE DropView
  BY <1>7 DEF DropView, TypeOK, Empty, Cache
<1>8. CASE FlushTip
  BY <1>8, <1>0 DEF FlushTip, TypeOK, Empty, Cache, Written, Slot, Entry
<1>9. CASE Crash
  BY <1>9 DEF Crash, TypeOK, Empty, Cache
<1>10. CASE UNCHANGED vars
  BY <1>10 DEF vars, TypeOK
<1> QED BY <1>2, <1>3, <1>4, <1>5, <1>6, <1>7, <1>8, <1>9, <1>10 DEF Next

(* Every variable keeps its type: the caches hold entries, the database no *)
(* spent record.                                                           *)
THEOREM TypeCorrect == Spec => []TypeOK
BY TypeInit, TypeNext, PTL DEF Spec

-----------------------------------------------------------------------------
(* The cache invariant, for the database record d, the tip entry p and the *)
(* view entry k of one transaction.                                        *)
Record == (Coins \ {Pruned}) \cup {None}
Shown(d) == IF d = None THEN Pruned ELSE d
ThroughTip(d, p) == IF p = None THEN Shown(d) ELSE p.coins
ThroughView(d, p, k) == IF k = None THEN ThroughTip(d, p) ELSE k.coins
Pulled(d, p, k) == IF k = None THEN Fetched(p, d) ELSE p

TipSlot(d, p) ==
    /\ p # None => (p.fresh => d = None)
    /\ p # None => (~p.dirty => p.coins = Shown(d))

ViewSlot(d, p, k) ==
    /\ k # None => (k.fresh => ThroughTip(d, p) = Pruned)
    /\ k # None => (~k.dirty => k.coins = ThroughTip(d, p))
    /\ k # None => (~k.fresh => p # None)

(* Reading through a cache changes nothing that any layer shows. *)
LEMMA FetchTip ==
    ASSUME NEW d \in Record, NEW p \in Slot, TipSlot(d, p)
    PROVE  /\ TipSlot(d, Fetched(p, d))
           /\ ThroughTip(d, Fetched(p, d)) = ThroughTip(d, p)
           /\ p # None => Fetched(p, d) = p
<1>1. CASE p # None \/ d = None
  BY <1>1 DEF Fetched
<1>2. CASE p = None /\ d # None
  <2>1. d # Pruned /\ d \in Coins
    BY <1>2 DEF Record
  <2>2. Fetched(p, d) = [coins |-> d, dirty |-> FALSE, fresh |-> FALSE]
    BY <1>2, <2>1 DEF Fetched
  <2>3. Fetched(p, d) # None
    BY <2>1, <2>2, EntryIsSome
  <2>4. /\ Fetched(p, d).coins = d
        /\ ~Fetched(p, d).dirty
        /\ ~Fetched(p, d).fresh
    BY <2>2
  <2> QED BY <1>2, <2>1, <2>3, <2>4 DEF TipSlot, ThroughTip, Shown
<1> QED BY <1>1, <1>2

(* A miss of the view leaves pcoinsTip with the entry it pulled through. *)
LEMMA PullThrough ==
    ASSUME NEW d \in Record, NEW p \in Slot, NEW k \in Slot,
           TipSlot(d, p), ViewSlot(d, p, k)
    PROVE  /\ TipSlot(d, Pulled(d, p, k))
           /\ ThroughTip(d, Pulled(d, p, k)) = ThroughTip(d, p)
           /\ Pulled(d, p, k) \in Slot
           /\ ViewSlot(d, Pulled(d, p, k), k)
<1>1. d \in Coins \cup {None}
  BY DEF Record
<1>2. CASE k = None
  BY <1>1, <1>2, FetchTip, FetchedType DEF Pulled, ViewSlot
<1>3. CASE k # None
  BY <1>3 DEF Pulled
<1> QED BY <1>2, <1>3

(* Reading through the view changes nothing that it shows. *)
LEMMA FetchView ==
    ASSUME NEW d \in Record, NEW p \in Slot, NEW k \in Slot,
           TipSlot(d, p), ViewSlot(d, p, k),
           NEW q \in Slot, q = Pulled(d, p, k)
    PROVE  /\ ViewSlot(d, q, Fetched(k, Found(q)))
           /\ ThroughView(d, q, Fetched(k, Found(q))) = ThroughView(d, p, k)
<1>1. ThroughTip(d, q) = ThroughTip(d, p) /\ ViewSlot(d, q, k)
  BY PullThrough
<1>2. CASE k # None \/ Found(q) = None
  BY <1>1, <1>2 DEF Fetched, ThroughView
<1>3. CASE k = None /\ Found(q) # None
  <2>1. q # None /\ Found(q) = q.coins /\ Found(q) \in Coins
    BY <1>3 DEF Found, Slot, Entry
  <2>2. CASE q.coins = Pruned
    <3>1. Fetched(k, Found(q)) =
            [coins |-> Pruned, dirty |-> FALSE, fresh |-> TRUE]
      BY <1>3, <2>1, <2>2 DEF Fetched
    <3>2. Fetched(k, Found(q)) # None
      BY <3>1, PrunedAssumption, EntryIsSome
    <3>3. Fetched(k, Found(q)).coins = Pruned
      BY <3>1
    <3> QED BY <1>1, <1>3, <2>1, <2>2, <3>2, <3>3
            DEF ViewSlot, ThroughTip, ThroughView
  <2>3. CASE q.coins # Pruned
    <3>1. Fetched(k, Found(q)) =
            [coins |-> q.coins, dirty |-> FALSE, fresh |-> FALSE]
      BY <1>3, <2>1, <2>3 DEF Fetched
    <3>2. Fetched(k, Found(q)) # None
      BY <2>1, <3>1, EntryIsSome
    <3>3. /\ Fetched(k, Found(q)).coins = q.coins
          /\ ~Fetched(k, Found(q)).fresh
      BY <3>1
    <3> QED BY <1>1, <1>3, <2>1, <3>2, <3>3
            DEF ViewSlot, ThroughTip, ThroughView
  <2> QED BY <2>2, <2>3
<1> QED BY <1>2, <1>3

(* Setting a coin in the view leaves what the tip shows alone. *)
LEMMA ModifyView ==
    ASSUME NEW d \in Record, NEW p \in Slot, NEW k \in Slot, NEW c \in Coins,
           TipSlot(d, p), ViewSlot(d, p, k),
           NEW q \in Slot, q = Pulled(d, p, k)
    PROVE  /\ ViewSlot(d, q, Modified(k, Found(q), c))
           /\ ThroughView(d, q, Modified(k, Found(q), c)) = c
<1> DEFINE base == Found(q)
           f == IsFresh(k, base)
           m == Modified(k, base, c)
<1>1. ThroughTip(d, q) = ThroughTip(d, p) /\ ViewSlot(d, q, k)
  BY PullThrough
<1>2. d # None /\ k = None => q # None
  <2> SUFFICES ASSUME d # None, k = None, p = None PROVE q # None
    BY DEF Pulled, Fetched
  <2>1. q = [coins |-> d, dirty |-> FALSE, fresh |-> d = Pruned] /\ d \in Coins
    BY DEF Pulled, Fetched, Record
  <2> QED BY <2>1, EntryIsSome
<1>3. /\ f \in BOOLEAN
      /\ f => ThroughTip(d, q) = Pruned
      /\ ~f => q # None
  <2>1. CASE k = None
    <3>1. f <=> base \in {None, Pruned}
      BY <2>1 DEF IsFresh
    <3>2. f \in BOOLEAN
      BY <2>1 DEF IsFresh
    <3>3. q # None => base = q.coins /\ base \in Coins
      BY DEF Found, Slot, Entry
    <3>4. q = None => base = None /\ d = None
      BY <1>2, <2>1 DEF Found
    <3> QED BY <3>1, <3>2, <3>3, <3>4, NoneAssumption DEF ThroughTip, Shown
  <2>2. CASE k # None
    <3>1. k.fresh \in BOOLEAN /\ f = k.fresh
      BY <2>2 DEF Slot, Entry, IsFresh
    <3> QED BY <1>1, <2>2, <3>1 DEF ViewSlot
  <2> QED BY <2>1, <2>2
<1>4. CASE f /\ c = Pruned
  <2>1. m = None
    BY <1>4 DEF Modified
  <2> QED BY <1>3, <1>4, <2>1 DEF ViewSlot, ThroughView
<1>5. CASE ~(f /\ c = Pruned)
  <2>1. m = [coins |-> c, dirty |-> TRUE, fresh |-> f]
    BY <1>5 DEF Modified
  <2>2. m # None
    BY <2>1, <1>3, EntryIsSome
  <2>3. m.coins = c /\ m.dirty = TRUE /\ m.fresh = f
    BY <2>1
  <2> QED BY <1>3, <2>2, <2>3 DEF ViewSlot, ThroughView
<1> QED BY <1>4, <1>5

(* Pushing a view down makes the tip show what the view showed. *)
LEMMA MergeSlot ==
    ASSUME NEW d \in Record, NEW p \in Slot, NEW k \in Slot,
           TipSlot(d, p), ViewSlot(d, p, k)
    PROVE  /\ TipSlot(d, Merged(p, k))
           /\ ThroughTip(d, Merged(p, k)) = ThroughView(d, p, k)
<1> DEFINE m == Merged(p, k)
<1>1. CASE k = None \/ (k # None /\ ~k.dirty)
  <2>1. m = p
    BY <1>1 DEF Merged
  <2> QED BY <1>1, <2>1 DEF ViewSlot, ThroughView
<1>2. CASE k # None /\ k.dirty /\ p = None
  <2>1. k.fresh /\ Shown(d) = Pruned /\ d = None /\ k.coins \in Coins
    BY <1>2 DEF ViewSlot, ThroughTip, Shown, Record, Slot, Entry
  <2>2. CASE k.coins = Pruned
    <3>1. m = None
      BY <1>2, <2>2 DEF Merged
    <3> QED BY <1>2, <2>1, <2>2, <3>1 DEF TipSlot, ThroughTip, ThroughView
  <2>3. CASE k.coins # Pruned
    <3>1. m = [coins |-> k.coins, dirty |-> TRUE, fresh |-> TRUE]
      BY <1>2, <2>3 DEF Merged
    <3>2. m # None
      BY <2>1, <3>1, EntryIsSome
    <3>3. m.coins = k.coins /\ m.dirty
      BY <3>1
    <3> QED BY <1>2, <2>1, <3>2, <3>3 DEF TipSlot, ThroughTip, ThroughView
  <2> QED BY <2>2, <2>3
<1>3. CASE k # None /\ k.dirty /\ p # None
  <2>1. k.coins \in Coins /\ p.fresh \in BOOLEAN
    BY <1>3 DEF Slot, Entry
  <2>2. CASE p.fresh /\ k.coins = Pruned
    <3>1. m = None
      BY <1>3, <2>2 DEF Merged
    <3> QED BY <1>3, <2>2, <3>1 DEF TipSlot, ThroughTip, ThroughView, Shown
  <2>3. CASE ~(p.fresh /\ k.coins = Pruned)
    <3>1. m = [coins |-> k.coins, dirty |-> TRUE, fresh |-> p.fresh]
      BY <1>3, <2>3 DEF Merged
    <3>2. m # None
      BY <2>1, <3>1, EntryIsSome
    <3>3. m.coins = k.coins /\ m.dirty = TRUE /\ m.fresh = p.fresh
      BY <3>1
    <3> QED BY <1>3, <3>2, <3>3 DEF TipSlot, ThroughTip, ThroughView
  <2> QED BY <2>2, <2>3
<1> QED BY <1>1, <1>2, <1>3 DEF Slot, Entry

(* Writing the tip's entry makes the database show what the tip showed. *)
LEMMA WriteSlot ==
    ASSUME NEW d \in Record, NEW p \in Slot, TipSlot(d, p)
    PROVE  Shown(Written(d, p)) = ThroughTip(d, p)
<1>1. CASE p = None
  BY <1>1 DEF Written, ThroughTip
<1>2. CASE p # None /\ ~p.dirty
  BY <1>2 DEF Written, ThroughTip, TipSlot
<1>3. CASE p # None /\ p.dirty
  <2>1. p.coins \in Coins
    BY <1>3 DEF Slot, Entry
  <2> QED BY <1>3, <2>1, NoneAssumption DEF Written, ThroughTip, Shown
<1> QED BY <1>1, <1>2, <1>3

-----------------------------------------------------------------------------
(* The invariant, restated one transaction at a time. *)
Slots ==
    /\ \A t \in Txid : TipSlot(db[t], tip[t]) /\ ViewSlot(db[t], tip[t], view[t])
    /\ ClosedViewIsEmpty

(* The types of one transaction's entries. *)
LEMMA SlotTypes ==
    ASSUME TypeOK
    PROVE  \A t \in Txid : db[t] \in Record /\ tip[t] \in Slot /\ view[t] \in Slot
BY DEF TypeOK, Cache, Slot, Record

(* The coins a layer shows, slot by slot, *)
LEMMA Shows ==
    ASSUME NEW t \in Txid
    PROVE  /\ DbCoins[t] = Shown(db[t])
           /\ TipCoins[t] = ThroughTip(db[t], tip[t])
           /\ ViewCoins[t] = ThroughView(db[t], tip[t], view[t])
BY DEF DbCoins, TipCoins, ViewCoins, Shown, ThroughTip, ThroughView

(* and the same after a step. *)
LEMMA ShowsNext ==
    ASSUME NEW t \in Txid
    PROVE  /\ DbCoins'[t] = Shown(db'[t])
           /\ TipCoins'[t] = ThroughTip(db'[t], tip'[t])
           /\ ViewCoins'[t] = ThroughView(db'[t], tip'[t], view'[t])
BY DEF DbCoins, TipCoins, ViewCoins, Shown, ThroughTip, ThroughView

(* The invariants of the caches, slot by slot. *)
LEMMA SlotsInv ==
    Slots <=> /\ FreshHasNothingBelow
              /\ CleanIsUnchanged
              /\ ViewWasPulledIn
              /\ ClosedViewIsEmpty
<1>1. \A t \in Txid : /\ DbCoins[t] = Shown(db[t])
                      /\ TipCoins[t] = ThroughTip(db[t], tip[t])
  BY Shows
<1> QED BY <1>1 DEF Slots, TipSlot, ViewSlot, FreshHasNothingBelow,
                    CleanIsUnchanged, ViewWasPulledIn

(* What the actions do to the slots and to the coins each layer shows. *)
LEMMA TipFetchShows ==
    ASSUME TypeOK, Slots, NEW t \in Txid, TipFetch(t)
    PROVE  /\ Slots'
           /\ DbCoins' = DbCoins /\ TipCoins' = TipCoins /\ ViewCoins' = ViewCoins
<1>1. view = Empty /\ \A u \in Txid : view[u] = None
  BY DEF TipFetch, Slots, ClosedViewIsEmpty, Empty
<1>2. \A u \in Txid : tip'[u] = IF u = t THEN Fetched(tip[u], db[u]) ELSE tip[u]
  BY DEF TipFetch, TypeOK, Cache
<1>3. ASSUME NEW u \in Txid
      PROVE  /\ TipSlot(db[u], tip'[u])
             /\ ThroughTip(db[u], tip'[u]) = ThroughTip(db[u], tip[u])
  BY <1>2, SlotTypes, FetchTip DEF Slots
<1>4. db' = db /\ view' = view /\ viewOpen' = viewOpen
  BY DEF TipFetch
<1>5. Slots'
  BY <1>1, <1>3, <1>4 DEF Slots, ViewSlot, ClosedViewIsEmpty, Empty
<1>6. DbCoins' = DbCoins
  BY <1>4 DEF DbCoins
<1>7. \A u \in Txid : TipCoins'[u] = TipCoins[u] /\ ViewCoins'[u] = ViewCoins[u]
  BY <1>1, <1>3, <1>4, Shows, ShowsNext DEF ThroughView
<1>8. TipCoins' = TipCoins /\ ViewCoins' = ViewCoins
  BY <1>7 DEF TipCoins, ViewCoins
<1> QED BY <1>5, <1>6, <1>8

(* A read through the view shows what was there. *)
LEMMA ViewFetchShows ==
    ASSUME TypeOK, Slots, NEW t \in Txid, ViewFetch(t)
    PROVE  /\ Slots'
           /\ DbCoins' = DbCoins /\ TipCoins' = TipCoins /\ ViewCoins' = ViewCoins
<1>1. \A u \in Txid :
         /\ tip'[u] = IF u = t THEN Pulled(db[u], tip[u], view[u]) ELSE tip[u]
         /\ view'[u] = IF u = t THEN Fetched(view[u], Found(tip'[u])) ELSE view[u]
  BY DEF ViewFetch, TypeOK, Cache, TipEntry, Pulled
<1>2. ASSUME NEW u \in Txid
      PROVE  /\ TipSlot(db[u], tip'[u]) /\ ViewSlot(db[u], tip'[u], view'[u])
             /\ ThroughTip(db[u], tip'[u]) = ThroughTip(db[u], tip[u])
             /\ ThroughView(db[u], tip'[u], view'[u])
                  = ThroughView(db[u], tip[u], view[u])
  <2>1. CASE u = t
    <3>1. /\ TipSlot(db[u], tip[u]) /\ ViewSlot(db[u], tip[u], view[u])
          /\ db[u] \in Record /\ tip[u] \in Slot /\ view[u] \in Slot
      BY SlotTypes DEF Slots
    <3>2. tip'[u] = Pulled(db[u], tip[u], view[u]) /\ tip'[u] \in Slot
      BY <1>1, <2>1, <3>1, PullThrough
    <3> QED BY <1>1, <2>1, <3>1, <3>2, PullThrough, FetchView
  <2>2. CASE u # t
    BY <1>1, <2>2 DEF Slots
  <2> QED BY <2>1, <2>2
<1>3. db' = db /\ viewOpen /\ viewOpen' = viewOpen
  BY DEF ViewFetch
<1>4. Slots'
  BY <1>2, <1>3 DEF Slots, ClosedViewIsEmpty
<1>5. DbCoins' = DbCoins
  BY <1>3 DEF DbCoins
<1>6. \A u \in Txid : TipCoins'[u] = TipCoins[u] /\ ViewCoins'[u] = ViewCoins[u]
  BY <1>2, <1>3, Shows, ShowsNext
<1>7. TipCoins' = TipCoins /\ ViewCoins' = ViewCoins
  BY <1>6 DEF TipCoins, ViewCoins
<1> QED BY <1>4, <1>5, <1>7

(* A modifier changes what the view shows, and only that. *)
LEMMA ViewModifyShows ==
    ASSUME TypeOK, Slots, NEW t \in Txid, NEW c \in Coins, ViewModify(t, c)
    PROVE  /\ Slots'
           /\ DbCoins' = DbCoins /\ TipCoins' = TipCoins
           /\ ViewCoins' = [ViewCoins EXCEPT ![t] = c]
<1>1. \A u \in Txid :
         /\ tip'[u] = IF u = t THEN Pulled(db[u], tip[u], view[u]) ELSE tip[u]
         /\ view'[u] = IF u = t THEN Modified(view[u], Found(tip'[u]), c)
                                ELSE view[u]
  BY DEF ViewModify, TypeOK, Cache, TipEntry, Pulled
<1>2. ASSUME NEW u \in Txid
      PROVE  /\ TipSlot(db[u], tip'[u]) /\ ViewSlot(db[u], tip'[u], view'[u])
             /\ ThroughTip(db[u], tip'[u]) = ThroughTip(db[u], tip[u])
             /\ ThroughView(db[u], tip'[u], view'[u])
                  = IF u = t THEN c ELSE ThroughView(db[u], tip[u], view[u])
  <2>1. CASE u = t
    <3>1. /\ TipSlot(db[u], tip[u]) /\ ViewSlot(db[u], tip[u], view[u])
          /\ db[u] \in Record /\ tip[u] \in Slot /\ view[u] \in Slot
      BY SlotTypes DEF Slots
    <3>2. tip'[u] = Pulled(db[u], tip[u], view[u]) /\ tip'[u] \in Slot
      BY <1>1, <2>1, <3>1, PullThrough
    <3> QED BY <1>1, <2>1, <3>1, <3>2, PullThrough, ModifyView
  <2>2. CASE u # t
    BY <1>1, <2>2 DEF Slots
  <2> QED BY <2>1, <2>2
<1>3. db' = db /\ viewOpen /\ viewOpen' = viewOpen
  BY DEF ViewModify
<1>4. Slots'
  BY <1>2, <1>3 DEF Slots, ClosedViewIsEmpty
<1>5. DbCoins' = DbCoins
  BY <1>3 DEF DbCoins
<1>6. \A u \in Txid : /\ TipCoins'[u] = TipCoins[u]
                      /\ ViewCoins'[u] = IF u = t THEN c ELSE ViewCoins[u]
  BY <1>2, <1>3, Shows, ShowsNext
<1>7. TipCoins' = TipCoins /\ ViewCoins' = [ViewCoins EXCEPT ![t] = c]
  BY <1>6 DEF TipCoins, ViewCoins
<1> QED BY <1>4, <1>5, <1>7

(* Flushing the view makes the tip show what the view showed. *)
LEMMA FlushViewShows ==
    ASSUME TypeOK, Slots, NEW b \in Block, FlushView(b)
    PROVE  /\ Slots'
           /\ DbCoins' = DbCoins /\ TipCoins' = ViewCoins /\ ViewCoins' = ViewCoins
<1>1. \A u \in Txid : tip'[u] = Merged(tip[u], view[u]) /\ view'[u] = None
  BY DEF FlushView, Empty
<1>2. db' = db /\ view' = Empty
  BY DEF FlushView
<1>3. ASSUME NEW u \in Txid
      PROVE  /\ TipSlot(db[u], tip'[u])
             /\ ThroughTip(db[u], tip'[u]) = ThroughView(db[u], tip[u], view[u])
  BY <1>1, SlotTypes, MergeSlot DEF Slots
<1>4. Slots'
  BY <1>1, <1>2, <1>3 DEF Slots, ViewSlot, ClosedViewIsEmpty
<1>5. DbCoins' = DbCoins
  BY <1>2 DEF DbCoins
<1>6. \A u \in Txid : TipCoins'[u] = ViewCoins[u] /\ ViewCoins'[u] = ViewCoins[u]
  BY <1>1, <1>2, <1>3, Shows, ShowsNext DEF ThroughView
<1>7. TipCoins' = ViewCoins /\ ViewCoins' = ViewCoins
  BY <1>6 DEF TipCoins, ViewCoins
<1> QED BY <1>4, <1>5, <1>7

(* Dropping the view leaves the tip and the database alone. *)
LEMMA DropViewShows ==
    ASSUME TypeOK, Slots, DropView
    PROVE  /\ Slots'
           /\ DbCoins' = DbCoins /\ TipCoins' = TipCoins /\ ViewCoins' = TipCoins
<1>1. /\ db' = db /\ tip' = tip /\ view' = Empty
      /\ \A u \in Txid : view'[u] = None
  BY DEF DropView, Empty
<1>2. Slots'
  BY <1>1 DEF Slots, ViewSlot, ClosedViewIsEmpty
<1>3. DbCoins' = DbCoins
  BY <1>1 DEF DbCoins
<1>4. TipCoins' = TipCoins
  BY <1>1, <1>3 DEF TipCoins
<1>5. ViewCoins' = TipCoins
  BY <1>1, <1>4 DEF ViewCoins, TipCoins
<1> QED BY <1>2, <1>3, <1>4, <1>5

(* Flushing the tip makes the database show what the tip showed. *)
LEMMA FlushTipShows ==
    ASSUME TypeOK, Slots, FlushTip
    PROVE  /\ Slots'
           /\ DbCoins' = TipCoins /\ TipCoins' = TipCoins /\ ViewCoins' = ViewCoins
<1>1. /\ \A u \in Txid : /\ db'[u] = Written(db[u], tip[u])
                          /\ tip'[u] = None /\ view[u] = None /\ view'[u] = None
      /\ view' = Empty
  BY DEF FlushTip, Empty, Slots, ClosedViewIsEmpty
<1>2. Slots'
  BY <1>1 DEF Slots, TipSlot, ViewSlot, ClosedViewIsEmpty
<1>3. \A u \in Txid : DbCoins'[u] = TipCoins[u]
  BY <1>1, SlotTypes, WriteSlot, Shows, ShowsNext DEF Slots
<1>4. DbCoins' = TipCoins
  BY <1>3 DEF DbCoins, TipCoins
<1>5. \A u \in Txid : /\ TipCoins'[u] = DbCoins'[u]
                      /\ ViewCoins'[u] = TipCoins'[u] /\ ViewCoins[u] = TipCoins[u]
  BY <1>1, Shows, ShowsNext DEF ThroughTip, ThroughView
<1>6. TipCoins' = TipCoins /\ ViewCoins' = ViewCoins
  BY <1>3, <1>5 DEF TipCoins, ViewCoins
<1> QED BY <1>2, <1>4, <1>6

(* After a crash every layer shows the database. *)
LEMMA CrashShows ==
    ASSUME TypeOK, Slots, Crash
    PROVE  /\ Slots'
           /\ DbCoins' = DbCoins /\ TipCoins' = DbCoins /\ ViewCoins' = DbCoins
<1>1. /\ db' = db /\ view' = Empty
      /\ \A u \in Txid : tip'[u] = None /\ view'[u] = None
  BY DEF Crash, Empty
<1>2. Slots'
  BY <1>1 DEF Slots, TipSlot, ViewSlot, ClosedViewIsEmpty
<1>3. DbCoins' = DbCoins
  BY <1>1 DEF DbCoins
<1>4. TipCoins' = DbCoins
  BY <1>1, <1>3 DEF TipCoins, DbCoins
<1>5. ViewCoins' = DbCoins
  BY <1>1, <1>4 DEF ViewCoins, DbCoins
<1> QED BY <1>2, <1>3, <1>4, <1>5

-----------------------------------------------------------------------------
(* The empty caches satisfy the inductive invariant. *)
LEMMA CacheInvInit == Init => CacheInv
<1> SUFFICES ASSUME Init PROVE CacheInv
  OBVIOUS
<1>1. TypeOK
  BY TypeInit
<1>2. DbCoins = AbstractMap!AllSpent /\ TipCoins = AbstractMap!AllSpent
  BY DEF Init, Empty, DbCoins, TipCoins, AbstractMap!AllSpent
<1>3. snapshot[NullBlock] = AbstractMap!AllSpent
  BY DEF Init, AbstractMap!AllSpent
<1>4. Slots
  BY DEF Init, Empty, Slots, TipSlot, ViewSlot, ClosedViewIsEmpty
<1>5. DbIsSnapshot /\ TipIsSnapshot
  BY <1>2, <1>3 DEF Init, DbIsSnapshot, TipIsSnapshot, TipBlock
<1> QED BY <1>1, <1>4, <1>5, SlotsInv DEF CacheInv

(* The same after a step. *)
LEMMA SlotsInvNext ==
    Slots' => /\ FreshHasNothingBelow'
              /\ CleanIsUnchanged'
              /\ ViewWasPulledIn'
              /\ ClosedViewIsEmpty'
BY SlotsInv, PTL

(* Only a committed view adds a snapshot, and only one that agrees. *)
LEMMA FlushViewSnapshot ==
    ASSUME TypeOK, NEW b \in Block, FlushView(b)
    PROVE  /\ snapshot'[b] = ViewCoins
           /\ snapshot[dbBest] # None => snapshot'[dbBest] = snapshot[dbBest]
<1>1. snapshot' = [snapshot EXCEPT ![b] = ViewCoins]
  BY DEF FlushView
<1>2. b \in DOMAIN snapshot /\ dbBest \in DOMAIN snapshot
  BY DEF TypeOK
<1>3. snapshot[b] \in {None, ViewCoins}
  BY DEF FlushView
<1> QED BY <1>1, <1>2, <1>3

(* Every step keeps the inductive invariant. *)
LEMMA CacheInvNext ==
    ASSUME CacheInv, [Next]_vars
    PROVE  CacheInv'
<1>1. TypeOK /\ Slots /\ DbIsSnapshot /\ TipIsSnapshot
  BY SlotsInv DEF CacheInv
<1>2. TypeOK'
  BY <1>1, TypeNext
<1>3. SUFFICES Slots' /\ DbIsSnapshot' /\ TipIsSnapshot'
  BY <1>2, SlotsInvNext DEF CacheInv
<1>4. ASSUME NEW t \in Txid, TipFetch(t)
      PROVE  Slots' /\ DbIsSnapshot' /\ TipIsSnapshot'
  BY <1>1, <1>4, TipFetchShows DEF TipFetch, DbIsSnapshot, TipIsSnapshot, TipBlock
<1>5. ASSUME NEW t \in Txid, ViewFetch(t)
      PROVE  Slots' /\ DbIsSnapshot' /\ TipIsSnapshot'
  BY <1>1, <1>5, ViewFetchShows DEF ViewFetch, DbIsSnapshot, TipIsSnapshot, TipBlock
<1>6. ASSUME NEW t \in Txid, NEW c \in Coins, ViewModify(t, c)
      PROVE  Slots' /\ DbIsSnapshot' /\ TipIsSnapshot'
  BY <1>1, <1>6, ViewModifyShows
     DEF ViewModify, DbIsSnapshot, TipIsSnapshot, TipBlock
<1>7. CASE OpenView
  BY <1>1, <1>7 DEF OpenView, Slots, ClosedViewIsEmpty, DbIsSnapshot,
                    TipIsSnapshot, TipBlock, DbCoins, TipCoins
<1>8. ASSUME NEW b \in Block, FlushView(b)
      PROVE  Slots' /\ DbIsSnapshot' /\ TipIsSnapshot'
  <2>1. Slots' /\ DbCoins' = DbCoins /\ TipCoins' = ViewCoins
    BY <1>1, <1>8, FlushViewShows
  <2>2. DbCoins \in Map
    BY <1>1, PrunedAssumption DEF DbCoins, Map, TypeOK
  <2>3. snapshot[dbBest] # None
    BY <1>1, <2>2, MapAssumption DEF DbIsSnapshot, Map
  <2>4. DbIsSnapshot'
    BY <1>1, <1>8, <2>1, <2>3, FlushViewSnapshot DEF DbIsSnapshot, FlushView
  <2>5. tipBest' = b /\ b # NullBlock
    BY <1>8, NullAssumption DEF FlushView
  <2>6. TipIsSnapshot'
    BY <1>1, <1>8, <2>1, <2>5, FlushViewSnapshot DEF TipIsSnapshot, TipBlock
  <2> QED BY <2>1, <2>4, <2>6
<1>9. CASE DropView
  BY <1>1, <1>9, DropViewShows DEF DropView, DbIsSnapshot, TipIsSnapshot, TipBlock
<1>10. CASE FlushTip
  <2>1. Slots' /\ DbCoins' = TipCoins /\ TipCoins' = TipCoins
    BY <1>1, <1>10, FlushTipShows
  <2>2. dbBest' = TipBlock /\ TipBlock' = TipBlock /\ snapshot' = snapshot
    BY <1>10 DEF FlushTip, TipBlock
  <2> QED BY <1>1, <2>1, <2>2 DEF DbIsSnapshot, TipIsSnapshot
<1>11. CASE Crash
  <2>1. Slots' /\ DbCoins' = DbCoins /\ TipCoins' = DbCoins
    BY <1>1, <1>11, CrashShows
  <2>2. dbBest' = dbBest /\ TipBlock' = dbBest /\ snapshot' = snapshot
    BY <1>11 DEF Crash, TipBlock
  <2> QED BY <1>1, <2>1, <2>2 DEF DbIsSnapshot, TipIsSnapshot
<1>12. CASE UNCHANGED vars
  BY <1>1, <1>12 DEF vars, Slots, ClosedViewIsEmpty, DbIsSnapshot, TipIsSnapshot,
                     TipBlock, DbCoins, TipCoins
<1> QED BY <1>4, <1>5, <1>6, <1>7, <1>8, <1>9, <1>10, <1>11, <1>12 DEF Next

(* The DIRTY and FRESH flags always tell the truth, and the database and   *)
(* the tip always show exactly the coins of the block they name.           *)
THEOREM CacheCorrect == Spec => []CacheInv
<1>1. CacheInv /\ [Next]_vars => CacheInv'
  BY CacheInvNext
<1> QED BY CacheInvInit, <1>1, PTL DEF Spec

(* A crash at any instant finds the coins of one committed block.          *)
THEOREM DatabaseIsSnapshot == Spec => []DbIsSnapshot
<1>1. CacheInv => DbIsSnapshot
  BY DEF CacheInv
<1> QED BY <1>1, CacheCorrect, PTL

(* The tip shows the coins of the block GetBestBlock names.                *)
THEOREM TipIsConsistent == Spec => []TipIsSnapshot
<1>1. CacheInv => TipIsSnapshot
  BY DEF CacheInv
<1> QED BY <1>1, CacheCorrect, PTL

(* The assertion in CCoinsViewCache::BatchWrite cannot fail.               *)
THEOREM BatchWriteSafe == Spec => []BatchWriteAssert
<1>1. CacheInv => BatchWriteAssert
  BY DEF CacheInv, ViewWasPulledIn, BatchWriteAssert
<1> QED BY <1>1, CacheCorrect, PTL

-----------------------------------------------------------------------------
(* Refinement: each cache operation is one of the map's, or changes none   *)
(* of the coins a caller can see.                                          *)
LEMMA MapInit == Init => AbstractMap!Init
<1> SUFFICES ASSUME Init PROVE AbstractMap!Init
  OBVIOUS
<1>1. /\ DbCoins = AbstractMap!AllSpent
      /\ TipCoins = AbstractMap!AllSpent
      /\ ViewCoins = AbstractMap!AllSpent
  BY DEF Init, Empty, DbCoins, TipCoins, ViewCoins, AbstractMap!AllSpent
<1> QED BY <1>1 DEF Init, AbstractMap!Init, TipBlock

(* Every step of the caches is a step of the map, or changes nothing of    *)
(* it.                                                                     *)
LEMMA MapNext ==
    ASSUME CacheInv, [Next]_vars
    PROVE  [AbstractMap!Next]_(AbstractMap!vars)
<1>1. TypeOK /\ Slots
  BY SlotsInv DEF CacheInv
<1>2. ASSUME NEW t \in Txid, TipFetch(t) PROVE UNCHANGED AbstractMap!vars
  BY <1>1, <1>2, TipFetchShows DEF TipFetch, AbstractMap!vars, TipBlock
<1>3. ASSUME NEW t \in Txid, ViewFetch(t) PROVE UNCHANGED AbstractMap!vars
  BY <1>1, <1>3, ViewFetchShows DEF ViewFetch, AbstractMap!vars, TipBlock
<1>4. ASSUME NEW t \in Txid, NEW c \in Coins, ViewModify(t, c)
      PROVE  AbstractMap!Edit(t, c)
  BY <1>1, <1>4, ViewModifyShows DEF ViewModify, AbstractMap!Edit, TipBlock
<1>5. ASSUME OpenView PROVE AbstractMap!Begin
  <2>1. view = Empty
    BY <1>1, <1>5 DEF OpenView, Slots, ClosedViewIsEmpty
  <2>2. ViewCoins = TipCoins
    BY <2>1 DEF ViewCoins, TipCoins, Empty
  <2>3. DbCoins' = DbCoins /\ TipCoins' = TipCoins /\ ViewCoins' = ViewCoins
    BY <1>5 DEF OpenView, DbCoins, TipCoins, ViewCoins
  <2> QED BY <1>5, <2>2, <2>3 DEF OpenView, AbstractMap!Begin, TipBlock
<1>6. ASSUME NEW b \in Block, FlushView(b) PROVE AbstractMap!Commit(b)
  <2>1. tipBest' = b /\ b # NullBlock
    BY <1>6, NullAssumption DEF FlushView
  <2>2. TipBlock' = b
    BY <2>1 DEF TipBlock
  <2> QED BY <1>1, <1>6, <2>2, FlushViewShows DEF FlushView, AbstractMap!Commit
<1>7. ASSUME DropView PROVE AbstractMap!Forget
  BY <1>1, <1>7, DropViewShows DEF DropView, AbstractMap!Forget, TipBlock
<1>8. ASSUME FlushTip PROVE AbstractMap!Persist
  <2>1. dbBest' = TipBlock /\ TipBlock' = TipBlock
    BY <1>8 DEF FlushTip, TipBlock
  <2> QED BY <1>1, <1>8, <2>1, FlushTipShows DEF FlushTip, AbstractMap!Persist
<1>9. ASSUME Crash PROVE AbstractMap!Restart
  <2>1. TipBlock' = dbBest /\ dbBest' = dbBest
    BY <1>9 DEF Crash, TipBlock
  <2> QED BY <1>1, <1>9, <2>1, CrashShows DEF Crash, AbstractMap!Restart
<1>10. ASSUME UNCHANGED vars PROVE UNCHANGED AbstractMap!vars
  BY <1>10 DEF vars, AbstractMap!vars, DbCoins, TipCoins, ViewCoins, TipBlock
<1> QED BY <1>2, <1>3, <1>4, <1>5, <1>6, <1>7, <1>8, <1>9, <1>10
        DEF Next, AbstractMap!Next

(* The caches over the database implement one map with atomic drafts and a *)
(* durable copy, whatever is cached, erased or fresh.                      *)
THEOREM CachesImplementMap == Spec => ImplementsMap
<1>1. CacheInv /\ [Next]_vars => [AbstractMap!Next]_(AbstractMap!vars)
  BY MapNext
<1> QED BY <1>1, MapInit, CacheCorrect, PTL
        DEF Spec, ImplementsMap, AbstractMap!Spec
=============================================================================
