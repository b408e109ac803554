------------------------- MODULE ConnectBlockProofs -------------------------
(* Proofs about what ConnectBlock rests on.  First CheckQueue, which runs   *)
(* the scripts of its inputs, for any number of workers and checks and any  *)
(* batch size: how many checks a batch takes plays no part, as long as it   *)
(* takes one.  Then Ledger: the coins that blocks are connected to and      *)
(* taken off from, the orphans that the handler of "tx" goes through, and   *)
(* the pool, for all transactions and trees of blocks.                      *)
EXTENDS CheckQueue, Ledger, Integers, FiniteSetTheorems, SequenceTheorems,
        WellFoundedInduction, TLAPS

Asleep == {t \in Thread : pc[t] \in {"sleeping", "woken"}}

(* Where the threads are, and that the ones at work are those with checks. *)
ThreadsInPlace ==
    /\ \A t \in Thread : pc[t] = "working" <=> batch[t] # {}
    /\ \A t \in Thread : pc[t] = "working" => left[t] \subseteq batch[t]
    /\ stage \in {"out", "adding"} => pc[Master] = "out"
    /\ InWait => pc[Master] \in {"enter", "sleeping", "woken", "working"}
    /\ \A w \in Worker : pc[w] # "out"

(* A thread that waits is counted in nIdle. *)
AsleepIsIdle == nIdle >= Cardinality(Asleep)

(* fAllOk and the results of the batches tell what has been run so far.    *)
VerdictSoFar ==
    /\ stage # "out" =>
          IF fAllOk THEN added \ Outstanding \subseteq Valid ELSE ~(added \subseteq Valid)
    /\ \A t \in Busy :
          IF fOk[t] THEN batch[t] \ left[t] \subseteq Valid ELSE ~(added \subseteq Valid)

(* Between two blocks the queue is as at the start. *)
BetweenBlocks ==
    /\ AssertHolds /\ VerdictIsConjunction
    /\ stage = "out" => nTodo = 0 /\ fAllOk
    /\ verdict # "none" => stage = "out"

QueueInv ==
    /\ TodoIsOutstanding /\ Outstanding \subseteq added
    /\ BusyIsNotIdle /\ AsleepIsIdle
    /\ ThreadsInPlace
    /\ VerdictSoFar
    /\ BetweenBlocks

IInv == TypeOK /\ QueueInv

USE ThreadAssumption, CheckAssumption, BatchAssumption

-----------------------------------------------------------------------------
(* The sets that are counted are finite. *)
LEMMA ThreadsFinite ==
    /\ IsFiniteSet(Thread) /\ IsFiniteSet(Busy) /\ IsFiniteSet(Asleep)
    /\ \A S \in SUBSET Thread : IsFiniteSet(S) /\ Cardinality(S) \in Nat
    /\ \A S \in SUBSET Check : IsFiniteSet(S) /\ Cardinality(S) \in Nat
<1>1. IsFiniteSet(Thread)
  BY FS_AddElement DEF Thread
<1>2. \A S \in SUBSET Thread : IsFiniteSet(S) /\ Cardinality(S) \in Nat
  BY <1>1, FS_Subset, FS_CardinalityType
<1>3. \A S \in SUBSET Check : IsFiniteSet(S) /\ Cardinality(S) \in Nat
  BY FS_Subset, FS_CardinalityType
<1>4. Busy \in SUBSET Thread /\ Asleep \in SUBSET Thread
  BY DEF Busy, Asleep
<1> QED BY <1>1, <1>2, <1>3, <1>4

(* When nothing is left to do, nobody has a check. *)
LEMMA NothingOutstanding ==
    ASSUME IInv, nTodo = 0
    PROVE  /\ Outstanding = {} /\ queue = {} /\ Busy = {}
           /\ \A t \in Thread : batch[t] = {} /\ pc[t] # "working"
<1>1. Outstanding \in SUBSET Check
  BY DEF IInv, TypeOK, Outstanding
<1>2. IsFiniteSet(Outstanding)
  BY <1>1, ThreadsFinite
<1>3. Cardinality(Outstanding) = 0
  BY DEF IInv, QueueInv, TodoIsOutstanding
<1>4. Outstanding = {}
  BY <1>2, <1>3, FS_EmptySet
<1>5. queue = {} /\ \A t \in Thread : batch[t] = {}
  BY <1>4 DEF Outstanding
<1> QED BY <1>4, <1>5 DEF Busy, IInv, QueueInv, ThreadsInPlace

(* A batch takes at least one check. *)
LEMMA BatchNotEmpty ==
    ASSUME NEW total \in Nat, NEW idle \in Nat, TypeOK
    PROVE  BatchCount(total, idle) \in Nat \ {0}
<1> DEFINE share == Cardinality(queue) \div (total + idle + 1)
<1>1. Cardinality(queue) \in Nat
  BY ThreadsFinite DEF TypeOK
<1>2. share \in Int
  BY <1>1
<1> HIDE DEF share
<1>3. BatchCount(total, idle) = IF share < 1 THEN 1 ELSE IF share > BatchSize THEN BatchSize ELSE share
  BY DEF BatchCount, share
<1> QED BY <1>2, <1>3

(* Cardinalities of disjoint parts add up. *)
LEMMA Parts ==
    ASSUME NEW S, NEW T \in SUBSET S, IsFiniteSet(S)
    PROVE  /\ Cardinality(S) = Cardinality(T) + Cardinality(S \ T)
           /\ IsFiniteSet(T) /\ IsFiniteSet(S \ T)
           /\ Cardinality(T) \in Nat /\ Cardinality(S \ T) \in Nat
<1>1. IsFiniteSet(T) /\ IsFiniteSet(S \ T)
  BY FS_Subset
<1>2. Cardinality(T) \in Nat /\ Cardinality(S \ T) \in Nat /\ Cardinality(S) \in Nat
  BY <1>1, FS_CardinalityType
<1>3. S \cap T = T
  OBVIOUS
<1>4. Cardinality(S \ T) = Cardinality(S) - Cardinality(T)
  BY <1>3, FS_Difference
<1> QED BY <1>1, <1>2, <1>4

-----------------------------------------------------------------------------
(* What is left when t has handed in its batch, and the values the rest of *)
(* the critical section starts from.                                       *)
Rest(t) == queue \cup UNION {batch[u] : u \in Thread \ {t}}

MasterWoken(t, pcs) ==
    pcs \in {pc, [pc EXCEPT ![Master] = "woken"]}
        /\ (pcs # pc => t # Master /\ pc[Master] = "sleeping")

Ready(t, pcs, todo, ok, total, idle) ==
    /\ MasterWoken(t, pcs)
    /\ todo = Cardinality(Rest(t))
    /\ total \in Nat /\ idle \in Nat /\ total >= 1
    /\ total - idle = Cardinality(Busy \ {t}) + 1
    /\ idle >= Cardinality(Asleep \ {t})
    /\ pc[t] \in {"enter", "woken", "working"}
    /\ ok \in BOOLEAN
    /\ stage # "out" =>
          IF ok THEN added \ Rest(t) \subseteq Valid ELSE ~(added \subseteq Valid)
    /\ stage = "out" => ok

(* Nothing but t's batch leaves Outstanding in a critical section. *)
LEMMA RestFacts ==
    ASSUME IInv, NEW t \in Thread
    PROVE  /\ Rest(t) \in SUBSET Check /\ Rest(t) \subseteq added
           /\ Outstanding = Rest(t) \cup batch[t]
           /\ Rest(t) \cap batch[t] = {}
           /\ Cardinality(Rest(t)) \in Nat
           /\ Cardinality(Rest(t)) = 0 => Rest(t) = {}
<1>1. Rest(t) \in SUBSET Check
  BY DEF IInv, TypeOK, Rest
<1>2. Outstanding = Rest(t) \cup batch[t]
  BY DEF Outstanding, Rest
<1>3. Rest(t) \cap batch[t] = {}
  BY DEF IInv, QueueInv, TodoIsOutstanding, Rest
<1>4. Rest(t) \subseteq added
  BY <1>2 DEF IInv, QueueInv
<1> QED BY <1>1, <1>2, <1>3, <1>4, ThreadsFinite, FS_EmptySet

(* A batch handed in and no new one taken. *)
LEMMA HandInCounts ==
    ASSUME IInv, NEW t \in Thread, queue' = queue,
           batch' = [batch EXCEPT ![t] = {}], nTodo' = Cardinality(Rest(t))
    PROVE  TodoIsOutstanding' /\ Outstanding' = Rest(t)
<1> USE DEF IInv, TypeOK
<1>1. Outstanding' = Rest(t)
  <2>1. \A u \in Thread : batch'[u] = IF u = t THEN {} ELSE batch[u]
    OBVIOUS
  <2> QED BY <2>1 DEF Outstanding, Rest
<1> QED BY <1>1 DEF QueueInv, TodoIsOutstanding

(* A new batch comes out of the queue. *)
LEMMA TakeCounts ==
    ASSUME IInv, NEW t \in Thread, NEW S \in SUBSET queue, queue' = queue \ S,
           batch' = [batch EXCEPT ![t] = S], nTodo' = Cardinality(Rest(t))
    PROVE  TodoIsOutstanding' /\ Outstanding' = Rest(t)
<1> USE DEF IInv, TypeOK
<1>0. \A u \in Thread : batch'[u] = IF u = t THEN S ELSE batch[u]
  OBVIOUS
<1>1. Outstanding' = Rest(t)
  BY <1>0 DEF Outstanding, Rest
<1>2. \A u, v \in Thread : batch'[u] \cap queue' = {} /\ (u # v => batch'[u] \cap batch'[v] = {})
  BY <1>0 DEF QueueInv, TodoIsOutstanding
<1> QED BY <1>1, <1>2 DEF TodoIsOutstanding

(* Which threads work and sleep after a step of t. *)
LEMMA PlacesAfter ==
    ASSUME IInv, NEW t \in Thread, NEW pcs, NEW where, MasterWoken(t, pcs),
           pc' = [pcs EXCEPT ![t] = where]
    PROVE  /\ where = "working" => Busy' = (Busy \ {t}) \cup {t}
           /\ where # "working" => Busy' = Busy \ {t}
           /\ \A u \in Thread \ {t} :
                  /\ pc'[u] \in {pc[u], "woken"}
                  /\ pc'[u] = "working" <=> pc[u] = "working"
                  /\ pc'[u] = pc[u] \/ (u = Master /\ pc[u] = "sleeping" /\ pc'[u] = "woken")
           /\ pc'[t] = where
<1> USE DEF IInv, TypeOK
<1>1. pcs \in [Thread -> {"out", "enter", "sleeping", "woken", "working", "gone"}]
  BY DEF MasterWoken, Thread
<1>2. \A u \in Thread \ {t} :
        pcs[u] = pc[u] \/ (u = Master /\ pc[u] = "sleeping" /\ pcs[u] = "woken")
  BY DEF MasterWoken, Thread
<1>3. \A u \in Thread \ {t} : pc'[u] = pcs[u]
  BY <1>1
<1>4. pc'[t] = where
  BY <1>1
<1> QED BY <1>2, <1>3, <1>4 DEF Busy

(* Which threads wait after a step of t. *)
LEMMA AsleepAfter ==
    ASSUME IInv, NEW t \in Thread, NEW pcs, NEW where, MasterWoken(t, pcs),
           pc' = [pcs EXCEPT ![t] = where]
    PROVE  /\ where = "sleeping" => Asleep' = (Asleep \ {t}) \cup {t}
           /\ where \in {"out", "enter", "gone", "working"} => Asleep' = Asleep \ {t}
<1>1. /\ pc'[t] = where
      /\ \A u \in Thread \ {t} :
            pc'[u] = pc[u] \/ (u = Master /\ pc[u] = "sleeping" /\ pc'[u] = "woken")
  BY PlacesAfter
<1> QED BY <1>1 DEF Asleep

(* The counts of busy and sleeping threads without t, and with t put back. *)
LEMMA CountsWithout ==
    ASSUME IInv, NEW t \in Thread
    PROVE  /\ Cardinality(Busy \ {t}) \in Nat /\ Cardinality(Asleep \ {t}) \in Nat
           /\ Cardinality((Busy \ {t}) \cup {t}) = Cardinality(Busy \ {t}) + 1
           /\ Cardinality((Asleep \ {t}) \cup {t}) = Cardinality(Asleep \ {t}) + 1
           /\ pc[t] = "working" => Cardinality(Busy) = Cardinality(Busy \ {t}) + 1
           /\ pc[t] # "working" => Cardinality(Busy) = Cardinality(Busy \ {t})
           /\ pc[t] = "woken" => Cardinality(Asleep) = Cardinality(Asleep \ {t}) + 1
           /\ pc[t] # "woken" /\ pc[t] # "sleeping" =>
                 Cardinality(Asleep) = Cardinality(Asleep \ {t})
<1>1. /\ IsFiniteSet(Busy \ {t}) /\ Cardinality(Busy \ {t}) \in Nat
      /\ IsFiniteSet(Asleep \ {t}) /\ Cardinality(Asleep \ {t}) \in Nat
  BY ThreadsFinite, FS_RemoveElement, FS_CardinalityType
<1>2. /\ Cardinality((Busy \ {t}) \cup {t}) = Cardinality(Busy \ {t}) + 1
      /\ Cardinality((Asleep \ {t}) \cup {t}) = Cardinality(Asleep \ {t}) + 1
  BY <1>1, FS_AddElement
<1>3. /\ t \in Busy <=> pc[t] = "working"
      /\ t \in Asleep <=> pc[t] \in {"sleeping", "woken"}
  BY DEF Busy, Asleep
<1>4. /\ Cardinality(Busy \ {t}) =
             IF t \in Busy THEN Cardinality(Busy) - 1 ELSE Cardinality(Busy)
      /\ Cardinality(Asleep \ {t}) =
             IF t \in Asleep THEN Cardinality(Asleep) - 1 ELSE Cardinality(Asleep)
      /\ Cardinality(Busy) \in Nat /\ Cardinality(Asleep) \in Nat
  BY ThreadsFinite, FS_RemoveElement, FS_CardinalityType
<1>5. /\ t \in Busy => Cardinality(Busy) = Cardinality(Busy \ {t}) + 1
      /\ t \notin Busy => Cardinality(Busy) = Cardinality(Busy \ {t})
      /\ t \in Asleep => Cardinality(Asleep) = Cardinality(Asleep \ {t}) + 1
      /\ t \notin Asleep => Cardinality(Asleep) = Cardinality(Asleep \ {t})
  BY <1>4
<1> QED BY <1>1, <1>2, <1>3, <1>5

(* The results of the other threads' batches stand. *)
LEMMA OthersVerdict ==
    ASSUME IInv, NEW t \in Thread, NEW u \in Busy', u # t,
           pc'[u] = "working" <=> pc[u] = "working",
           batch'[u] = batch[u], left'[u] = left[u], fOk'[u] = fOk[u],
           added' = added
    PROVE  IF fOk'[u] THEN batch'[u] \ left'[u] \subseteq Valid ELSE ~(added' \subseteq Valid)
BY DEF IInv, QueueInv, VerdictSoFar, Busy

(* The end of Wait leaves the queue as it was at the start. *)
LEMMA LeaveInv ==
    ASSUME IInv, NEW t \in Thread, NEW pcs, NEW todo, NEW ok, NEW total, NEW idle,
           Ready(t, pcs, todo, ok, total, idle), Leave(t, pcs, todo, ok, total, idle)
    PROVE  IInv'
<1> USE DEF Leave, Done, AllOkAfter
<1>0. /\ Rest(t) = {} /\ t = Master /\ todo = 0
  BY RestFacts DEF Ready
<1>1. TodoIsOutstanding' /\ Outstanding' = {}
  BY <1>0, HandInCounts, RestFacts DEF Ready
<1>2. /\ Busy' = Busy \ {t} /\ Asleep' = Asleep \ {t} /\ pc'[t] = "out"
      /\ \A u \in Thread \ {t} : pc'[u] \in {pc[u], "woken"} /\ (pc'[u] = "working" <=> pc[u] = "working")
  <2>1. MasterWoken(t, pcs) /\ pc' = [pcs EXCEPT ![t] = "out"]
    BY DEF Ready
  <2>2. Busy' = Busy \ {t}
    BY <2>1, PlacesAfter
  <2>3. Asleep' = Asleep \ {t}
    BY <2>1, AsleepAfter
  <2>4. pc'[t] = "out"
    BY <2>1, PlacesAfter
  <2>5. \A u \in Thread \ {t} : pc'[u] \in {pc[u], "woken"} /\ (pc'[u] = "working" <=> pc[u] = "working")
    BY <2>1, PlacesAfter
  <2> QED BY <2>2, <2>3, <2>4, <2>5
<1>3. BusyIsNotIdle' /\ AsleepIsIdle'
  <2>1. /\ Cardinality(Busy \ {t}) \in Nat /\ Cardinality(Asleep \ {t}) \in Nat
    BY CountsWithout
  <2>2. /\ Cardinality(Busy)' = Cardinality(Busy \ {t})
        /\ Cardinality(Asleep)' = Cardinality(Asleep \ {t})
    BY <1>2
  <2> QED BY <2>1, <2>2 DEF Ready, BusyIsNotIdle, AsleepIsIdle
<1>4. TypeOK'
  <2>1. pc' \in [Thread -> {"out", "enter", "sleeping", "woken", "working", "gone"}]
    BY DEF Ready, MasterWoken, IInv, TypeOK, Thread
  <2>2. batch' \in [Thread -> SUBSET Check]
    BY DEF IInv, TypeOK
  <2>3. nTotal' \in Nat /\ nIdle' \in Nat /\ nTodo' \in Nat
    BY <1>0 DEF Ready
  <2>4. verdict' \in {"none", "valid", "invalid"}
    OBVIOUS
  <2> QED BY <2>1, <2>2, <2>3, <2>4 DEF IInv, TypeOK
<1>5. \A u \in Thread : batch'[u] = {} /\ pc'[u] # "working"
  <2>1. \A u \in Thread : batch'[u] = {}
    BY <1>1 DEF Outstanding
  <2>2. \A u \in Thread \ {t} : batch[u] = {}
    BY <1>0 DEF Rest
  <2> QED BY <1>2, <2>1, <2>2 DEF IInv, QueueInv, ThreadsInPlace
<1>6. ThreadsInPlace'
  BY <1>0, <1>2, <1>5 DEF ThreadsInPlace, InWait, IInv, QueueInv, Thread
<1>7. VerdictSoFar'
  BY <1>5 DEF VerdictSoFar, Busy
<1>8. BetweenBlocks'
  <2>1. CASE stage = "waiting"
    <3>1. ok <=> added \subseteq Valid
      BY <1>0, <2>1 DEF Ready
    <3> QED BY <1>0, <2>1, <3>1 DEF BetweenBlocks, AssertHolds, VerdictIsConjunction
  <2>2. CASE stage # "waiting"
    BY <1>0, <2>2 DEF BetweenBlocks, AssertHolds, VerdictIsConjunction
  <2> QED BY <2>1, <2>2
<1> QED BY <1>1, <1>3, <1>4, <1>6, <1>7, <1>8 DEF IInv, QueueInv

(* A thread that waits, or is interrupted where it waits, hands in its     *)
(* batch and takes none.                                                   *)
LEMMA WaitsInv ==
    ASSUME IInv, NEW t \in Thread, NEW pcs, NEW todo, NEW ok, NEW total, NEW idle,
           Ready(t, pcs, todo, ok, total, idle),
           NEW where \in {"sleeping", "enter", "gone"},
           nTodo' = todo, nTotal' = total, nIdle' = idle + 1, fAllOk' = ok,
           batch' = [batch EXCEPT ![t] = {}], pc' = [pcs EXCEPT ![t] = where],
           UNCHANGED <<queue, left, fOk, added, verdict>>,
           pending' \subseteq Thread, shutdown' \in BOOLEAN,
           \/ stage' = stage /\ (t = Master => where # "gone")
           \/ /\ t = Master /\ where = "enter" /\ stage' = "unwinding"
           \/ /\ t = Master /\ stage' = "terminated"
    PROVE  IInv'
<1>0. stage \in {"out", "adding"} => t # Master
  BY DEF Ready, IInv, QueueInv, ThreadsInPlace
<1>1. TodoIsOutstanding' /\ Outstanding' = Rest(t)
  BY HandInCounts DEF Ready
<1>2. Outstanding' \subseteq added' /\ nTodo' \in Nat
  BY <1>1, RestFacts DEF Ready
<1>3. BusyIsNotIdle' /\ AsleepIsIdle'
  <2>1. MasterWoken(t, pcs)
    BY DEF Ready
  <2>2. Busy' = Busy \ {t}
    BY <2>1, PlacesAfter
  <2>3. Asleep' = Asleep \ {t} \/ Asleep' = (Asleep \ {t}) \cup {t}
    BY <2>1, AsleepAfter
  <2>4. /\ Cardinality(Busy \ {t}) \in Nat /\ Cardinality(Asleep \ {t}) \in Nat
        /\ Cardinality((Asleep \ {t}) \cup {t}) = Cardinality(Asleep \ {t}) + 1
    BY CountsWithout
  <2>5. Cardinality(Busy)' = Cardinality(Busy \ {t})
    BY <2>2
  <2>6. Cardinality(Asleep)' \in {Cardinality(Asleep \ {t}), Cardinality(Asleep \ {t}) + 1}
    BY <2>3, <2>4
  <2> QED BY <2>4, <2>5, <2>6 DEF Ready, BusyIsNotIdle, AsleepIsIdle
<1>4. TypeOK'
  <2>1. pc' \in [Thread -> {"out", "enter", "sleeping", "woken", "working", "gone"}]
    BY DEF Ready, MasterWoken, IInv, TypeOK, Thread
  <2>2. batch' \in [Thread -> SUBSET Check]
    BY DEF IInv, TypeOK
  <2>3. nTotal' \in Nat /\ nIdle' \in Nat /\ fAllOk' \in BOOLEAN
    BY DEF Ready
  <2> QED BY <1>2, <2>1, <2>2, <2>3 DEF IInv, TypeOK
<1>5. /\ pc'[t] = where
      /\ \A u \in Thread \ {t} :
            /\ pc'[u] \in {pc[u], "woken"}
            /\ pc'[u] = "working" <=> pc[u] = "working"
            /\ pc'[u] = pc[u] \/ (u = Master /\ pc[u] = "sleeping" /\ pc'[u] = "woken")
      /\ batch'[t] = {} /\ \A u \in Thread \ {t} : batch'[u] = batch[u]
  <2>1. MasterWoken(t, pcs)
    BY DEF Ready
  <2>2. batch'[t] = {} /\ \A u \in Thread \ {t} : batch'[u] = batch[u]
    BY DEF IInv, TypeOK
  <2> QED BY <2>1, <2>2, PlacesAfter
<1>6. ThreadsInPlace'
  <2>1. \A u \in Thread : pc'[u] = "working" <=> batch'[u] # {}
    BY <1>5 DEF IInv, QueueInv, ThreadsInPlace
  <2>2. \A u \in Thread : pc'[u] = "working" => left'[u] \subseteq batch'[u]
    BY <1>5 DEF IInv, QueueInv, ThreadsInPlace
  <2>3. stage' \in {"out", "adding"} => pc'[Master] = "out"
    BY <1>0, <1>5 DEF IInv, QueueInv, ThreadsInPlace, Thread
  <2>4. InWait' => pc'[Master] \in {"enter", "sleeping", "woken", "working"}
    BY <1>0, <1>5 DEF IInv, QueueInv, ThreadsInPlace, Thread, InWait
  <2>5. \A w \in Worker : pc'[w] # "out"
    BY <1>5 DEF IInv, QueueInv, ThreadsInPlace, Thread
  <2> QED BY <2>1, <2>2, <2>3, <2>4, <2>5 DEF ThreadsInPlace
<1>7. VerdictSoFar'
  <2>1. stage' # "out" => stage # "out"
    BY <1>0
  <2>2. stage' # "out" =>
          IF fAllOk' THEN added' \ Outstanding' \subseteq Valid ELSE ~(added' \subseteq Valid)
    BY <1>1, <2>1 DEF Ready
  <2>3. \A u \in Busy' :
          IF fOk'[u] THEN batch'[u] \ left'[u] \subseteq Valid ELSE ~(added' \subseteq Valid)
    BY <1>5, OthersVerdict DEF Busy
  <2> QED BY <2>2, <2>3 DEF VerdictSoFar
<1>8. BetweenBlocks'
  <2>1. CASE stage = "out"
    <3>1. t # Master /\ stage' = stage
      BY <1>0, <2>1
    <3>2. Outstanding = {}
      BY <2>1, NothingOutstanding DEF IInv, QueueInv, BetweenBlocks
    <3>3. nTodo' = 0
      BY <3>2, RestFacts, FS_EmptySet DEF Ready
    <3> QED BY <2>1, <3>1, <3>3
            DEF Ready, IInv, QueueInv, BetweenBlocks, AssertHolds, VerdictIsConjunction
  <2>2. CASE stage # "out"
    BY <2>2 DEF IInv, QueueInv, BetweenBlocks, AssertHolds, VerdictIsConjunction
  <2> QED BY <2>1, <2>2
<1> QED BY <1>1, <1>2, <1>3, <1>4, <1>6, <1>7, <1>8 DEF IInv, QueueInv

(* A thread that takes a batch from the queue. *)
LEMMA TakeInv ==
    ASSUME IInv, NEW t \in Thread, NEW pcs, NEW todo, NEW ok, NEW total, NEW idle,
           Ready(t, pcs, todo, ok, total, idle), Take(t, pcs, todo, ok, total, idle)
    PROVE  IInv'
<1>1. PICK S \in SUBSET queue :
        /\ queue # {} /\ Cardinality(S) = BatchCount(total, idle)
        /\ queue' = queue \ S
        /\ batch' = [batch EXCEPT ![t] = S]
        /\ left' = [left EXCEPT ![t] = S]
        /\ fOk' = [fOk EXCEPT ![t] = ok]
        /\ nTotal' = total /\ nIdle' = idle /\ nTodo' = todo
        /\ fAllOk' = ok
        /\ pc' = [pcs EXCEPT ![t] = "working"]
        /\ UNCHANGED <<block, pending, shutdown>>
  BY DEF Take
<1>2. S # {}
  <2>1. Cardinality(S) # 0
    BY <1>1, BatchNotEmpty DEF Ready, IInv
  <2> QED BY <2>1, FS_EmptySet
<1>3. TodoIsOutstanding' /\ Outstanding' = Rest(t)
  BY <1>1, TakeCounts DEF Ready
<1>4. UNCHANGED <<stage, added, verdict>>
  BY <1>1 DEF block
<1>5. Outstanding' \subseteq added' /\ nTodo' \in Nat
  BY <1>1, <1>3, <1>4, RestFacts DEF Ready
<1>6. BusyIsNotIdle' /\ AsleepIsIdle'
  <2>1. MasterWoken(t, pcs)
    BY DEF Ready
  <2>2. Busy' = (Busy \ {t}) \cup {t}
    BY <1>1, <2>1, PlacesAfter
  <2>3. Asleep' = Asleep \ {t}
    BY <1>1, <2>1, AsleepAfter
  <2>4. /\ Cardinality(Busy \ {t}) \in Nat /\ Cardinality(Asleep \ {t}) \in Nat
        /\ Cardinality((Busy \ {t}) \cup {t}) = Cardinality(Busy \ {t}) + 1
    BY CountsWithout
  <2>5. Cardinality(Busy)' = Cardinality(Busy \ {t}) + 1
    BY <2>2, <2>4
  <2>6. Cardinality(Asleep)' = Cardinality(Asleep \ {t})
    BY <2>3
  <2> QED BY <1>1, <2>4, <2>5, <2>6 DEF Ready, BusyIsNotIdle, AsleepIsIdle
<1>7. TypeOK'
  <2>1. pc' \in [Thread -> {"out", "enter", "sleeping", "woken", "working", "gone"}]
    BY <1>1 DEF Ready, MasterWoken, IInv, TypeOK, Thread
  <2>2. /\ batch' \in [Thread -> SUBSET Check] /\ left' \in [Thread -> SUBSET Check]
        /\ queue' \subseteq Check
    BY <1>1 DEF IInv, TypeOK
  <2>3. /\ nTotal' \in Nat /\ nIdle' \in Nat /\ fAllOk' \in BOOLEAN
    BY <1>1 DEF Ready
  <2>4. fOk' \in [Thread -> BOOLEAN]
    BY <1>1 DEF Ready, IInv, TypeOK
  <2> QED BY <1>1, <1>4, <1>5, <2>1, <2>2, <2>3, <2>4 DEF IInv, TypeOK
<1>8. /\ pc'[t] = "working"
      /\ \A u \in Thread \ {t} :
            /\ pc'[u] \in {pc[u], "woken"}
            /\ pc'[u] = "working" <=> pc[u] = "working"
            /\ pc'[u] = pc[u] \/ (u = Master /\ pc[u] = "sleeping" /\ pc'[u] = "woken")
      /\ batch'[t] = S /\ left'[t] = S /\ fOk'[t] = ok
      /\ \A u \in Thread \ {t} :
            batch'[u] = batch[u] /\ left'[u] = left[u] /\ fOk'[u] = fOk[u]
  <2>1. MasterWoken(t, pcs)
    BY DEF Ready
  <2>2. /\ batch'[t] = S /\ left'[t] = S /\ fOk'[t] = ok
        /\ \A u \in Thread \ {t} :
              batch'[u] = batch[u] /\ left'[u] = left[u] /\ fOk'[u] = fOk[u]
    BY <1>1 DEF IInv, TypeOK
  <2> QED BY <1>1, <2>1, <2>2, PlacesAfter
<1>9. stage # "out"
  <2>1. queue # {}
    BY <1>1
  <2> QED BY <2>1, NothingOutstanding DEF IInv, QueueInv, BetweenBlocks
<1>10. ThreadsInPlace'
  <2>1. \A u \in Thread : pc'[u] = "working" <=> batch'[u] # {}
    BY <1>2, <1>8 DEF IInv, QueueInv, ThreadsInPlace
  <2>2. \A u \in Thread : pc'[u] = "working" => left'[u] \subseteq batch'[u]
    BY <1>8 DEF IInv, QueueInv, ThreadsInPlace
  <2>3. t = Master => stage \notin {"out", "adding"}
    BY DEF Ready, IInv, QueueInv, ThreadsInPlace
  <2> QED BY <1>4, <1>8, <2>1, <2>2, <2>3
          DEF IInv, QueueInv, ThreadsInPlace, Thread, InWait
<1>11. VerdictSoFar'
  <2>1. IF fAllOk' THEN added' \ Outstanding' \subseteq Valid ELSE ~(added' \subseteq Valid)
    BY <1>1, <1>3, <1>4, <1>9 DEF Ready
  <2>2. ASSUME NEW u \in Busy'
        PROVE  IF fOk'[u] THEN batch'[u] \ left'[u] \subseteq Valid ELSE ~(added' \subseteq Valid)
    <3>1. CASE u = t
      BY <1>4, <1>8, <1>9, <3>1 DEF Ready
    <3>2. CASE u # t
      BY <1>4, <1>8, <2>2, <3>2, OthersVerdict DEF Busy
    <3> QED BY <3>1, <3>2
  <2> QED BY <2>1, <2>2 DEF VerdictSoFar
<1>12. BetweenBlocks'
  BY <1>4, <1>9 DEF IInv, QueueInv, BetweenBlocks, AssertHolds, VerdictIsConjunction
<1> QED BY <1>3, <1>5, <1>6, <1>7, <1>10, <1>11, <1>12 DEF IInv, QueueInv

(* The rest of a critical section, from values that are ready. *)
LEMMA ProceedInv ==
    ASSUME IInv, NEW t \in Thread, NEW pcs, NEW todo, NEW ok, NEW total, NEW idle,
           Ready(t, pcs, todo, ok, total, idle), Proceed(t, pcs, todo, ok, total, idle)
    PROVE  IInv'
<1>1. CASE Leave(t, pcs, todo, ok, total, idle)
  BY <1>1, LeaveInv
<1>2. CASE Sleep(t, pcs, todo, ok, total, idle)
  <2>1. pending' \subseteq Thread /\ shutdown' \in BOOLEAN
    BY <1>2 DEF Sleep, IInv, TypeOK
  <2> QED BY <1>2, <2>1, WaitsInv DEF Sleep, block
<1>3. CASE ThrowAtWait(t, pcs, todo, ok, total, idle)
  <2>1. Throw(t, pcs)
    BY <1>3 DEF ThrowAtWait
  <2>2. pending' \subseteq Thread /\ shutdown' \in BOOLEAN
    BY <2>1 DEF Throw, IInv, TypeOK
  <2>3. CASE t = Master /\ stage = "waiting"
    BY <1>3, <2>1, <2>2, <2>3, WaitsInv DEF ThrowAtWait, Throw
  <2>4. CASE ~(t = Master /\ stage = "waiting")
    BY <1>3, <2>1, <2>2, <2>4, WaitsInv DEF ThrowAtWait, Throw
  <2> QED BY <2>3, <2>4
<1>4. CASE Take(t, pcs, todo, ok, total, idle)
  BY <1>4, TakeInv
<1> QED BY <1>1, <1>2, <1>3, <1>4 DEF Proceed

-----------------------------------------------------------------------------
(* The values are ready where a critical section starts. *)
LEMMA EnterInv ==
    ASSUME IInv, NEW t \in Thread, Enter(t)
    PROVE  IInv'
<1>1. pc[t] = "enter" /\ batch[t] = {}
  BY DEF Enter, IInv, QueueInv, ThreadsInPlace
<1>2. Rest(t) = Outstanding
  BY <1>1, RestFacts
<1>3. nTodo = Cardinality(Rest(t))
  BY <1>2 DEF IInv, QueueInv, TodoIsOutstanding
<1>4. /\ nTotal + 1 - nIdle = Cardinality(Busy \ {t}) + 1
      /\ nIdle >= Cardinality(Asleep \ {t})
  <2>1. /\ Cardinality(Busy \ {t}) \in Nat /\ Cardinality(Asleep \ {t}) \in Nat
        /\ Cardinality(Busy) = Cardinality(Busy \ {t})
        /\ Cardinality(Asleep) = Cardinality(Asleep \ {t})
    BY <1>1, CountsWithout
  <2> QED
    BY <2>1 DEF IInv, QueueInv, TypeOK, BusyIsNotIdle, AsleepIsIdle
<1>5. Ready(t, pc, nTodo, fAllOk, nTotal + 1, nIdle)
  BY <1>1, <1>2, <1>3, <1>4
     DEF Ready, MasterWoken, IInv, QueueInv, TypeOK, VerdictSoFar, BetweenBlocks
<1> QED BY <1>5, ProceedInv DEF Enter

(* A woken thread, whether it goes on or throws. *)
LEMMA WokenReady ==
    ASSUME IInv, NEW t \in Thread, pc[t] = "woken"
    PROVE  Ready(t, pc, nTodo, fAllOk, nTotal, nIdle - 1)
<1>1. batch[t] = {}
  BY DEF IInv, QueueInv, ThreadsInPlace
<1>2. Rest(t) = Outstanding
  BY <1>1, RestFacts
<1>3. nTodo = Cardinality(Rest(t))
  BY <1>2 DEF IInv, QueueInv, TodoIsOutstanding
<1>4. /\ Cardinality(Busy \ {t}) \in Nat /\ Cardinality(Asleep \ {t}) \in Nat
      /\ Cardinality(Busy) = Cardinality(Busy \ {t})
      /\ Cardinality(Asleep) = Cardinality(Asleep \ {t}) + 1
  BY CountsWithout
<1>5. /\ nTotal - (nIdle - 1) = Cardinality(Busy \ {t}) + 1
      /\ nIdle - 1 >= Cardinality(Asleep \ {t})
      /\ nIdle - 1 \in Nat /\ nTotal \in Nat /\ nTotal >= 1
  BY <1>4 DEF IInv, QueueInv, TypeOK, BusyIsNotIdle, AsleepIsIdle
<1> QED
  BY <1>2, <1>3, <1>5
     DEF Ready, MasterWoken, IInv, QueueInv, TypeOK, VerdictSoFar, BetweenBlocks

(* The step after a wake-up. *)
LEMMA ResumeInv ==
    ASSUME IInv, NEW t \in Thread, Resume(t)
    PROVE  IInv'
BY WokenReady, ProceedInv DEF Resume

(* An interruption after a wake-up: nIdle stays. *)
LEMMA ThrowAwakeInv ==
    ASSUME IInv, NEW t \in Thread, ThrowAwake(t)
    PROVE  IInv'
<1>1. Throw(t, pc) /\ UNCHANGED <<nTodo, nIdle, nTotal, fAllOk>>
  BY DEF ThrowAwake, counters
<1>2. Ready(t, pc, nTodo, fAllOk, nTotal, nIdle - 1)
  BY WokenReady DEF ThrowAwake
<1>3. pending' \subseteq Thread /\ shutdown' \in BOOLEAN /\ nIdle' = (nIdle - 1) + 1
  BY <1>1 DEF Throw, IInv, TypeOK
<1>4. CASE t = Master /\ stage = "waiting"
  BY <1>1, <1>2, <1>3, <1>4, WaitsInv DEF Throw
<1>5. CASE ~(t = Master /\ stage = "waiting")
  BY <1>1, <1>2, <1>3, <1>5, WaitsInv DEF Throw
<1> QED BY <1>4, <1>5

(* A batch is over: its checks leave nTodo and its result joins fAllOk. *)
LEMMA FinishBatchInv ==
    ASSUME IInv, NEW t \in Thread, FinishBatch(t)
    PROVE  IInv'
<1> DEFINE pcs == NotifyMaster(t, TodoAfter(t))
<1>1. /\ pc[t] = "working" /\ left[t] = {} /\ batch[t] # {} /\ t \in Busy
      /\ Proceed(t, pcs, TodoAfter(t), AllOkWith(t), nTotal, nIdle)
  BY DEF FinishBatch, IInv, QueueInv, ThreadsInPlace, Busy
<1>2. MasterWoken(t, pcs)
  BY DEF MasterWoken, NotifyMaster
<1>3. TodoAfter(t) = Cardinality(Rest(t))
  <2>1. Outstanding = Rest(t) \cup batch[t] /\ Rest(t) \cap batch[t] = {}
    BY RestFacts
  <2>2. Outstanding \in SUBSET Check /\ batch[t] \in SUBSET Outstanding /\ Outstanding \ batch[t] = Rest(t)
    BY <2>1, RestFacts DEF IInv, TypeOK
  <2>3. /\ Cardinality(Outstanding) = Cardinality(batch[t]) + Cardinality(Outstanding \ batch[t])
        /\ Cardinality(batch[t]) \in Nat /\ Cardinality(Outstanding \ batch[t]) \in Nat
    BY <2>2, ThreadsFinite, Parts
  <2>4. Cardinality(Outstanding \ batch[t]) = Cardinality(Rest(t))
    BY <2>2
  <2> QED BY <2>3, <2>4 DEF TodoAfter, IInv, QueueInv, TodoIsOutstanding
<1>4. /\ nTotal - nIdle = Cardinality(Busy \ {t}) + 1
      /\ nIdle >= Cardinality(Asleep \ {t}) /\ nTotal >= 1
  <2>1. /\ Cardinality(Busy \ {t}) \in Nat /\ Cardinality(Asleep \ {t}) \in Nat
        /\ Cardinality(Busy) = Cardinality(Busy \ {t}) + 1
        /\ Cardinality(Asleep) = Cardinality(Asleep \ {t})
    BY <1>1, CountsWithout
  <2> QED
    BY <2>1 DEF IInv, QueueInv, TypeOK, BusyIsNotIdle, AsleepIsIdle
<1>5. stage # "out"
  BY <1>1, NothingOutstanding DEF IInv, QueueInv, BetweenBlocks
<1>6. AllOkWith(t) \in BOOLEAN
  BY DEF AllOkWith, IInv, TypeOK
<1>7. IF AllOkWith(t) THEN added \ Rest(t) \subseteq Valid ELSE ~(added \subseteq Valid)
  <2>1. IF fOk[t] THEN batch[t] \subseteq Valid ELSE ~(added \subseteq Valid)
    BY <1>1 DEF IInv, QueueInv, VerdictSoFar
  <2>2. added \ Rest(t) \subseteq (added \ Outstanding) \cup batch[t]
    BY RestFacts
  <2> QED BY <1>5, <2>1, <2>2 DEF AllOkWith, IInv, QueueInv, TypeOK, VerdictSoFar
<1>8. Ready(t, pcs, TodoAfter(t), AllOkWith(t), nTotal, nIdle)
  <2> HIDE DEF pcs
  <2> QED
    BY <1>1, <1>2, <1>3, <1>4, <1>5, <1>6, <1>7 DEF Ready, IInv, TypeOK
<1> HIDE DEF pcs
<1> QED BY <1>1, <1>8, ProceedInv

(* One check of a batch has run. *)
LEMMA RunCheckInv ==
    ASSUME IInv, NEW t \in Thread, RunCheck(t)
    PROVE  IInv'
<1>1. PICK c \in left[t] :
        /\ left' = [left EXCEPT ![t] = @ \ {c}]
        /\ fOk' = [fOk EXCEPT ![t] = @ /\ c \in Valid]
  BY DEF RunCheck
<1>2. /\ pc[t] = "working" /\ t \in Busy
      /\ UNCHANGED <<queue, nTodo, nIdle, nTotal, fAllOk, pc, batch>>
      /\ UNCHANGED <<stage, added, verdict, pending, shutdown>>
  BY DEF RunCheck, counters, block, Busy
<1>3. c \in batch[t] /\ c \in added /\ left[t] \subseteq batch[t]
  BY <1>1, <1>2, RestFacts DEF IInv, QueueInv, ThreadsInPlace
<1>4. TypeOK'
  BY <1>1, <1>2 DEF IInv, TypeOK
<1>5. UNCHANGED <<Outstanding, Busy, Asleep, TodoIsOutstanding, BusyIsNotIdle, AsleepIsIdle>>
  BY <1>2 DEF Outstanding, Busy, Asleep, TodoIsOutstanding, BusyIsNotIdle, AsleepIsIdle
<1>6. /\ left'[t] = left[t] \ {c} /\ fOk'[t] = (fOk[t] /\ c \in Valid)
      /\ \A u \in Thread \ {t} : left'[u] = left[u] /\ fOk'[u] = fOk[u]
  BY <1>1 DEF IInv, TypeOK
<1>7. ThreadsInPlace'
  BY <1>2, <1>3, <1>6 DEF IInv, QueueInv, ThreadsInPlace, InWait
<1>8. VerdictSoFar'
  <2>1. IF fOk'[t] THEN batch'[t] \ left'[t] \subseteq Valid ELSE ~(added' \subseteq Valid)
    BY <1>2, <1>3, <1>6 DEF IInv, QueueInv, VerdictSoFar
  <2>2. \A u \in Busy' : u # t =>
          IF fOk'[u] THEN batch'[u] \ left'[u] \subseteq Valid ELSE ~(added' \subseteq Valid)
    BY <1>2, <1>5, <1>6 DEF IInv, QueueInv, VerdictSoFar, Busy
  <2> QED BY <1>2, <1>5, <2>1, <2>2 DEF IInv, QueueInv, VerdictSoFar
<1>9. BetweenBlocks'
  BY <1>2 DEF IInv, QueueInv, BetweenBlocks, AssertHolds, VerdictIsConjunction
<1> QED BY <1>2, <1>4, <1>5, <1>7, <1>8, <1>9 DEF IInv, QueueInv

(* Waking sleepers changes nothing that is counted. *)
Wakes ==
    \A u \in Thread : pc'[u] = pc[u] \/ (pc[u] = "sleeping" /\ pc'[u] = "woken")

(* The threads at work and those that wait stay the same when some wake. *)
LEMMA WakesPlaces ==
    ASSUME IInv, Wakes, stage' = stage, batch' = batch, left' = left
    PROVE  Busy' = Busy /\ Asleep' = Asleep /\ ThreadsInPlace'
<1>1. Busy' = Busy
  BY DEF Wakes, Busy
<1>2. Asleep' = Asleep
  BY DEF Wakes, Asleep
<1>3. ThreadsInPlace'
  <2>1. Master \in Thread /\ Worker \subseteq Thread
    BY DEF Thread
  <2> QED BY <2>1 DEF Wakes, IInv, QueueInv, ThreadsInPlace, InWait
<1> QED BY <1>1, <1>2, <1>3

(* An interruption or a wake-up alone. *)
LEMMA WakesInv ==
    ASSUME IInv, Wakes, UNCHANGED <<queue, counters, fAllOk, own, block>>,
           pc' \in [Thread -> {"out", "enter", "sleeping", "woken", "working", "gone"}],
           pending' \subseteq Thread, shutdown' \in BOOLEAN
    PROVE  IInv'
<1>1. UNCHANGED <<queue, nTodo, nIdle, nTotal, fAllOk, batch, left, fOk, stage, added, verdict>>
  BY DEF counters, own, block
<1>2. Busy' = Busy /\ Asleep' = Asleep /\ ThreadsInPlace'
  BY <1>1, WakesPlaces
<1>3. Cardinality(Busy)' = Cardinality(Busy) /\ Cardinality(Asleep)' = Cardinality(Asleep)
  BY <1>2
<1>4. BusyIsNotIdle' /\ AsleepIsIdle'
  BY <1>1, <1>3 DEF IInv, QueueInv, BusyIsNotIdle, AsleepIsIdle
<1>5. UNCHANGED <<Outstanding, TodoIsOutstanding>>
  BY <1>1 DEF Outstanding, TodoIsOutstanding
<1>6. VerdictSoFar'
  BY <1>1, <1>2, <1>5 DEF IInv, QueueInv, VerdictSoFar
<1>7. BetweenBlocks'
  BY <1>1 DEF IInv, QueueInv, BetweenBlocks, AssertHolds, VerdictIsConjunction
<1>8. TypeOK'
  BY <1>1 DEF IInv, TypeOK
<1> QED BY <1>1, <1>2, <1>4, <1>5, <1>6, <1>7, <1>8 DEF IInv, QueueInv

(* A wake-up without a notification. *)
LEMMA WakeUpInv ==
    ASSUME IInv, NEW t \in Thread, WakeUp(t)
    PROVE  IInv'
<1>1. Wakes /\ pc' \in [Thread -> {"out", "enter", "sleeping", "woken", "working", "gone"}]
  BY DEF WakeUp, Wakes, IInv, TypeOK
<1>2. pending' \subseteq Thread /\ shutdown' \in BOOLEAN
  BY DEF WakeUp, IInv, TypeOK
<1> QED BY <1>1, <1>2, WakesInv DEF WakeUp

(* Shutdown requests the interruptions. *)
LEMMA InterruptAllInv ==
    ASSUME IInv, InterruptAll
    PROVE  IInv'
<1>1. pc' = [t \in Thread |-> IF t \in pending' /\ pc[t] = "sleeping"
                                 THEN "woken" ELSE pc[t]]
  BY DEF InterruptAll
<1>2. Wakes /\ pc' \in [Thread -> {"out", "enter", "sleeping", "woken", "working", "gone"}]
  BY <1>1 DEF Wakes, IInv, TypeOK
<1>3. pending' \subseteq Thread /\ shutdown' \in BOOLEAN
  BY DEF InterruptAll, Thread
<1> QED BY <1>2, <1>3, WakesInv DEF InterruptAll

(* ConnectBlock finds the queue idle. *)
LEMMA BeginBlockInv ==
    ASSUME IInv, BeginBlock
    PROVE  IInv'
<1>1. /\ stage = "out" /\ added' = {} /\ verdict' = "none"
      /\ stage' = IF IsIdle THEN "adding" ELSE "aborted"
      /\ UNCHANGED <<queue, nTodo, nIdle, nTotal, fAllOk, pc, batch, left, fOk, pending, shutdown>>
  BY DEF BeginBlock, counters, own
<1>2. nTodo = 0 /\ fAllOk
  BY <1>1 DEF IInv, QueueInv, BetweenBlocks
<1>3. /\ Outstanding = {} /\ Busy = {}
      /\ \A t \in Thread : batch[t] = {} /\ pc[t] # "working"
  BY <1>2, NothingOutstanding
<1>4. nTotal = nIdle
  <2>1. Cardinality(Busy) = 0
    BY <1>3, FS_EmptySet
  <2> QED BY <2>1 DEF IInv, QueueInv, TypeOK, BusyIsNotIdle
<1>5. stage' = "adding"
  BY <1>1, <1>2, <1>4 DEF IsIdle
<1>6. UNCHANGED <<Outstanding, Busy, Asleep, TodoIsOutstanding, BusyIsNotIdle, AsleepIsIdle>>
  BY <1>1 DEF Outstanding, Busy, Asleep, TodoIsOutstanding, BusyIsNotIdle, AsleepIsIdle
<1>7. TypeOK'
  BY <1>1, <1>5 DEF IInv, TypeOK
<1>8. ThreadsInPlace'
  BY <1>1, <1>5 DEF IInv, QueueInv, ThreadsInPlace, InWait
<1>9. VerdictSoFar'
  BY <1>1, <1>2, <1>3, <1>6 DEF VerdictSoFar
<1>10. BetweenBlocks'
  BY <1>1, <1>5 DEF BetweenBlocks, AssertHolds, VerdictIsConjunction
<1> QED BY <1>1, <1>3, <1>6, <1>7, <1>8, <1>9, <1>10 DEF IInv, QueueInv

(* The checks of a transaction join the queue. *)
LEMMA AddInv ==
    ASSUME IInv, NEW S \in SUBSET (Check \ added), Add(S)
    PROVE  IInv'
<1>1. /\ stage = "adding" /\ queue' = queue \cup S /\ added' = added \cup S
      /\ nTodo' = nTodo + Cardinality(S)
      /\ UNCHANGED <<nIdle, nTotal, fAllOk, batch, left, fOk, stage, verdict, pending, shutdown>>
  BY DEF Add, own
<1>2. PICK W \in SUBSET Worker :
        /\ Notified(S, W)
        /\ pc' = [t \in Thread |-> IF t \in W THEN "woken" ELSE pc[t]]
  BY DEF Add
<1>3. W \subseteq Sleepers
  BY <1>2 DEF Notified
<1>4. Wakes /\ pc' \in [Thread -> {"out", "enter", "sleeping", "woken", "working", "gone"}]
  BY <1>2, <1>3 DEF Wakes, Sleepers, IInv, TypeOK
<1>5. Busy' = Busy /\ Asleep' = Asleep /\ ThreadsInPlace'
  BY <1>1, <1>4, WakesPlaces
<1>6. Cardinality(Busy)' = Cardinality(Busy) /\ Cardinality(Asleep)' = Cardinality(Asleep)
  BY <1>5
<1>7. BusyIsNotIdle' /\ AsleepIsIdle'
  BY <1>1, <1>6 DEF IInv, QueueInv, BusyIsNotIdle, AsleepIsIdle
<1>8. Outstanding' = Outstanding \cup S /\ Outstanding \cap S = {}
  BY <1>1 DEF IInv, QueueInv, Outstanding
<1>9. S \in SUBSET Check /\ Outstanding \in SUBSET Check
  BY DEF IInv, TypeOK, Outstanding
<1>10. TodoIsOutstanding'
  <2>1. Cardinality(Outstanding') = Cardinality(Outstanding) + Cardinality(S)
    <3>1. Outstanding' \in SUBSET Check /\ S \in SUBSET Outstanding' /\ Outstanding' \ S = Outstanding
      BY <1>8, <1>9
    <3>2. /\ Cardinality(Outstanding') = Cardinality(S) + Cardinality(Outstanding' \ S)
          /\ Cardinality(S) \in Nat /\ Cardinality(Outstanding' \ S) \in Nat
      BY <3>1, ThreadsFinite, Parts
    <3>3. Cardinality(Outstanding' \ S) = Cardinality(Outstanding)
      BY <3>1
    <3> QED BY <3>2, <3>3
  <2>2. nTodo' = Cardinality(Outstanding')
    BY <1>1, <2>1 DEF IInv, QueueInv, TodoIsOutstanding
  <2>3. \A t \in Thread : batch[t] \subseteq Outstanding
    BY DEF Outstanding
  <2> QED BY <1>1, <1>8, <2>2, <2>3 DEF IInv, QueueInv, TodoIsOutstanding
<1>11. TypeOK'
  BY <1>1, <1>4, <1>9, ThreadsFinite DEF IInv, TypeOK
<1>12. VerdictSoFar'
  BY <1>1, <1>5, <1>8 DEF IInv, QueueInv, VerdictSoFar
<1>13. BetweenBlocks'
  BY <1>1 DEF IInv, QueueInv, BetweenBlocks, AssertHolds, VerdictIsConjunction
<1> QED BY <1>1, <1>5, <1>7, <1>8, <1>10, <1>11, <1>12, <1>13 DEF IInv, QueueInv

(* The master starts to wait. *)
LEMMA CallWaitInv ==
    ASSUME IInv, CallWait
    PROVE  IInv'
<1>1. /\ stage = "adding" /\ stage' \in {"waiting", "destroying"}
      /\ pc' = [pc EXCEPT ![Master] = "enter"]
      /\ UNCHANGED <<queue, nTodo, nIdle, nTotal, fAllOk, batch, left, fOk>>
      /\ UNCHANGED <<added, verdict, pending, shutdown>>
  BY DEF CallWait, counters, own
<1>2. /\ Master \in Thread /\ pc[Master] = "out" /\ pc'[Master] = "enter"
      /\ \A u \in Thread \ {Master} : pc'[u] = pc[u]
  BY <1>1 DEF IInv, QueueInv, TypeOK, ThreadsInPlace, Thread
<1>3. Busy' = Busy /\ Asleep' = Asleep
  BY <1>2 DEF Busy, Asleep
<1>4. Cardinality(Busy)' = Cardinality(Busy) /\ Cardinality(Asleep)' = Cardinality(Asleep)
  BY <1>3
<1>5. BusyIsNotIdle' /\ AsleepIsIdle'
  BY <1>1, <1>4 DEF IInv, QueueInv, BusyIsNotIdle, AsleepIsIdle
<1>6. UNCHANGED <<Outstanding, TodoIsOutstanding>>
  BY <1>1 DEF Outstanding, TodoIsOutstanding
<1>7. TypeOK'
  BY <1>1 DEF IInv, TypeOK
<1>8. ThreadsInPlace'
  BY <1>1, <1>2 DEF IInv, QueueInv, ThreadsInPlace, InWait, Thread
<1>9. VerdictSoFar'
  BY <1>1, <1>3, <1>6 DEF IInv, QueueInv, VerdictSoFar
<1>10. BetweenBlocks'
  BY <1>1 DEF IInv, QueueInv, BetweenBlocks, AssertHolds, VerdictIsConjunction
<1> QED BY <1>1, <1>5, <1>6, <1>7, <1>8, <1>9, <1>10 DEF IInv, QueueInv

-----------------------------------------------------------------------------
(* The workers have not entered Loop, and no block is under way. *)
LEMMA InitInv == Init => IInv
<1> SUFFICES ASSUME Init PROVE IInv
  OBVIOUS
<1>1. Outstanding = {} /\ Busy = {} /\ Asleep = {}
  BY DEF Init, Outstanding, Busy, Asleep
<1>2. Cardinality(Outstanding) = 0 /\ Cardinality(Busy) = 0 /\ Cardinality(Asleep) = 0
  BY <1>1, FS_EmptySet
<1>3. TodoIsOutstanding /\ BusyIsNotIdle /\ AsleepIsIdle
  BY <1>2 DEF Init, TodoIsOutstanding, BusyIsNotIdle, AsleepIsIdle
<1>4. TypeOK
  BY DEF Init, TypeOK
<1>5. ThreadsInPlace
  BY DEF Init, ThreadsInPlace, InWait, Thread
<1>6. VerdictSoFar /\ BetweenBlocks
  BY <1>1 DEF Init, VerdictSoFar, BetweenBlocks, AssertHolds, VerdictIsConjunction
<1> QED BY <1>1, <1>3, <1>4, <1>5, <1>6 DEF IInv, QueueInv

(* Every step keeps the inductive invariant. *)
LEMMA NextInv == IInv /\ [Next]_vars => IInv'
<1> SUFFICES ASSUME IInv, [Next]_vars PROVE IInv'
  OBVIOUS
<1>1. ASSUME NEW t \in Thread, InLoop(t) PROVE IInv'
  BY <1>1, EnterInv, ResumeInv, ThrowAwakeInv, RunCheckInv, FinishBatchInv DEF InLoop
<1>2. ASSUME NEW t \in Thread, WakeUp(t) PROVE IInv'
  BY <1>2, WakeUpInv
<1>3. CASE Environment
  BY <1>3, BeginBlockInv, AddInv, CallWaitInv, InterruptAllInv DEF Environment
<1>4. CASE UNCHANGED vars
  <2>1. UNCHANGED <<queue, nTodo, nIdle, nTotal, fAllOk, pc, batch, left, fOk>>
    BY <1>4 DEF vars, counters, own
  <2>2. UNCHANGED <<counters, own, block, pending, shutdown>>
    BY <1>4 DEF vars
  <2>3. Wakes
    BY <2>1 DEF Wakes
  <2>4. /\ pc' \in [Thread -> {"out", "enter", "sleeping", "woken", "working", "gone"}]
        /\ pending' \subseteq Thread /\ shutdown' \in BOOLEAN
    BY <2>1, <2>2 DEF IInv, TypeOK
  <2> QED BY <2>1, <2>2, <2>3, <2>4, WakesInv
<1> QED BY <1>1, <1>2, <1>3, <1>4 DEF Next

(* The inductive invariant holds in every reachable state. *)
LEMMA Invariance == Spec => []IInv
<1> QED BY InitInv, NextInv, PTL DEF Spec

-----------------------------------------------------------------------------
(* The counters of CCheckQueue never go below zero, and every thread is    *)
(* where Loop has a place for it.                                          *)
THEOREM TypeCorrect == Spec => []TypeOK
<1>1. IInv => TypeOK
  BY DEF IInv
<1> QED BY <1>1, Invariance, PTL

(* nTodo is the number of checks not finished, with any number of threads, *)
(* batches of any size and interruptions.                                  *)
THEOREM TodoCorrect == Spec => []TodoIsOutstanding
<1>1. IInv => TodoIsOutstanding
  BY DEF IInv, QueueInv
<1> QED BY <1>1, Invariance, PTL

(* nIdle counts just the threads of nTotal that have no batch. *)
THEOREM IdleCorrect == Spec => []BusyIsNotIdle
<1>1. IInv => BusyIsNotIdle
  BY DEF IInv, QueueInv
<1> QED BY <1>1, Invariance, PTL

(* The assertion of CCheckQueueControl that the queue is idle never fails. *)
THEOREM IdleBeforeBlock == Spec => []AssertHolds
<1>1. IInv => AssertHolds
  BY DEF IInv, QueueInv, BetweenBlocks
<1> QED BY <1>1, Invariance, PTL

(* Wait returns true just when all checks of the block are valid. *)
THEOREM VerdictCorrect == Spec => []VerdictIsConjunction
<1>1. IInv => VerdictIsConjunction
  BY DEF IInv, QueueInv, BetweenBlocks
<1> QED BY <1>1, Invariance, PTL

(* No thread holds a check of a block when ConnectBlock has returned. *)
THEOREM ChecksEndWithBlock == Spec => []FinishedBeforeReturn
<1>1. IInv => FinishedBeforeReturn
  BY NothingOutstanding DEF FinishedBeforeReturn, IInv, QueueInv, BetweenBlocks
<1> QED BY <1>1, Invariance, PTL

-----------------------------------------------------------------------------
(* The coins under blocks that come and go. *)

(* A set of naturals that is not empty has a least element. *)
LEMMA LeastNumber ==
    ASSUME NEW T, T \subseteq Nat, T # {}
    PROVE  \E m \in T : \A n \in T : m <= n
<1> DEFINE U == {0 .. n : n \in T}
<1>1. U \subseteq FiniteSubsetsOf(Nat)
  <2>1. \A n \in T : IsFiniteSet(0 .. n)
    BY FS_Interval
  <2>2. \A n \in T : 0 .. n \in SUBSET Nat
    OBVIOUS
  <2>3. \A u \in U : u \in SUBSET Nat /\ IsFiniteSet(u)
    BY <2>1, <2>2
  <2> QED BY <2>3 DEF FiniteSubsetsOf
<1>2. U # {}
  OBVIOUS
<1>3. PICK x \in U : \A y \in U : <<y, x>> \notin StrictSubsetOrdering(Nat)
  <2> HIDE DEF U
  <2> QED BY <1>1, <1>2, FS_StrictSubsetOrderingWellFounded, WFMin
<1>4. PICK m \in T : x = 0 .. m
  OBVIOUS
<1>5. ASSUME NEW n \in T PROVE m <= n
  <2>1. <<0 .. n, 0 .. m>> \notin StrictSubsetOrdering(Nat)
    BY <1>3, <1>4
  <2>2. ~(0 .. n \subseteq 0 .. m /\ 0 .. n # 0 .. m)
    BY <2>1 DEF StrictSubsetOrdering
  <2> QED BY <2>2
<1> QED BY <1>5

(* Induction on the naturals, with the property as the set of those that have it. *)
LEMMA SetInduction ==
    ASSUME NEW T, NEW n \in Nat, 0 \in T, \A i \in 0 .. n - 1 : i \in T => i + 1 \in T
    PROVE  n \in T
<1> DEFINE Bad == {i \in 0 .. n : i \notin T}
<1>1. SUFFICES ASSUME Bad # {} PROVE FALSE
  OBVIOUS
<1>2. PICK m \in Bad : \A i \in Bad : m <= i
  <2>1. Bad \subseteq Nat OBVIOUS
  <2> HIDE DEF Bad
  <2> QED BY <1>1, <2>1, LeastNumber
<1>3. m # 0 /\ m - 1 \in 0 .. n - 1 /\ m - 1 \notin Bad
  BY <1>2
<1> QED BY <1>2, <1>3

(* f is the function defined by recursion on the naturals. *)
Iterates(f, S, a, step) ==
    f \in [Nat -> S] /\ f[0] = a /\ \A i \in Nat : f[i+1] = step[i][f[i]]

(* There is such a function. *)
LEMMA Recursion ==
    ASSUME NEW S, NEW a \in S, NEW step \in [Nat -> [S -> S]]
    PROVE  \E f : Iterates(f, S, a, step)
<1> DEFINE Upto(f, n) == /\ f \in [0 .. n -> S] /\ f[0] = a
                         /\ \A i \in 0 .. n - 1 : f[i+1] = step[i][f[i]]
           Has == {n \in Nat : \E f : Upto(f, n)}
<1>1. ASSUME NEW n \in Nat PROVE n \in Has
  <2>1. 0 \in Has
    <3>1. Upto([i \in 0 .. 0 |-> a], 0) OBVIOUS
    <3> QED BY <3>1
  <2>2. ASSUME NEW i \in 0 .. n - 1, i \in Has PROVE i + 1 \in Has
    <3>1. PICK f : Upto(f, i) BY <2>2
    <3> DEFINE g == [j \in 0 .. i + 1 |-> IF j = i + 1 THEN step[i][f[i]] ELSE f[j]]
    <3>2. step[i][f[i]] \in S BY <3>1
    <3>3. g \in [0 .. i + 1 -> S] BY <3>1, <3>2
    <3>4. g[0] = a BY <3>1
    <3>5. ASSUME NEW j \in 0 .. i PROVE g[j+1] = step[j][g[j]]
      <4>1. CASE j = i
        <5>1. i + 1 \in 0 .. i + 1 /\ i \in 0 .. i + 1 /\ i # i + 1 OBVIOUS
        <5>2. g[i+1] = step[i][f[i]] /\ g[i] = f[i] BY <5>1
        <5> QED BY <4>1, <5>2
      <4>2. CASE j # i BY <4>2, <3>1
      <4> QED BY <4>1, <4>2
    <3>6. Upto(g, i + 1)
      <4>1. (i + 1) - 1 = i OBVIOUS
      <4> HIDE DEF g
      <4> QED BY <3>3, <3>4, <3>5, <4>1
    <3> HIDE DEF Upto
    <3> QED BY <3>6
  <2> HIDE DEF Has
  <2> QED BY <2>1, <2>2, SetInduction
<1> DEFINE G(n) == CHOOSE f : Upto(f, n)
<1>2. ASSUME NEW n \in Nat PROVE Upto(G(n), n)
  <2>1. \E f : Upto(f, n) BY <1>1
  <2> HIDE DEF Upto
  <2> QED BY <2>1
<1> HIDE DEF G
<1>3. ASSUME NEW n \in Nat PROVE G(n)[n] = G(n+1)[n]
  <2> DEFINE Same == {i \in 0 .. n : G(n)[i] = G(n+1)[i]}
  <2>0. Upto(G(n), n) /\ Upto(G(n+1), n+1) BY <1>2
  <2>1. 0 \in Same BY <2>0
  <2>2. ASSUME NEW i \in 0 .. n - 1, i \in Same PROVE i + 1 \in Same
    <3>1. G(n)[i+1] = step[i][G(n)[i]] BY <2>0
    <3>2. i \in 0 .. (n + 1) - 1 OBVIOUS
    <3>3. G(n+1)[i+1] = step[i][G(n+1)[i]] BY <2>0, <3>2
    <3> QED BY <2>2, <3>1, <3>3
  <2>3. n \in Same
    <3> HIDE DEF Same
    <3> QED BY <2>1, <2>2, SetInduction
  <2> QED BY <2>3
<1> DEFINE h == [n \in Nat |-> G(n)[n]]
<1>4. h \in [Nat -> S]
  <2>1. ASSUME NEW n \in Nat PROVE G(n)[n] \in S BY <1>2
  <2> QED BY <2>1
<1>5. h[0] = a BY <1>2
<1>6. ASSUME NEW i \in Nat PROVE h[i+1] = step[i][h[i]]
  <2>1. i \in 0 .. (i + 1) - 1 OBVIOUS
  <2>2. G(i+1)[i+1] = step[i][G(i+1)[i]] BY <1>2, <2>1
  <2>3. G(i+1)[i] = h[i] BY <1>3
  <2>4. h[i+1] = G(i+1)[i+1] OBVIOUS
  <2> QED BY <2>2, <2>3, <2>4
<1> HIDE DEF h
<1>7. Iterates(h, S, a, step) BY <1>4, <1>5, <1>6 DEF Iterates
<1> QED BY <1>7

-----------------------------------------------------------------------------
Coin == [avail : SUBSET Nat, height : Nat, base : BOOLEAN, stake : BOOLEAN]
View == [Tx -> Coin]
Connected == [ok : BOOLEAN, view : View, undo : SUBSET UndoEntry]

(* A block is in its own path, and one higher than its parent. *)
LEMMA HeightLemma ==
    ASSUME NEW b \in Block
    PROVE  /\ Height(b) \in Nat
           /\ b \in Path[b] /\ Path[b] \subseteq Block
           /\ b # Genesis => Parent[b] \in Block /\ Height(b) = Height(Parent[b]) + 1
<1>1. IsFiniteSet(Path[b]) /\ b \in Path[b] /\ Path[b] \subseteq Block
  <2>1. CASE b = Genesis BY <2>1, BlockAssumption
  <2>2. CASE b # Genesis
    <3>1. Path[b] = Path[Parent[b]] \cup {b} BY <2>2, BlockAssumption
    <3>2. Path[b] \in SUBSET Block /\ IsFiniteSet(Path[b]) BY BlockAssumption
    <3> QED BY <3>1, <3>2
  <2> QED BY <2>1, <2>2
<1>2. Cardinality(Path[b]) \in Nat /\ Cardinality(Path[b]) # 0
  BY <1>1, FS_CardinalityType, FS_EmptySet
<1>3. ASSUME b # Genesis
      PROVE  Parent[b] \in Block /\ Height(b) = Height(Parent[b]) + 1
  <2>1. /\ Parent[b] \in Block /\ b \notin Path[Parent[b]] /\ Path[b] = Path[Parent[b]] \cup {b}
        /\ IsFiniteSet(Path[Parent[b]])
    BY <1>3, BlockAssumption
  <2>2. Cardinality(Path[b]) = Cardinality(Path[Parent[b]]) + 1
    BY <2>1, FS_AddElement
  <2>3. Cardinality(Path[Parent[b]]) \in Nat
    BY <2>1, FS_CardinalityType
  <2> QED BY <2>1, <2>2, <2>3 DEF Height
<1> QED BY <1>1, <1>2, <1>3 DEF Height

(* What a transaction makes of typed coins is typed. *)
LEMMA CoinTypes ==
    ASSUME NEW t \in Tx, NEW h \in Nat, NEW view \in View
    PROVE  /\ Spent \in Coin /\ FromTx(t, h) \in Coin
           /\ UpdateCoins(view, t, h) \in View
           /\ TxUndo(view, t) \subseteq UndoEntry
<1>1. Spent \in Coin
  BY DEF Spent, Coin
<1>2. FromTx(t, h) \in Coin
  <2>1. Outs[t] \in SUBSET Nat BY TxAssumption
  <2> QED BY <1>1, <2>1 DEF FromTx, Coin
<1>3. UpdateCoins(view, t, h) \in View
  <2>1. ASSUME NEW p \in Tx PROVE UpdateCoins(view, t, h)[p] \in Coin
    <3>1. view[p] \in Coin BY DEF View
    <3>2. [view[p] EXCEPT !.avail = @ \ SpentBy(t, p)] \in Coin BY <3>1 DEF Coin
    <3> QED BY <1>1, <1>2, <3>1, <3>2 DEF UpdateCoins
  <2> QED BY <2>1 DEF UpdateCoins, View
<1>4. TxUndo(view, t) \subseteq UndoEntry
  BY DEF TxUndo, UndoEntry, View, Coin
<1> QED BY <1>1, <1>2, <1>3, <1>4

(* ConnectBlock, transaction by transaction. *)
Begun(view, b) ==
    [ok |-> \A t \in Contents(b) :
                            /\ view[t].avail = {}
                            /\ Kind[t] = "zerocoinspend" => ~InChain(t, Parent[b]),
     view |-> view, undo |-> {}]
StepsOf(f, view, b) ==
    f = [i \in 0 .. Len(Vtx[b]) |->
            IF i = 0
            THEN Begun(view, b)
            ELSE ConnectTx(Height(b), f[i-1], Vtx[b][i])]
Steps(view, b) == CHOOSE f : StepsOf(f, view, b)

(* Steps is that function: the recursion of ConnectBlock has a solution. *)
LEMMA StepsLemma ==
    ASSUME NEW view \in View, NEW b \in Block
    PROVE  /\ Steps(view, b) \in [0 .. Len(Vtx[b]) -> Connected]
           /\ Steps(view, b)[0] = Begun(view, b)
           /\ \A i \in 1 .. Len(Vtx[b]) :
                 Steps(view, b)[i] = ConnectTx(Height(b), Steps(view, b)[i-1], Vtx[b][i])
           /\ ConnectBlock(view, b) = Steps(view, b)[Len(Vtx[b])]
<1> DEFINE n == Len(Vtx[b])
           step == [i \in Nat |-> [st \in Connected |->
                      IF i < n THEN ConnectTx(Height(b), st, Vtx[b][i + 1]) ELSE st]]
<1>1. Vtx[b] \in Seq(Tx) /\ n \in Nat /\ Height(b) \in Nat
  BY BlockAssumption, HeightLemma
<1>2. ASSUME NEW st \in Connected, NEW t \in Tx
      PROVE  ConnectTx(Height(b), st, t) \in Connected
  <2>1. st.view \in View /\ st.undo \subseteq UndoEntry BY DEF Connected
  <2>2. UpdateCoins(st.view, t, Height(b)) \in View /\ TxUndo(st.view, t) \subseteq UndoEntry
    BY <1>1, <2>1, CoinTypes
  <2>3. (st.ok /\ CheckInputs(st.view, t, Height(b))) \in BOOLEAN
    OBVIOUS
  <2> QED BY <2>1, <2>2, <2>3 DEF ConnectTx, Connected
<1>3. Begun(view, b) \in Connected
  BY DEF Begun, Connected
<1>4. step \in [Nat -> [Connected -> Connected]]
  <2>1. ASSUME NEW i \in Nat, NEW st \in Connected PROVE step[i][st] \in Connected
    <3>1. i < n => Vtx[b][i + 1] \in Tx BY <1>1
    <3> QED BY <1>2, <3>1
  <2> QED BY <2>1
<1>5. PICK g : Iterates(g, Connected, Begun(view, b), step)
  <2> HIDE DEF step
  <2> QED BY <1>3, <1>4, Recursion
<1> DEFINE f == [i \in 0 .. n |-> g[i]]
<1>6. f \in [0 .. n -> Connected] /\ f[0] = Begun(view, b)
  BY <1>1, <1>5 DEF Iterates
<1>7. ASSUME NEW i \in 1 .. n PROVE f[i] = ConnectTx(Height(b), f[i-1], Vtx[b][i])
  <2>1. i - 1 \in Nat /\ (i - 1) + 1 = i /\ i - 1 < n BY <1>1
  <2>2. g[i] = step[i-1][g[i-1]] /\ g[i-1] \in Connected
    <3> HIDE DEF step
    <3> QED BY <1>5, <2>1 DEF Iterates
  <2> QED BY <1>1, <2>1, <2>2
<1>8. StepsOf(f, view, b)
  <2> DEFINE e == [i \in 0 .. Len(Vtx[b]) |->
                     IF i = 0 THEN Begun(view, b) ELSE ConnectTx(Height(b), f[i-1], Vtx[b][i])]
  <2>1. ASSUME NEW i \in 0 .. n PROVE f[i] = e[i]
    <3> HIDE DEF f
    <3>1. CASE i = 0 BY <3>1, <1>6
    <3>2. CASE i # 0
      <4>1. i \in 1 .. n BY <3>2, <1>1
      <4>2. e[i] = ConnectTx(Height(b), f[i-1], Vtx[b][i]) BY <3>2
      <4> QED BY <1>7, <4>1, <4>2
    <3> QED BY <3>1, <3>2
  <2>2. f = e
    <3> HIDE DEF f
    <3> QED BY <1>1, <1>6, <2>1
  <2> HIDE DEF f
  <2> QED BY <2>2 DEF StepsOf
<1>9. StepsOf(Steps(view, b), view, b)
  BY <1>8 DEF Steps
<1>10. ConnectBlock(view, b) = Steps(view, b)[Len(Vtx[b])]
  BY DEF ConnectBlock, Steps, StepsOf, Begun
<1> DEFINE k == Steps(view, b)
<1>11. k[0] = Begun(view, b) /\ \A i \in 1 .. n : k[i] = ConnectTx(Height(b), k[i-1], Vtx[b][i])
  <2> HIDE DEF k
  <2>1. k = [i \in 0 .. n |-> IF i = 0 THEN Begun(view, b)
                              ELSE ConnectTx(Height(b), k[i-1], Vtx[b][i])]
    BY <1>9 DEF k, StepsOf
  <2>2. k[0] = Begun(view, b) BY <1>1, <2>1
  <2>3. ASSUME NEW i \in 1 .. n PROVE k[i] = ConnectTx(Height(b), k[i-1], Vtx[b][i])
    <3>1. i \in 0 .. n /\ i # 0 BY <1>1
    <3> QED BY <2>1, <3>1
  <2> QED BY <2>2, <2>3
<1>12. k \in [0 .. n -> Connected]
  <2> HIDE DEF k
  <2> DEFINE T == {i \in 0 .. n : k[i] \in Connected}
  <2>1. 0 \in T BY <1>1, <1>3, <1>11
  <2>2. ASSUME NEW i \in 0 .. n - 1, i \in T PROVE i + 1 \in T
    <3>1. i + 1 \in 1 .. n /\ (i + 1) - 1 = i /\ Vtx[b][i+1] \in Tx BY <1>1
    <3>2. k[i+1] = ConnectTx(Height(b), k[i], Vtx[b][i+1]) BY <1>11, <3>1
    <3> QED BY <1>2, <2>2, <3>1, <3>2
  <2>3. ASSUME NEW i \in 0 .. n PROVE k[i] \in Connected
    <3>1. i \in Nat /\ \A j \in 0 .. i - 1 : j \in 0 .. n - 1 BY <1>1
    <3>2. i \in T
      <4> HIDE DEF T
      <4> QED BY <2>1, <2>2, <3>1, SetInduction
    <3> QED BY <3>2
  <2>4. k = [i \in 0 .. n |-> k[i]]
    BY <1>9 DEF k, StepsOf
  <2> QED BY <2>3, <2>4
<1> QED BY <1>10, <1>11, <1>12

(* The coins of a chain, from the genesis block on. *)
CoinsOfIs(c) ==
    c = [b \in Block |-> IF b = Genesis THEN [t \in Tx |-> Spent]
                         ELSE ConnectBlock(c[Parent[b]], b).view]

(* ConnectBlock makes coins of coins. *)
LEMMA ConnectBlockType ==
    ASSUME NEW view \in View, NEW b \in Block
    PROVE  ConnectBlock(view, b) \in Connected /\ ConnectBlock(view, b).view \in View
<1>1. Len(Vtx[b]) \in 0 .. Len(Vtx[b])
  BY BlockAssumption
<1>2. ConnectBlock(view, b) \in Connected
  BY <1>1, StepsLemma
<1> QED BY <1>2 DEF Connected

(* The recursion of CoinsOf has a solution, and its values are coins. *)
LEMMA CoinsOfLemma ==
    /\ CoinsOf[Genesis] = [t \in Tx |-> Spent]
    /\ \A b \in Block : CoinsOf[b] \in View
    /\ \A b \in Block \ {Genesis} : CoinsOf[b] = ConnectBlock(CoinsOf[Parent[b]], b).view
<1> DEFINE none == [t \in Tx |-> Spent]
           next(v) == [b \in Block |-> IF b = Genesis THEN none ELSE ConnectBlock(v[Parent[b]], b).view]
           start == [b \in Block |-> none]
           step == [i \in Nat |-> [v \in [Block -> View] |-> next(v)]]
<1>1. none \in View
  <2>1. Spent \in Coin BY DEF Spent, Coin
  <2> QED BY <2>1 DEF View
<1>2. ASSUME NEW v \in [Block -> View] PROVE next(v) \in [Block -> View]
  <2>1. ASSUME NEW b \in Block, b # Genesis PROVE ConnectBlock(v[Parent[b]], b).view \in View
    <3>1. v[Parent[b]] \in View BY <2>1, HeightLemma
    <3> QED BY <3>1, ConnectBlockType
  <2> HIDE DEF none
  <2> QED BY <1>1, <2>1
<1>3. PICK g : Iterates(g, [Block -> View], start, step)
  <2>1. start \in [Block -> View] BY <1>1
  <2>2. step \in [Nat -> [[Block -> View] -> [Block -> View]]]
    <3> HIDE DEF next
    <3> QED BY <1>2
  <2> HIDE DEF start, step
  <2> QED BY <2>1, <2>2, Recursion
<1> DEFINE F == [b \in Block |-> g[Height(b)][b]]
<1>4. ASSUME NEW b \in Block, b # Genesis
      PROVE  F[b] = ConnectBlock(F[Parent[b]], b).view
  <2>1. /\ Parent[b] \in Block /\ Height(b) = Height(Parent[b]) + 1 /\ Height(Parent[b]) \in Nat
        /\ Height(b) \in Nat
    BY <1>4, HeightLemma
  <2> DEFINE v == g[Height(Parent[b])]
  <2>2. v \in [Block -> View] /\ g[Height(b)] = step[Height(Parent[b])][v]
    <3> HIDE DEF step
    <3> QED BY <1>3, <2>1 DEF Iterates
  <2>3. g[Height(b)] = next(v)
    <3> HIDE DEF next, v
    <3> QED BY <2>1, <2>2
  <2>4. next(v)[b] = ConnectBlock(v[Parent[b]], b).view
    BY <1>4
  <2> QED BY <2>1, <2>3, <2>4
<1>5. F[Genesis] = none
  <2>1. Genesis \in Block /\ Height(Genesis) = 0
    <3>1. Cardinality({Genesis}) = 1 BY FS_Singleton
    <3> QED BY <3>1, BlockAssumption DEF Height
  <2> QED BY <1>3, <2>1 DEF Iterates
<1>6. CoinsOfIs(F)
  <2>1. ASSUME NEW b \in Block
        PROVE  F[b] = IF b = Genesis THEN none ELSE ConnectBlock(F[Parent[b]], b).view
    <3> HIDE DEF F, none
    <3> QED BY <1>4, <1>5
  <2>2. F = [b \in Block |-> F[b]] OBVIOUS
  <2> HIDE DEF F
  <2> QED BY <2>1, <2>2 DEF CoinsOfIs
<1>7. CoinsOfIs(CoinsOf)
  <2>1. CoinsOf = CHOOSE c : CoinsOfIs(c) BY DEF CoinsOf, CoinsOfIs
  <2> QED BY <1>6, <2>1
<1>8. CoinsOf[Genesis] = none
  BY <1>7, BlockAssumption DEF CoinsOfIs
<1>9. \A b \in Block \ {Genesis} : CoinsOf[b] = ConnectBlock(CoinsOf[Parent[b]], b).view
  BY <1>7 DEF CoinsOfIs
<1>10. ASSUME NEW b \in Block PROVE CoinsOf[b] \in View
  <2> DEFINE T == {n \in Nat : \A c \in Block : Height(c) = n => CoinsOf[c] \in View}
  <2>1. 0 \in T
    <3>1. \A c \in Block : Height(c) = 0 => c = Genesis
      <4>1. ASSUME NEW c \in Block, c # Genesis PROVE Height(c) # 0
        <5>1. Parent[c] \in Block /\ Height(c) = Height(Parent[c]) + 1 BY <4>1, HeightLemma
        <5>2. Height(Parent[c]) \in Nat BY <5>1, HeightLemma
        <5> QED BY <5>1, <5>2
      <4> QED BY <4>1
    <3> QED BY <1>1, <1>8, <3>1
  <2>2. ASSUME NEW n \in Nat, n \in T PROVE n + 1 \in T
    <3> SUFFICES ASSUME NEW c \in Block, Height(c) = n + 1 PROVE CoinsOf[c] \in View
      OBVIOUS
    <3>1. CASE c = Genesis BY <3>1, <1>1, <1>8
    <3>2. CASE c # Genesis
      <4>1. Parent[c] \in Block /\ Height(c) = Height(Parent[c]) + 1 BY <3>2, HeightLemma
      <4>2. Height(Parent[c]) \in Nat BY <4>1, HeightLemma
      <4>3. Height(Parent[c]) = n BY <4>1, <4>2
      <4>4. CoinsOf[Parent[c]] \in View BY <2>2, <4>1, <4>3
      <4> QED BY <1>9, <3>2, <4>4, ConnectBlockType
    <3> QED BY <3>1, <3>2
  <2>3. Height(b) \in Nat BY HeightLemma
  <2>4. Height(b) \in T
    <3> HIDE DEF T
    <3> QED BY <2>1, <2>2, <2>3, SetInduction
  <2> QED BY <2>4
<1> QED BY <1>8, <1>9, <1>10

-----------------------------------------------------------------------------
(* The same but for the coinstake flags. *)
Alike(v, w) ==
    \A p \in Tx : v[p].avail = w[p].avail /\ v[p].height = w[p].height /\ v[p].base = w[p].base
(* Nothing is kept of a transaction without unspent outputs, what is       *)
(* unspent are outputs, and an output that no transaction spends is there  *)
(* as long as any other is.                                                *)
Sound(v) ==
    \A p \in Tx :
       /\ v[p].avail = {} => v[p].height = 0 /\ v[p].base = FALSE
       /\ v[p].avail \subseteq Outs[p]
       /\ v[p].avail # {} =>
             {n \in Outs[p] : \A t \in Tx : <<p, n>> \notin Inputs[t]} \subseteq v[p].avail
(* The coinstake flag as CCoins.FromTx sets it, if not lost. *)
Flag(c, p, lost) ==
    /\ c.stake \in BOOLEAN
    /\ c.stake => c.avail # {} /\ Kind[p] = "coinstake"
    /\ c.avail # {} /\ Kind[p] = "coinstake" /\ p \notin lost => c.stake
Flagged(v, lost) == \A p \in Tx : Flag(v[p], p, lost)
(* Undo data has what a transaction takes from the coins, as far as         *)
(* DisconnectBlock needs it.                                                *)
UndoFits(undoes, view, t) ==
    \A p \in Tx : SpentBy(t, p) # {} =>
       /\ view[p].avail = SpentBy(t, p) <=> \E u \in undoes : u.by = t /\ u.of = p
       /\ \A u \in undoes : u.by = t /\ u.of = p => u.height = view[p].height /\ u.base = view[p].base
(* A transaction spends what is there, and is new. *)
SpendsCoins(view, t) == view[t].avail = {} /\ HaveInputs(view, t)

(* It takes no outputs of its own and none that are not there. *)
LEMMA SpentLemma ==
    ASSUME NEW view, NEW t \in Tx, SpendsCoins(view, t)
    PROVE  SpentBy(t, t) = {} /\ \A p \in Tx : SpentBy(t, p) \subseteq view[p].avail
  BY DEF SpendsCoins, HaveInputs, SpentBy

(* The coinstake flags have no part in UpdateCoins. *)
LEMMA UpdateAlike ==
    ASSUME NEW v, NEW w, Alike(v, w), NEW t \in Tx, NEW h
    PROVE  Alike(UpdateCoins(v, t, h), UpdateCoins(w, t, h))
<1> SUFFICES ASSUME NEW p \in Tx
             PROVE  LET c == UpdateCoins(v, t, h)[p]
                        d == UpdateCoins(w, t, h)[p]
                    IN  c.avail = d.avail /\ c.height = d.height /\ c.base = d.base
  BY DEF Alike
<1>1. v[p].avail = w[p].avail /\ v[p].height = w[p].height /\ v[p].base = w[p].base
  BY DEF Alike
<1> QED BY <1>1 DEF UpdateCoins

(* UpdateCoins keeps coins sound and flagged. *)
LEMMA UpdateSound ==
    ASSUME NEW v \in View, NEW t \in Tx, SpendsCoins(v, t), NEW h \in Nat, NEW lost
    PROVE  /\ Sound(v) => Sound(UpdateCoins(v, t, h))
           /\ Flagged(v, lost) => Flagged(UpdateCoins(v, t, h), lost)
<1> DEFINE Keep(p) == {n \in Outs[p] : \A x \in Tx : <<p, n>> \notin Inputs[x]}
           OK(c, p) == /\ c.avail = {} => c.height = 0 /\ c.base = FALSE
                       /\ c.avail \subseteq Outs[p]
                       /\ c.avail # {} => Keep(p) \subseteq c.avail
<1>1. ASSUME NEW p \in Tx, NEW c, c = UpdateCoins(v, t, h)[p]
      PROVE  (OK(v[p], p) => OK(c, p)) /\ (Flag(v[p], p, lost) => Flag(c, p, lost))
  <2>1. SpentBy(t, p) \subseteq v[p].avail /\ SpentBy(t, p) \cap Keep(p) = {}
    <3>1. SpentBy(t, p) \subseteq v[p].avail BY SpentLemma
    <3>2. SpentBy(t, p) \cap Keep(p) = {} BY DEF SpentBy
    <3> QED BY <3>1, <3>2
  <2>2. v[p] \in Coin
    BY DEF View
  <2>3. CASE p = t
    <3>1. c = FromTx(t, h) BY <1>1, <2>3 DEF UpdateCoins
    <3>2. CASE Outs[t] = {}
      <4>1. c = Spent BY <3>1, <3>2 DEF FromTx
      <4>2. c.avail = {} /\ c.height = 0 /\ c.base = FALSE /\ c.stake = FALSE
        BY <4>1 DEF Spent
      <4> QED BY <2>3, <3>2, <4>2 DEF Flag
    <3>3. CASE Outs[t] # {}
      <4>1. c = [avail |-> Outs[t], height |-> h, base |-> Kind[t] = "coinbase",
                 stake |-> Kind[t] = "coinstake"]
        BY <3>1, <3>3 DEF FromTx
      <4>2. c.avail = Outs[t] /\ c.stake = (Kind[t] = "coinstake")
        BY <4>1
      <4>3. Keep(p) \subseteq Outs[p] OBVIOUS
      <4> HIDE DEF Keep
      <4> QED BY <2>3, <3>3, <4>2, <4>3 DEF Flag
    <3> QED BY <3>2, <3>3
  <2>4. CASE p # t /\ SpentBy(t, p) = {}
    <3>1. c = v[p] BY <1>1, <2>4 DEF UpdateCoins
    <3> HIDE DEF OK
    <3> QED BY <3>1
  <2>5. CASE p # t /\ SpentBy(t, p) # {} /\ v[p].avail = SpentBy(t, p)
    <3>1. c = Spent BY <1>1, <2>5 DEF UpdateCoins
    <3>2. c.avail = {} /\ c.height = 0 /\ c.base = FALSE /\ c.stake = FALSE
      BY <3>1 DEF Spent
    <3> QED BY <3>2 DEF Flag
  <2>6. CASE p # t /\ SpentBy(t, p) # {} /\ v[p].avail # SpentBy(t, p)
    <3>1. c = [v[p] EXCEPT !.avail = @ \ SpentBy(t, p)]
      BY <1>1, <2>6 DEF UpdateCoins
    <3>2. c.avail = v[p].avail \ SpentBy(t, p) /\ c.stake = v[p].stake
      BY <2>2, <3>1 DEF Coin
    <3>3. c.avail # {} /\ v[p].avail # {} BY <2>1, <2>6, <3>2
    <3> HIDE DEF Keep
    <3> QED BY <2>1, <3>2, <3>3 DEF Flag
  <2> QED BY <2>3, <2>4, <2>5, <2>6
<1>2. ASSUME Sound(v) PROVE Sound(UpdateCoins(v, t, h))
  <2>1. \A p \in Tx : OK(v[p], p) BY <1>2 DEF Sound
  <2>2. \A p \in Tx : OK(UpdateCoins(v, t, h)[p], p)
    <3> HIDE DEF OK
    <3> QED BY <1>1, <2>1
  <2> QED BY <2>2 DEF Sound
<1>3. ASSUME Flagged(v, lost) PROVE Flagged(UpdateCoins(v, t, h), lost)
  <2>1. \A p \in Tx : Flag(v[p], p, lost) BY <1>3 DEF Flagged
  <2>2. \A p \in Tx : Flag(UpdateCoins(v, t, h)[p], p, lost)
    <3> HIDE DEF OK
    <3> QED BY <1>1, <2>1
  <2> QED BY <2>2 DEF Flagged
<1> QED BY <1>2, <1>3

(* TxUndo is undo data that fits. *)
LEMMA TxUndoFits ==
    ASSUME NEW v, NEW w, Alike(v, w), NEW t \in Tx, NEW undoes,
           \A u : u \in undoes /\ u.by = t <=> u \in TxUndo(v, t)
    PROVE  UndoFits(undoes, w, t)
<1> SUFFICES ASSUME NEW p \in Tx, SpentBy(t, p) # {}
             PROVE  /\ w[p].avail = SpentBy(t, p) <=> \E u \in undoes : u.by = t /\ u.of = p
                    /\ \A u \in undoes : u.by = t /\ u.of = p =>
                          u.height = w[p].height /\ u.base = w[p].base
  BY DEF UndoFits
<1>1. v[p].avail = w[p].avail /\ v[p].height = w[p].height /\ v[p].base = w[p].base
  BY DEF Alike
<1>2. \A u \in TxUndo(v, t) : u.of = p => v[p].avail = SpentBy(t, p) /\ u.by = t
                                          /\ u.height = v[p].height /\ u.base = v[p].base
  BY DEF TxUndo
<1>3. ASSUME v[p].avail = SpentBy(t, p) PROVE \E u \in TxUndo(v, t) : u.of = p
  <2> DEFINE u == [by |-> t, of |-> p, height |-> v[p].height, base |-> v[p].base,
                   stake |-> v[p].stake]
  <2>1. u \in TxUndo(v, t)
    BY <1>3 DEF TxUndo
  <2> QED BY <2>1
<1>4. w[p].avail = SpentBy(t, p) => \E u \in undoes : u.by = t /\ u.of = p
  <2>1. ASSUME v[p].avail = SpentBy(t, p) PROVE \E u \in undoes : u.by = t /\ u.of = p
    <3>1. PICK u \in TxUndo(v, t) : u.of = p BY <1>3, <2>1
    <3>2. u \in undoes /\ u.by = t OBVIOUS
    <3> QED BY <3>1, <3>2
  <2> QED BY <1>1, <2>1
<1>5. ASSUME NEW u \in undoes, u.by = t, u.of = p
      PROVE  w[p].avail = SpentBy(t, p) /\ u.height = w[p].height /\ u.base = w[p].base
  <2>1. u \in TxUndo(v, t) BY <1>5
  <2> QED BY <1>1, <1>2, <1>5, <2>1
<1> QED BY <1>4, <1>5

(* Taking a transaction back undoes what it did. *)
LEMMA RestoreUndoes ==
    ASSUME NEW w \in View, Sound(w), NEW t \in Tx, SpendsCoins(w, t), NEW h \in Nat,
           NEW undoes, UndoFits(undoes, w, t),
           NEW v \in View, Alike(v, UpdateCoins(w, t, h))
    PROVE  /\ Alike(RestoreInputs([v EXCEPT ![t] = Spent], t, undoes), w)
           /\ RestoreIsClean([v EXCEPT ![t] = Spent], t, undoes)
<1> DEFINE c == [v EXCEPT ![t] = Spent]
<1>1. ASSUME NEW p \in Tx
      PROVE  /\ LET r == RestoreInputs(c, t, undoes)[p]
                IN  r.avail = w[p].avail /\ r.height = w[p].height /\ r.base = w[p].base
             /\ SpentBy(t, p) # {} =>
                   /\ (c[p].avail = {}) <=> (\E u \in undoes : u.by = t /\ u.of = p)
                   /\ c[p].avail \cap SpentBy(t, p) = {}
  <2>1. SpentBy(t, t) = {} /\ SpentBy(t, p) \subseteq w[p].avail
    BY SpentLemma
  <2>2. v[p] \in Coin /\ w[p] \in Coin
    BY DEF View
  <2> DEFINE n == UpdateCoins(w, t, h)[p]
  <2>3. v[p].avail = n.avail /\ v[p].height = n.height /\ v[p].base = n.base
    BY DEF Alike
  <2>4. CASE p = t
    <3>1. c[p] = Spent BY <2>4 DEF View
    <3>2. RestoreInputs(c, t, undoes)[p] = Spent
      <4> HIDE DEF c
      <4> QED BY <2>1, <2>4, <3>1 DEF RestoreInputs
    <3>3. w[p].avail = {} /\ w[p].height = 0 /\ w[p].base = FALSE
      BY <2>4 DEF SpendsCoins, Sound
    <3>4. SpentBy(t, p) = {} BY <2>1, <2>4
    <3>5. Spent.avail = {} /\ Spent.height = 0 /\ Spent.base = FALSE BY DEF Spent
    <3> DEFINE r == RestoreInputs(c, t, undoes)[p]
    <3>6. r.avail = w[p].avail /\ r.height = w[p].height /\ r.base = w[p].base
      <4>1. r = Spent BY <3>2
      <4> HIDE DEF r
      <4> QED BY <3>3, <3>5, <4>1
    <3> HIDE DEF c
    <3> QED BY <3>4, <3>6
  <2>5. CASE p # t
    <3>1. c[p] = v[p] BY <2>5 DEF View
    <3> HIDE DEF c
    <3>2. CASE SpentBy(t, p) = {}
      <4>1. n = w[p] BY <2>5, <3>2 DEF UpdateCoins
      <4>2. RestoreInputs(c, t, undoes)[p] = c[p] BY <3>2 DEF RestoreInputs
      <4> QED BY <2>3, <3>1, <3>2, <4>1, <4>2
    <3>3. CASE SpentBy(t, p) # {} /\ w[p].avail = SpentBy(t, p)
      <4>1. n = Spent BY <2>5, <3>3 DEF UpdateCoins
      <4>2. \E u \in undoes : u.by = t /\ u.of = p BY <3>3 DEF UndoFits
      <4> DEFINE u0 == CHOOSE u \in undoes : u.by = t /\ u.of = p
      <4>3. u0 \in undoes /\ u0.by = t /\ u0.of = p BY <4>2
      <4>4. u0.height = w[p].height /\ u0.base = w[p].base BY <3>3, <4>3 DEF UndoFits
      <4>5. RestoreInputs(c, t, undoes)[p]
              = [avail |-> SpentBy(t, p), height |-> u0.height, base |-> u0.base, stake |-> FALSE]
        BY <3>3, <4>2 DEF RestoreInputs
      <4>6. c[p].avail = {} BY <2>3, <3>1, <4>1 DEF Spent
      <4> HIDE DEF u0
      <4> QED BY <3>3, <4>2, <4>4, <4>5, <4>6
    <3>4. CASE SpentBy(t, p) # {} /\ w[p].avail # SpentBy(t, p)
      <4>1. n = [w[p] EXCEPT !.avail = @ \ SpentBy(t, p)] BY <2>5, <3>4 DEF UpdateCoins
      <4>2. n.avail = w[p].avail \ SpentBy(t, p) /\ n.height = w[p].height /\ n.base = w[p].base
        BY <2>2, <4>1 DEF Coin
      <4>3. ~ \E u \in undoes : u.by = t /\ u.of = p BY <3>4 DEF UndoFits
      <4>4. RestoreInputs(c, t, undoes)[p] = [c[p] EXCEPT !.avail = @ \cup SpentBy(t, p)]
        BY <3>4, <4>3 DEF RestoreInputs
      <4>5. /\ RestoreInputs(c, t, undoes)[p].avail = c[p].avail \cup SpentBy(t, p)
            /\ RestoreInputs(c, t, undoes)[p].height = c[p].height
            /\ RestoreInputs(c, t, undoes)[p].base = c[p].base
        BY <2>2, <3>1, <4>4 DEF Coin
      <4>6. c[p].avail = w[p].avail \ SpentBy(t, p) /\ c[p].height = w[p].height /\ c[p].base = w[p].base
        BY <2>3, <3>1, <4>2
      <4>7. c[p].avail # {} /\ c[p].avail \cap SpentBy(t, p) = {}
            /\ c[p].avail \cup SpentBy(t, p) = w[p].avail
        BY <2>1, <3>4, <4>6
      <4> QED BY <4>3, <4>5, <4>6, <4>7
    <3> QED BY <3>2, <3>3, <3>4
  <2> QED BY <2>4, <2>5
<1> HIDE DEF c
<1>2. Alike(RestoreInputs(c, t, undoes), w) /\ RestoreIsClean(c, t, undoes)
  BY <1>1 DEF Alike, RestoreIsClean
<1> QED BY <1>2 DEF c

-----------------------------------------------------------------------------
(* The coins before and after each transaction of a block. *)
LEMMA ViewSteps ==
    ASSUME NEW view \in View, NEW b \in Block
    PROVE  /\ Len(Vtx[b]) \in Nat /\ Height(b) \in Nat
           /\ \A i \in 1 .. Len(Vtx[b]) : Vtx[b][i] \in Tx
           /\ \A i \in 0 .. Len(Vtx[b]) : Steps(view, b)[i].view \in View
           /\ Steps(view, b)[0].view = view
           /\ \A i \in 1 .. Len(Vtx[b]) :
                 Steps(view, b)[i].view
                   = UpdateCoins(Steps(view, b)[i-1].view, Vtx[b][i], Height(b))
           /\ ConnectBlock(view, b).view = Steps(view, b)[Len(Vtx[b])].view
<1> DEFINE f == Steps(view, b)
           n == Len(Vtx[b])
<1>1. Vtx[b] \in Seq(Tx) /\ n \in Nat /\ Height(b) \in Nat
  BY BlockAssumption, HeightLemma
<1>2. /\ f \in [0 .. n -> Connected] /\ f[0] = Begun(view, b)
      /\ \A i \in 1 .. n : f[i] = ConnectTx(Height(b), f[i-1], Vtx[b][i])
      /\ ConnectBlock(view, b) = f[n]
  BY StepsLemma
<1> HIDE DEF f
<1>3. \A i \in 0 .. n : f[i].view \in View
  BY <1>2 DEF Connected
<1>4. f[0].view = view
  BY <1>2 DEF Begun
<1>5. ASSUME NEW i \in 1 .. n
      PROVE  f[i].view = UpdateCoins(f[i-1].view, Vtx[b][i], Height(b))
  <2>1. f[i] = ConnectTx(Height(b), f[i-1], Vtx[b][i]) BY <1>2
  <2> QED BY <2>1 DEF ConnectTx
<1> QED BY <1>1, <1>2, <1>3, <1>4, <1>5 DEF f

(* Nor in ConnectBlock. *)
LEMMA StepsAlike ==
    ASSUME NEW v \in View, NEW w \in View, Alike(v, w), NEW b \in Block
    PROVE  \A i \in 0 .. Len(Vtx[b]) : Alike(Steps(v, b)[i].view, Steps(w, b)[i].view)
<1> DEFINE n == Len(Vtx[b])
           T == {i \in 0 .. n : Alike(Steps(v, b)[i].view, Steps(w, b)[i].view)}
<1>1. n \in Nat /\ Height(b) \in Nat /\ \A i \in 1 .. n : Vtx[b][i] \in Tx
  BY ViewSteps
<1>2. 0 \in T
  BY <1>1, ViewSteps
<1>3. ASSUME NEW i \in 0 .. n - 1, i \in T PROVE i + 1 \in T
  <2>1. i + 1 \in 1 .. n /\ (i + 1) - 1 = i
    <3>1. n \in Nat BY <1>1
    <3> HIDE DEF T, n
    <3> QED BY <3>1
  <2>2. /\ Steps(v, b)[i+1].view = UpdateCoins(Steps(v, b)[i].view, Vtx[b][i+1], Height(b))
        /\ Steps(w, b)[i+1].view = UpdateCoins(Steps(w, b)[i].view, Vtx[b][i+1], Height(b))
    BY <2>1, ViewSteps
  <2>3. Alike(Steps(v, b)[i+1].view, Steps(w, b)[i+1].view)
    BY <1>1, <1>3, <2>1, <2>2, UpdateAlike
  <2> QED BY <1>1, <2>1, <2>3
<1>4. ASSUME NEW i \in 0 .. n PROVE i \in T
  <2>1. i \in Nat /\ \A j \in 0 .. i - 1 : j \in 0 .. n - 1 BY <1>1
  <2> HIDE DEF T
  <2> QED BY <1>2, <1>3, <2>1, SetInduction
<1> QED BY <1>4

(* A block whose every transaction spends what is there and is new. *)
SpendsAll(view, b) ==
    \A i \in 1 .. Len(Vtx[b]) : SpendsCoins(Steps(view, b)[i-1].view, Vtx[b][i])

(* Such a block keeps the coins sound and flagged all along. *)
LEMMA StepsSound ==
    ASSUME NEW view \in View, NEW b \in Block, SpendsAll(view, b), NEW lost
    PROVE  \A i \in 0 .. Len(Vtx[b]) :
              /\ Sound(view) => Sound(Steps(view, b)[i].view)
              /\ Flagged(view, lost) => Flagged(Steps(view, b)[i].view, lost)
<1> DEFINE n == Len(Vtx[b])
           T == {i \in 0 .. n : /\ Sound(view) => Sound(Steps(view, b)[i].view)
                                /\ Flagged(view, lost) => Flagged(Steps(view, b)[i].view, lost)}
<1>1. n \in Nat /\ Height(b) \in Nat /\ \A i \in 1 .. n : Vtx[b][i] \in Tx
  BY ViewSteps
<1>2. 0 \in T
  BY <1>1, ViewSteps
<1>3. ASSUME NEW i \in 0 .. n - 1, i \in T PROVE i + 1 \in T
  <2>1. i + 1 \in 1 .. n /\ (i + 1) - 1 = i /\ i \in 0 .. n BY <1>1
  <2>2. Steps(view, b)[i+1].view = UpdateCoins(Steps(view, b)[i].view, Vtx[b][i+1], Height(b))
    BY <2>1, ViewSteps
  <2>3. SpendsCoins(Steps(view, b)[i].view, Vtx[b][i+1]) /\ Steps(view, b)[i].view \in View
    BY <2>1, ViewSteps DEF SpendsAll
  <2>4. /\ Sound(Steps(view, b)[i].view) => Sound(Steps(view, b)[i+1].view)
        /\ Flagged(Steps(view, b)[i].view, lost) => Flagged(Steps(view, b)[i+1].view, lost)
    BY <1>1, <2>1, <2>2, <2>3, UpdateSound
  <2> QED BY <1>1, <1>3, <2>1, <2>4
<1>4. ASSUME NEW i \in 0 .. n PROVE i \in T
  <2>1. i \in Nat /\ \A j \in 0 .. i - 1 : j \in 0 .. n - 1 BY <1>1
  <2> HIDE DEF T
  <2> QED BY <1>2, <1>3, <2>1, SetInduction
<1> QED BY <1>4

(* ConnectTx passes only what spends what is there. *)
LEMMA ConnectTxOk ==
    ASSUME NEW st \in Connected, NEW t, NEW h, ConnectTx(h, st, t).ok
    PROVE  st.ok /\ CheckInputs(st.view, t, h)
<1>1. ConnectTx(h, st, t).ok = (st.ok /\ CheckInputs(st.view, t, h))
  BY DEF ConnectTx
<1> QED BY <1>1

(* What passes ConnectBlock spends what is there, and is new. *)
LEMMA ConnectSpendsAll ==
    ASSUME NEW view \in View, NEW b \in Block, ConnectBlock(view, b).ok
    PROVE  SpendsAll(view, b) /\ \A t \in Contents(b) : view[t].avail = {}
<1> DEFINE f == Steps(view, b)
           n == Len(Vtx[b])
           Down == {i \in 0 .. n : f[n - i].ok}
           New == {i \in 0 .. n : \A j \in 1 .. n : i < j => f[i].view[Vtx[b][j]].avail = {}}
<1>1. /\ n \in Nat /\ Height(b) \in Nat /\ \A i \in 1 .. n : Vtx[b][i] \in Tx
      /\ f[0] = Begun(view, b) /\ f[0].view = view /\ f \in [0 .. n -> Connected]
      /\ \A i \in 1 .. n : /\ f[i] = ConnectTx(Height(b), f[i-1], Vtx[b][i])
                           /\ f[i].view = UpdateCoins(f[i-1].view, Vtx[b][i], Height(b))
      /\ f[n].ok
  BY ViewSteps, StepsLemma
<1> HIDE DEF f
<1>2. ASSUME NEW i \in 0 .. n PROVE f[i].ok
  <2>1. 0 \in Down
    BY <1>1
  <2>2. ASSUME NEW k \in 0 .. n - 1, k \in Down PROVE k + 1 \in Down
    <3>1. n - k \in 1 .. n /\ (n - k) - 1 = n - (k + 1) /\ k + 1 \in 0 .. n BY <1>1
    <3>2. f[n - k] = ConnectTx(Height(b), f[n - (k + 1)], Vtx[b][n - k]) BY <1>1, <3>1
    <3>5. n - (k + 1) \in 0 .. n /\ n - k \in 0 .. n BY <1>1
    <3>6. f[n - (k + 1)] \in Connected BY <1>1, <3>5
    <3>3. f[n - (k + 1)] \in Connected /\ f[n - k].ok BY <2>2, <3>6
    <3>4. f[n - (k + 1)].ok BY <3>2, <3>3, ConnectTxOk
    <3> QED BY <3>1, <3>4
  <2>3. n - i \in Nat /\ (\A k \in 0 .. (n - i) - 1 : k \in 0 .. n - 1) /\ n - (n - i) = i BY <1>1
  <2>4. n - i \in Down
    <3> HIDE DEF Down
    <3> QED BY <2>1, <2>2, <2>3, SetInduction
  <2> QED BY <2>3, <2>4
<1>3. ASSUME NEW i \in 1 .. n PROVE HaveInputs(f[i-1].view, Vtx[b][i])
  <2>1. i - 1 \in 0 .. n /\ i \in 0 .. n BY <1>1
  <2>2. f[i].ok /\ f[i] = ConnectTx(Height(b), f[i-1], Vtx[b][i]) BY <1>1, <1>2, <2>1
  <2>3. CheckInputs(f[i-1].view, Vtx[b][i], Height(b)) BY <1>1, <2>1, <2>2, ConnectTxOk
  <2> QED BY <2>3 DEF CheckInputs
<1>6. \A t \in Contents(b) : view[t].avail = {}
  <2>1. 0 \in 0 .. n BY <1>1
  <2>2. f[0].ok BY <1>2, <2>1
  <2> QED BY <1>1, <2>2 DEF Begun
<1>4. ASSUME NEW i \in 0 .. n PROVE i \in New
  <2>1. 0 \in New
    <3>2. \A j \in 1 .. n : Vtx[b][j] \in Contents(b)
      <4>1. Vtx[b] \in Seq(Tx) BY BlockAssumption
      <4>2. DOMAIN Vtx[b] = 1 .. n BY <4>1
      <4> QED BY <4>2 DEF Contents
    <3>4. \A j \in 1 .. n : f[0].view[Vtx[b][j]].avail = {}
      <4>1. f[0].view = view BY <1>1
      <4> QED BY <1>6, <3>2, <4>1
    <3>5. 0 \in 0 .. n BY <1>1
    <3> QED BY <3>4, <3>5
  <2>2. ASSUME NEW k \in 0 .. n - 1, k \in New PROVE k + 1 \in New
    <3>1. k + 1 \in 1 .. n /\ (k + 1) - 1 = k /\ k + 1 \in 0 .. n BY <1>1
    <3>2. ASSUME NEW j \in 1 .. n, k + 1 < j PROVE f[k+1].view[Vtx[b][j]].avail = {}
      <4>0. k < j BY <1>1, <3>2
      <4>1. f[k].view[Vtx[b][j]].avail = {} BY <2>2, <4>0
      <4>2. Vtx[b][j] # Vtx[b][k+1] /\ Vtx[b][j] \in Tx /\ Vtx[b][k+1] \in Tx
        <5>1. Vtx[b] \in Seq(Tx) BY BlockAssumption
        <5>2. DOMAIN Vtx[b] = 1 .. n BY <5>1
        <5>3. k + 1 # j BY <1>1, <3>2
        <5> QED BY <1>1, <3>1, <5>2, <5>3, BlockAssumption
      <4>3. HaveInputs(f[k].view, Vtx[b][k+1]) BY <1>3, <3>1
      <4>4. SpentBy(Vtx[b][k+1], Vtx[b][j]) = {}
        BY <4>1, <4>3 DEF HaveInputs, SpentBy
      <4>5. f[k+1].view = UpdateCoins(f[k].view, Vtx[b][k+1], Height(b)) BY <1>1, <3>1
      <4>6. f[k+1].view[Vtx[b][j]] = f[k].view[Vtx[b][j]]
        BY <4>2, <4>4, <4>5 DEF UpdateCoins
      <4> QED BY <4>1, <4>6
    <3> QED BY <3>1, <3>2
  <2>3. i \in Nat /\ \A k \in 0 .. i - 1 : k \in 0 .. n - 1 BY <1>1
  <2> HIDE DEF New
  <2> QED BY <2>1, <2>2, <2>3, SetInduction
<1>5. ASSUME NEW i \in 1 .. n PROVE SpendsCoins(f[i-1].view, Vtx[b][i])
  <2>1. i - 1 \in 0 .. n /\ i - 1 < i BY <1>1
  <2>2. i - 1 \in New BY <1>4, <2>1
  <2>3. f[i-1].view[Vtx[b][i]].avail = {} BY <2>1, <2>2
  <2> QED BY <1>3, <2>3 DEF SpendsCoins
<1> QED BY <1>5, <1>6 DEF SpendsAll, f

(* The undo data of a block has what each of its transactions took. *)
LEMMA StepsUndo ==
    ASSUME NEW view \in View, NEW b \in Block, NEW k \in 1 .. Len(Vtx[b])
    PROVE  \A u : u \in ConnectBlock(view, b).undo /\ u.by = Vtx[b][k]
                    <=> u \in TxUndo(Steps(view, b)[k-1].view, Vtx[b][k])
<1> DEFINE f == Steps(view, b)
           n == Len(Vtx[b])
           Took(j) == TxUndo(f[j-1].view, Vtx[b][j])
           T == {i \in 0 .. n : \A u : u \in f[i].undo <=> \E j \in 1 .. i : u \in Took(j)}
<1>1. /\ n \in Nat /\ f[0] = Begun(view, b)
      /\ \A i \in 1 .. n : f[i] = ConnectTx(Height(b), f[i-1], Vtx[b][i])
      /\ ConnectBlock(view, b) = f[n]
  BY ViewSteps, StepsLemma
<1> HIDE DEF f
<1>2. n \in T
  <2> HIDE DEF Took
  <2>1. 0 \in T
    <3>1. f[0].undo = {} BY <1>1 DEF Begun
    <3>2. 0 \in 0 .. n BY <1>1
    <3>3. ~ \E j \in 1 .. 0 : TRUE OBVIOUS
    <3>4. \A u : u \in f[0].undo <=> \E j \in 1 .. 0 : u \in Took(j)
      BY <3>1, <3>3
    <3> QED BY <3>2, <3>4
  <2>2. ASSUME NEW i \in 0 .. n - 1, i \in T PROVE i + 1 \in T
    <3>1. i + 1 \in 1 .. n /\ (i + 1) - 1 = i /\ i + 1 \in 0 .. n BY <1>1
    <3>2. f[i+1].undo = f[i].undo \cup Took(i+1)
      <4>1. f[i+1] = ConnectTx(Height(b), f[i], Vtx[b][i+1]) BY <1>1, <3>1
      <4>2. Took(i+1) = TxUndo(f[i].view, Vtx[b][i+1]) BY <3>1 DEF Took
      <4> QED BY <4>1, <4>2 DEF ConnectTx
    <3>3. 1 .. i + 1 = (1 .. i) \cup {i + 1} BY <1>1
    <3>4. ASSUME NEW u PROVE u \in f[i+1].undo <=> \E j \in 1 .. i + 1 : u \in Took(j)
      <4>1. u \in f[i].undo <=> \E j \in 1 .. i : u \in Took(j) BY <2>2
      <4> QED BY <3>2, <3>3, <4>1
    <3> QED BY <3>1, <3>4
  <2> HIDE DEF T
  <2> QED BY <1>1, <2>1, <2>2, SetInduction
<1>3. \A u : u \in f[n].undo <=> \E j \in 1 .. n : u \in Took(j)
  BY <1>2
<1>4. ASSUME NEW j \in 1 .. n, NEW u \in Took(j) PROVE u.by = Vtx[b][j]
  BY DEF TxUndo
<1>5. \A j \in 1 .. n : Vtx[b][j] = Vtx[b][k] => j = k
  <2>1. Vtx[b] \in Seq(Tx) BY BlockAssumption
  <2>2. DOMAIN Vtx[b] = 1 .. n BY <2>1
  <2> QED BY <2>2, BlockAssumption
<1>6. \A u : u \in f[n].undo /\ u.by = Vtx[b][k] <=> u \in Took(k)
  <2> HIDE DEF Took
  <2>1. ASSUME NEW u \in f[n].undo, u.by = Vtx[b][k] PROVE u \in Took(k)
    <3>1. PICK j \in 1 .. n : u \in Took(j) BY <1>3
    <3>2. j = k BY <1>4, <1>5, <2>1, <3>1
    <3> QED BY <3>1, <3>2
  <2>2. ASSUME NEW u \in Took(k) PROVE u \in f[n].undo /\ u.by = Vtx[b][k]
    <3>1. u.by = Vtx[b][k] BY <1>4
    <3>2. u \in f[n].undo BY <1>3
    <3> QED BY <3>1, <3>2
  <2> QED BY <2>1, <2>2
<1> QED BY <1>1, <1>6 DEF f

(* What DisconnectBlock needs to take a block back: at every transaction    *)
(* the coins of the chain alone are sound, and the undo data fits them.     *)
Fits(b, undoes) ==
    /\ undoes \subseteq UndoEntry
    /\ SpendsAll(CoinsOf[Parent[b]], b)
    /\ \A t \in Contents(b) : CoinsOf[Parent[b]][t].avail = {}
    /\ \A i \in 1 .. Len(Vtx[b]) :
          UndoFits(undoes, Steps(CoinsOf[Parent[b]], b)[i-1].view, Vtx[b][i])
    /\ \A i \in 0 .. Len(Vtx[b]) :
          Sound(Steps(CoinsOf[Parent[b]], b)[i].view) /\ Flagged(Steps(CoinsOf[Parent[b]], b)[i].view, {})

(* A block connected to coins like those of the chain leaves undo data that *)
(* fits and coins like those of the longer chain.                           *)
LEMMA ConnectFits ==
    ASSUME NEW v \in View, NEW b \in Block \ {Genesis}, ConnectBlock(v, b).ok,
           Alike(v, CoinsOf[Parent[b]]), Sound(CoinsOf[Parent[b]]), Flagged(CoinsOf[Parent[b]], {}), NEW lost
    PROVE  /\ Fits(b, ConnectBlock(v, b).undo)
           /\ ConnectBlock(v, b).view \in View
           /\ Alike(ConnectBlock(v, b).view, CoinsOf[b])
           /\ Flagged(v, lost) => Flagged(ConnectBlock(v, b).view, lost)
<1> DEFINE w == CoinsOf[Parent[b]]
           n == Len(Vtx[b])
<1>1. w \in View /\ CoinsOf[b] = ConnectBlock(w, b).view /\ b \in Block
  BY CoinsOfLemma, HeightLemma
<1> HIDE DEF w
<1>2. n \in Nat /\ \A i \in 1 .. n : i - 1 \in 0 .. n /\ Vtx[b][i] \in Tx
  BY <1>1, ViewSteps
<1>3. \A i \in 0 .. n : Alike(Steps(v, b)[i].view, Steps(w, b)[i].view)
  BY <1>1, StepsAlike DEF w
<1>4. SpendsAll(v, b)
  BY <1>1, ConnectSpendsAll
<1>5. SpendsAll(w, b)
  <2> SUFFICES ASSUME NEW i \in 1 .. n
               PROVE  SpendsCoins(Steps(w, b)[i-1].view, Vtx[b][i])
    BY DEF SpendsAll
  <2>1. Alike(Steps(v, b)[i-1].view, Steps(w, b)[i-1].view) BY <1>2, <1>3
  <2>2. SpendsCoins(Steps(v, b)[i-1].view, Vtx[b][i]) BY <1>4 DEF SpendsAll
  <2>3. Vtx[b][i] \in Tx /\ \A o \in Inputs[Vtx[b][i]] : o[1] \in Tx
    BY <1>2, TxAssumption
  <2> QED BY <2>1, <2>2, <2>3 DEF Alike, SpendsCoins, HaveInputs
<1>6. \A i \in 0 .. n : Sound(Steps(w, b)[i].view) /\ Flagged(Steps(w, b)[i].view, {})
  BY <1>1, <1>5, StepsSound DEF w
<1>7. ConnectBlock(v, b) \in Connected
  BY <1>1, ConnectBlockType
<1>8. ASSUME NEW i \in 1 .. n
      PROVE  UndoFits(ConnectBlock(v, b).undo, Steps(w, b)[i-1].view, Vtx[b][i])
  <2>1. \A u : u \in ConnectBlock(v, b).undo /\ u.by = Vtx[b][i]
                <=> u \in TxUndo(Steps(v, b)[i-1].view, Vtx[b][i])
    BY <1>1, StepsUndo
  <2>2. Alike(Steps(v, b)[i-1].view, Steps(w, b)[i-1].view) /\ Vtx[b][i] \in Tx
    BY <1>2, <1>3
  <2> QED BY <2>1, <2>2, TxUndoFits
<1>12. \A t \in Contents(b) : w[t].avail = {}
  <2>1. \A t \in Contents(b) : t \in Tx /\ v[t].avail = {}
    <3>1. \A t \in Contents(b) : v[t].avail = {} BY <1>1, ConnectSpendsAll
    <3>2. Vtx[b] \in Seq(Tx) BY <1>1, BlockAssumption
    <3>3. Contents(b) \subseteq Tx BY <3>2 DEF Contents
    <3> QED BY <3>1, <3>3
  <2> QED BY <2>1 DEF Alike, w
<1>9. Fits(b, ConnectBlock(v, b).undo)
  BY <1>5, <1>6, <1>7, <1>8, <1>12 DEF Fits, Connected, w
<1>10. n \in 0 .. n /\ ConnectBlock(v, b).view = Steps(v, b)[n].view
       /\ ConnectBlock(w, b).view = Steps(w, b)[n].view
  BY <1>1, <1>2, ViewSteps
<1>11. Flagged(v, lost) => Flagged(ConnectBlock(v, b).view, lost)
  BY <1>1, <1>4, <1>10, StepsSound
<1> QED BY <1>1, <1>3, <1>7, <1>9, <1>10, <1>11 DEF Connected

-----------------------------------------------------------------------------
(* DisconnectBlock, transaction by transaction. *)
Disconnected == [clean : BOOLEAN, view : View]
UndoneOf(g, b) ==
    g = [i \in 0 .. Len(Vtx[b]) |->
            IF i = 0 THEN [clean |-> TRUE, view |-> coins]
            ELSE DisconnectTx(b, Vtx[b][Len(Vtx[b]) - i + 1], g[i-1])]
Undone(b) == CHOOSE g : UndoneOf(g, b)

(* RestoreInputs makes coins of coins. *)
LEMMA RestoreType ==
    ASSUME NEW v \in View, NEW t \in Tx, NEW undoes \in SUBSET UndoEntry
    PROVE  RestoreInputs(v, t, undoes) \in View
<1> SUFFICES ASSUME NEW p \in Tx PROVE RestoreInputs(v, t, undoes)[p] \in Coin
  BY DEF RestoreInputs, View
<1>1. v[p] \in Coin /\ SpentBy(t, p) \in SUBSET Nat
  BY TxAssumption DEF View, SpentBy
<1>2. CASE SpentBy(t, p) = {}
  BY <1>1, <1>2 DEF RestoreInputs
<1>3. CASE SpentBy(t, p) # {} /\ \E u \in undoes : u.by = t /\ u.of = p
  <2> DEFINE u0 == CHOOSE u \in undoes : u.by = t /\ u.of = p
  <2>1. u0 \in UndoEntry BY <1>3
  <2>2. RestoreInputs(v, t, undoes)[p]
          = [avail |-> SpentBy(t, p), height |-> u0.height, base |-> u0.base, stake |-> FALSE]
    BY <1>3 DEF RestoreInputs
  <2> HIDE DEF u0
  <2> QED BY <1>1, <2>1, <2>2 DEF UndoEntry, Coin
<1>4. CASE SpentBy(t, p) # {} /\ ~ \E u \in undoes : u.by = t /\ u.of = p
  <2>1. RestoreInputs(v, t, undoes)[p] = [v[p] EXCEPT !.avail = @ \cup SpentBy(t, p)]
    BY <1>4 DEF RestoreInputs
  <2> QED BY <1>1, <2>1 DEF Coin
<1> QED BY <1>2, <1>3, <1>4

(* The recursion of DisconnectBlock has a solution as well. *)
LEMMA UndoneLemma ==
    ASSUME coins \in View, NEW b \in Block, undo[b] \in SUBSET UndoEntry
    PROVE  /\ Undone(b) \in [0 .. Len(Vtx[b]) -> Disconnected]
           /\ Undone(b)[0] = [clean |-> TRUE, view |-> coins]
           /\ \A i \in 1 .. Len(Vtx[b]) :
                 Undone(b)[i] = DisconnectTx(b, Vtx[b][Len(Vtx[b]) - i + 1], Undone(b)[i-1])
           /\ DisconnectBlock(b) = Undone(b)[Len(Vtx[b])]
<1> DEFINE n == Len(Vtx[b])
           first == [clean |-> TRUE, view |-> coins]
           step == [i \in Nat |-> [st \in Disconnected |->
                      IF i < n THEN DisconnectTx(b, Vtx[b][n - (i + 1) + 1], st) ELSE st]]
<1>1. n \in Nat /\ Height(b) \in Nat /\ \A i \in 1 .. n : Vtx[b][i] \in Tx
  BY ViewSteps
<1>2. ASSUME NEW st \in Disconnected, NEW t \in Tx PROVE DisconnectTx(b, t, st) \in Disconnected
  <2> DEFINE v == [st.view EXCEPT ![t] = Spent]
             ok == st.clean /\ st.view[t] = FromTx(t, Height(b)) /\ RestoreIsClean(v, t, undo[b])
  <2>1. Spent \in Coin BY <1>1, CoinTypes
  <2>2. v \in View BY <2>1 DEF Disconnected, View
  <2>3. RestoreInputs(v, t, undo[b]) \in View
    <3> HIDE DEF v
    <3> QED BY <2>2, RestoreType
  <2>4. DisconnectTx(b, t, st) = [clean |-> ok, view |-> RestoreInputs(v, t, undo[b])]
    BY DEF DisconnectTx
  <2>5. ok \in BOOLEAN OBVIOUS
  <2> HIDE DEF v, ok
  <2> QED BY <2>3, <2>4, <2>5 DEF Disconnected
<1>3. first \in Disconnected
  BY DEF Disconnected
<1>4. step \in [Nat -> [Disconnected -> Disconnected]]
  <2>1. ASSUME NEW i \in Nat, NEW st \in Disconnected PROVE step[i][st] \in Disconnected
    <3>1. i < n => Vtx[b][n - (i + 1) + 1] \in Tx
      <4>1. i < n => n - (i + 1) + 1 \in 1 .. n BY <1>1
      <4> QED BY <1>1, <4>1
    <3> QED BY <1>2, <3>1
  <2> QED BY <2>1
<1>5. PICK g : Iterates(g, Disconnected, first, step)
  <2> HIDE DEF step, first
  <2> QED BY <1>3, <1>4, Recursion
<1> DEFINE f == [i \in 0 .. n |-> g[i]]
           tx(i) == Vtx[b][n - i + 1]
<1>6. f \in [0 .. n -> Disconnected] /\ f[0] = first
  <2>1. g[0] = first /\ \A i \in 0 .. n : g[i] \in Disconnected
    <3> HIDE DEF first, step
    <3> QED BY <1>1, <1>5 DEF Iterates
  <2>2. 0 \in 0 .. n BY <1>1
  <2> HIDE DEF first
  <2> QED BY <2>1, <2>2
<1>7. ASSUME NEW i \in 1 .. n PROVE f[i] = DisconnectTx(b, tx(i), f[i-1])
  <2>1. i - 1 \in Nat /\ (i - 1) + 1 = i /\ i - 1 < n BY <1>1
  <2>2. g[i] = step[i-1][g[i-1]] /\ g[i-1] \in Disconnected
    <3> HIDE DEF step
    <3> QED BY <1>5, <2>1 DEF Iterates
  <2> QED BY <1>1, <2>1, <2>2
<1>8. UndoneOf(f, b)
  <2> DEFINE e == [i \in 0 .. n |-> IF i = 0 THEN first ELSE DisconnectTx(b, tx(i), f[i-1])]
  <2>1. ASSUME NEW i \in 0 .. n PROVE f[i] = e[i]
    <3> HIDE DEF f, tx, first
    <3>1. CASE i = 0 BY <3>1, <1>6
    <3>2. CASE i # 0
      <4>1. i \in 1 .. n BY <3>2, <1>1
      <4>2. e[i] = DisconnectTx(b, tx(i), f[i-1]) BY <3>2
      <4> QED BY <1>7, <4>1, <4>2
    <3> QED BY <3>1, <3>2
  <2>2. f = e
    <3> HIDE DEF f, tx, first
    <3> QED BY <1>1, <1>6, <2>1
  <2> HIDE DEF f
  <2> QED BY <2>2 DEF UndoneOf
<1>9. UndoneOf(Undone(b), b)
  BY <1>8 DEF Undone
<1>10. DisconnectBlock(b) = Undone(b)[n]
  BY DEF DisconnectBlock, Undone, UndoneOf
<1> DEFINE k == Undone(b)
<1>11. k[0] = first /\ \A i \in 1 .. n : k[i] = DisconnectTx(b, tx(i), k[i-1])
  <2> HIDE DEF k
  <2>1. k = [i \in 0 .. n |-> IF i = 0 THEN first ELSE DisconnectTx(b, tx(i), k[i-1])]
    BY <1>9 DEF k, UndoneOf
  <2>2. k[0] = first BY <1>1, <2>1
  <2>3. ASSUME NEW i \in 1 .. n PROVE k[i] = DisconnectTx(b, tx(i), k[i-1])
    <3>1. i \in 0 .. n /\ i # 0 BY <1>1
    <3> HIDE DEF tx, first
    <3> QED BY <2>1, <3>1
  <2> QED BY <2>2, <2>3
<1>12. k \in [0 .. n -> Disconnected]
  <2> HIDE DEF k
  <2> DEFINE T == {i \in 0 .. n : k[i] \in Disconnected}
  <2>1. 0 \in T BY <1>1, <1>3, <1>11
  <2>2. ASSUME NEW i \in 0 .. n - 1, i \in T PROVE i + 1 \in T
    <3>1. i + 1 \in 1 .. n /\ (i + 1) - 1 = i /\ n - (i + 1) + 1 \in 1 .. n BY <1>1
    <3>2. k[i+1] = DisconnectTx(b, tx(i+1), k[i]) /\ tx(i+1) \in Tx BY <1>1, <1>11, <3>1
    <3> HIDE DEF tx
    <3> QED BY <1>2, <2>2, <3>1, <3>2
  <2>3. ASSUME NEW i \in 0 .. n PROVE k[i] \in Disconnected
    <3>1. i \in Nat /\ \A j \in 0 .. i - 1 : j \in 0 .. n - 1 BY <1>1
    <3>2. i \in T
      <4> HIDE DEF T
      <4> QED BY <2>1, <2>2, <3>1, SetInduction
    <3> QED BY <3>2
  <2>4. k = [i \in 0 .. n |-> k[i]]
    BY <1>9 DEF k, UndoneOf
  <2> QED BY <2>3, <2>4
<1> QED BY <1>10, <1>11, <1>12

(* DisconnectBlock sets no coinstake flag: it is lost with a coinstake that  *)
(* the undo data names.                                                     *)
LEMMA RestoreFlags ==
    ASSUME NEW lost, NEW w \in View, Sound(w), NEW t \in Tx, SpendsCoins(w, t), NEW h \in Nat,
           NEW undoes, UndoFits(undoes, w, t), \A u \in undoes : u.of \in lost,
           NEW v \in View, Alike(v, UpdateCoins(w, t, h)), Flagged(v, lost)
    PROVE  /\ Flagged(RestoreInputs([v EXCEPT ![t] = Spent], t, undoes), lost)
           /\ Flagged(UpdateCoins(w, t, h), {}) /\ (Kind[t] = "coinstake" => t \notin lost)
                => v[t] = FromTx(t, h)
<1>1. ASSUME NEW c, c = [v EXCEPT ![t] = Spent], NEW p \in Tx,
             NEW r, r = RestoreInputs(c, t, undoes)[p]
      PROVE  Flag(r, p, lost)
  <2>1. SpentBy(t, t) = {} /\ SpentBy(t, p) \subseteq w[p].avail
    BY SpentLemma
  <2>2. v[p] \in Coin /\ Flag(v[p], p, lost)
    BY DEF View, Flagged
  <2>3. v[p].avail = UpdateCoins(w, t, h)[p].avail
    BY DEF Alike
  <2>4. CASE p = t
    <3>1. c[p] = Spent BY <1>1, <2>4 DEF View
    <3>2. r = Spent BY <1>1, <2>1, <2>4, <3>1 DEF RestoreInputs
    <3>3. r.avail = {} /\ r.stake = FALSE BY <3>2 DEF Spent
    <3> QED BY <3>3 DEF Flag
  <2>5. CASE p # t /\ SpentBy(t, p) = {}
    <3>1. c[p] = v[p] BY <1>1, <2>5 DEF View
    <3>2. r = v[p] BY <1>1, <2>5, <3>1 DEF RestoreInputs
    <3> QED BY <2>2, <3>2
  <2>6. CASE p # t /\ SpentBy(t, p) # {} /\ w[p].avail = SpentBy(t, p)
    <3>1. \E u \in undoes : u.by = t /\ u.of = p BY <2>6 DEF UndoFits
    <3> DEFINE u0 == CHOOSE u \in undoes : u.by = t /\ u.of = p
    <3>2. r = [avail |-> SpentBy(t, p), height |-> u0.height, base |-> u0.base, stake |-> FALSE]
      BY <1>1, <2>6, <3>1 DEF RestoreInputs
    <3>3. r.stake = FALSE
      <4> HIDE DEF u0
      <4> QED BY <3>2
    <3>4. p \in lost BY <3>1
    <3> QED BY <3>3, <3>4 DEF Flag
  <2>7. CASE p # t /\ SpentBy(t, p) # {} /\ w[p].avail # SpentBy(t, p)
    <3>1. UpdateCoins(w, t, h)[p] = [w[p] EXCEPT !.avail = @ \ SpentBy(t, p)]
      BY <2>7 DEF UpdateCoins
    <3>2. w[p] \in Coin BY DEF View
    <3>3. v[p].avail = w[p].avail \ SpentBy(t, p) BY <2>3, <3>1, <3>2 DEF Coin
    <3>4. v[p].avail # {} BY <2>1, <2>7, <3>3
    <3>5. ~ \E u \in undoes : u.by = t /\ u.of = p BY <2>7 DEF UndoFits
    <3>6. c[p] = v[p] BY <1>1, <2>7 DEF View
    <3>7. r = [v[p] EXCEPT !.avail = @ \cup SpentBy(t, p)]
      BY <1>1, <2>7, <3>5, <3>6 DEF RestoreInputs
    <3>8. r.avail = v[p].avail \cup SpentBy(t, p) /\ r.stake = v[p].stake
      BY <2>2, <3>7 DEF Coin
    <3>9. r.avail # {} BY <3>4, <3>8
    <3> QED BY <2>2, <3>4, <3>8, <3>9 DEF Flag
  <2> QED BY <2>4, <2>5, <2>6, <2>7
<1>2. Flagged(RestoreInputs([v EXCEPT ![t] = Spent], t, undoes), lost)
  BY <1>1 DEF Flagged
<1>3. ASSUME Flagged(UpdateCoins(w, t, h), {}), Kind[t] = "coinstake" => t \notin lost
      PROVE  v[t] = FromTx(t, h)
  <2> DEFINE d == FromTx(t, h)
  <2>1. UpdateCoins(w, t, h)[t] = d BY DEF UpdateCoins
  <2>2. v[t] \in Coin /\ d \in Coin BY CoinTypes DEF View
  <2>3. v[t].avail = d.avail /\ v[t].height = d.height /\ v[t].base = d.base
    BY <2>1 DEF Alike
  <2>4. v[t].stake = d.stake
    <3>1. Flag(d, t, {}) BY <1>3, <2>1 DEF Flagged
    <3>2. Flag(v[t], t, lost) BY DEF Flagged
    <3> HIDE DEF d
    <3> QED BY <1>3, <2>3, <3>1, <3>2 DEF Flag
  <2> HIDE DEF d
  <2>5. v[t] = d BY <2>2, <2>3, <2>4 DEF Coin
  <2> QED BY <2>5 DEF d
<1> QED BY <1>2, <1>3

(* A block without a coinstake that once was spent as a whole. *)
NoStakeLost(b, lost) == \A t \in Contents(b) : Kind[t] = "coinstake" => t \notin lost

(* Taking back the tip gives the coins of its parent, and without lost      *)
(* flags nothing is found wrong on the way.                                 *)
LEMMA DisconnectGives ==
    ASSUME coins \in View, NEW b \in Block \ {Genesis}, Fits(b, undo[b]),
           Alike(coins, CoinsOf[b]), NEW lost, \A u \in undo[b] : u.of \in lost
    PROVE  /\ DisconnectBlock(b).view \in View
           /\ Alike(DisconnectBlock(b).view, CoinsOf[Parent[b]])
           /\ Flagged(coins, lost) => Flagged(DisconnectBlock(b).view, lost)
           /\ Flagged(coins, lost) /\ NoStakeLost(b, lost) => DisconnectBlock(b).clean
<1> DEFINE w == CoinsOf[Parent[b]]
           n == Len(Vtx[b])
           f == Steps(w, b)
           g == Undone(b)
           H == Flagged(coins, lost)
           N == NoStakeLost(b, lost)
<1>1. w \in View /\ CoinsOf[b] = ConnectBlock(w, b).view /\ b \in Block
  BY CoinsOfLemma, HeightLemma
<1>2. /\ n \in Nat /\ Height(b) \in Nat /\ \A i \in 1 .. n : Vtx[b][i] \in Tx
      /\ \A i \in 0 .. n : f[i].view \in View
      /\ \A i \in 1 .. n : f[i].view = UpdateCoins(f[i-1].view, Vtx[b][i], Height(b))
      /\ f[0].view = w /\ f[n].view = CoinsOf[b]
  BY <1>1, ViewSteps
<1>3. /\ undo[b] \in SUBSET UndoEntry
      /\ \A i \in 1 .. n : /\ SpendsCoins(f[i-1].view, Vtx[b][i])
                           /\ UndoFits(undo[b], f[i-1].view, Vtx[b][i])
      /\ \A i \in 0 .. n : Sound(f[i].view) /\ Flagged(f[i].view, {})
  BY DEF Fits, SpendsAll
<1>4. /\ g \in [0 .. n -> Disconnected] /\ g[0] = [clean |-> TRUE, view |-> coins]
      /\ \A i \in 1 .. n : g[i] = DisconnectTx(b, Vtx[b][n - i + 1], g[i-1])
      /\ DisconnectBlock(b) = g[n]
  BY <1>1, <1>3, UndoneLemma
<1> HIDE DEF w, f, g
<1> DEFINE T == {i \in 0 .. n : /\ Alike(g[i].view, f[n - i].view)
                                /\ H => Flagged(g[i].view, lost)
                                /\ H /\ N => g[i].clean}
<1>5. 0 \in T
  <2>1. n - 0 = n /\ 0 \in 0 .. n BY <1>2
  <2>2. g[0].view = coins /\ g[0].clean BY <1>4
  <2> QED BY <1>2, <2>1, <2>2
<1>6. ASSUME NEW i \in 0 .. n - 1, i \in T PROVE i + 1 \in T
  <2> DEFINE k == n - i
             t == Vtx[b][k]
             v == g[i].view
             c == [v EXCEPT ![t] = Spent]
  <2>1. /\ k \in 1 .. n /\ k - 1 = n - (i + 1) /\ i + 1 \in 1 .. n /\ i + 1 \in 0 .. n
        /\ (i + 1) - 1 = i /\ n - (i + 1) + 1 = k /\ i \in 0 .. n /\ k - 1 \in 0 .. n /\ k \in 0 .. n
    <3>1. n \in Nat BY <1>2
    <3> HIDE DEF T, n
    <3> QED BY <3>1
  <2>2. t \in Tx /\ v \in View
    BY <1>2, <1>4, <2>1 DEF Disconnected
  <2>3. g[i+1] = DisconnectTx(b, t, g[i])
    BY <1>4, <2>1
  <2>4. f[k].view = UpdateCoins(f[k-1].view, t, Height(b)) /\ Alike(v, f[k].view)
    BY <1>2, <1>6, <2>1
  <2>5. f[k-1].view \in View /\ Sound(f[k-1].view) /\ SpendsCoins(f[k-1].view, t)
        /\ UndoFits(undo[b], f[k-1].view, t) /\ Flagged(f[k].view, {})
    BY <1>2, <1>3, <2>1
  <2>12. N => (Kind[t] = "coinstake" => t \notin lost)
    <3>1. DOMAIN Vtx[b] = 1 .. n BY <1>1, BlockAssumption
    <3>2. t \in Contents(b) BY <2>1, <3>1 DEF Contents
    <3> QED BY <3>2 DEF NoStakeLost
  <2> HIDE DEF k, t, v
  <2>6. Alike(RestoreInputs(c, t, undo[b]), f[k-1].view) /\ RestoreIsClean(c, t, undo[b])
    BY <1>2, <2>2, <2>4, <2>5, RestoreUndoes
  <2>7. ASSUME H
        PROVE  /\ Flagged(RestoreInputs(c, t, undo[b]), lost)
               /\ N => g[i].clean /\ v[t] = FromTx(t, Height(b))
    <3>1. Flagged(v, lost) /\ (N => g[i].clean) BY <1>6, <2>7 DEF v
    <3> DEFINE before == f[k-1].view
    <3>2. /\ before \in View /\ Sound(before) /\ SpendsCoins(before, t)
          /\ UndoFits(undo[b], before, t) /\ Alike(v, UpdateCoins(before, t, Height(b)))
          /\ Flagged(UpdateCoins(before, t, Height(b)), {})
      BY <2>4, <2>5
    <3>3. Height(b) \in Nat /\ t \in Tx /\ v \in View BY <1>2, <2>2
    <3> HIDE DEF before
    <3>4. /\ Flagged(RestoreInputs([v EXCEPT ![t] = Spent], t, undo[b]), lost)
          /\ Flagged(UpdateCoins(before, t, Height(b)), {}) /\ (Kind[t] = "coinstake" => t \notin lost)
               => v[t] = FromTx(t, Height(b))
      BY <3>1, <3>2, <3>3, RestoreFlags
    <3> QED BY <2>12, <3>1, <3>2, <3>4
  <2>8. g[i+1].view = RestoreInputs(c, t, undo[b])
    BY <2>3 DEF DisconnectTx, v
  <2>9. g[i+1].clean = (g[i].clean /\ v[t] = FromTx(t, Height(b)) /\ RestoreIsClean(c, t, undo[b]))
    <3> DEFINE ok == g[i].clean /\ v[t] = FromTx(t, Height(b)) /\ RestoreIsClean(c, t, undo[b])
    <3>1. g[i+1] = [clean |-> ok, view |-> RestoreInputs(c, t, undo[b])]
      BY <2>3 DEF DisconnectTx, v
    <3>2. g[i+1].clean = ok
      <4> HIDE DEF ok, c
      <4> QED BY <3>1
    <3> QED BY <3>2
  <2> HIDE DEF c
  <2>10. (H => Flagged(g[i+1].view, lost)) /\ (H /\ N => g[i+1].clean)
    BY <2>6, <2>7, <2>8, <2>9
  <2>11. Alike(g[i+1].view, f[n - (i+1)].view)
    BY <2>1, <2>6, <2>8
  <2> QED BY <2>1, <2>10, <2>11
<1>7. n \in T
  <2> HIDE DEF T
  <2> QED BY <1>2, <1>5, <1>6, SetInduction
<1>8. /\ Alike(g[n].view, f[n - n].view)
      /\ H => Flagged(g[n].view, lost)
      /\ H /\ N => g[n].clean
  BY <1>7
<1>9. n - n = 0 /\ n \in 0 .. n /\ g[n].view \in View
  BY <1>2, <1>4 DEF Disconnected
<1> QED BY <1>2, <1>4, <1>8, <1>9 DEF w

-----------------------------------------------------------------------------
(* The inductive invariant: but for the coinstake flags the coins are those *)
(* of the active chain alone, and the undo data in the files, of the blocks *)
(* of the chain and of those that once were in it, fits.                    *)
CoinsInv ==
    /\ tip \in Block /\ coins \in View /\ undo = [b \in Block |-> undo[b]]
    /\ Alike(coins, CoinsOf[tip])
    /\ \A b \in Block \ {Genesis} : undo[b] # NoUndo \/ b \in Path[tip] => Fits(b, undo[b])

(* The coins of the chain alone are sound and flagged. *)
LEMMA SoundChain ==
    ASSUME CoinsInv
    PROVE  Sound(CoinsOf[tip]) /\ Flagged(CoinsOf[tip], {})
<1>1. CASE tip = Genesis
  <2>1. \A p \in Tx : CoinsOf[tip][p] = Spent BY <1>1, CoinsOfLemma
  <2>2. Spent.avail = {} /\ Spent.height = 0 /\ Spent.base = FALSE /\ Spent.stake = FALSE
    BY DEF Spent
  <2> QED BY <2>1, <2>2 DEF Sound, Flagged, Flag
<1>2. CASE tip # Genesis
  <2>1. tip \in Block \ {Genesis} /\ tip \in Path[tip] BY <1>2, HeightLemma DEF CoinsInv
  <2>2. Fits(tip, undo[tip]) BY <2>1 DEF CoinsInv
  <2> DEFINE w == CoinsOf[Parent[tip]]
             n == Len(Vtx[tip])
  <2>3. w \in View /\ CoinsOf[tip] = ConnectBlock(w, tip).view
    BY <2>1, CoinsOfLemma, HeightLemma
  <2>4. n \in 0 .. n /\ ConnectBlock(w, tip).view = Steps(w, tip)[n].view
    <3> HIDE DEF w
    <3> QED BY <2>1, <2>3, ViewSteps
  <2>5. Sound(Steps(w, tip)[n].view) /\ Flagged(Steps(w, tip)[n].view, {})
    BY <2>2, <2>4 DEF Fits
  <2> QED BY <2>3, <2>4, <2>5
<1> QED BY <1>1, <1>2

(* The coinstakes whose flag may be lost, and the flags of the coins. *)
MayBeLost == {t \in Tx : SpentOnce(t)}
FlagsInv == Flagged(coins, MayBeLost)

(* The fewer flags may be lost, the more is said of them. *)
LEMMA FlaggedMore ==
    ASSUME NEW v, NEW lost, NEW more, lost \subseteq more, Flagged(v, lost)
    PROVE  Flagged(v, more)
  BY DEF Flagged, Flag

(* The undo data of the tip names what may have lost its flag. *)
LEMMA TipUndo ==
    ASSUME CoinsInv, tip # Genesis
    PROVE  /\ tip \in Block \ {Genesis} /\ Parent[tip] \in Block
           /\ Fits(tip, undo[tip])
           /\ \A u \in undo[tip] : u.of \in MayBeLost
<1>1. tip \in Block \ {Genesis} /\ tip \in Path[tip] /\ Parent[tip] \in Block
  BY HeightLemma DEF CoinsInv
<1>2. Fits(tip, undo[tip])
  BY <1>1 DEF CoinsInv
<1>3. undo[tip] \subseteq UndoEntry /\ undo[tip] # NoUndo
  BY <1>2, UndoAssumption DEF Fits, NoUndo
<1>4. ASSUME NEW u \in undo[tip] PROVE u.of \in MayBeLost
  <2>1. u.of \in Tx BY <1>3 DEF UndoEntry
  <2> QED BY <1>1, <1>3, <2>1 DEF MayBeLost, SpentOnce
<1> QED BY <1>1, <1>2, <1>4

(* The first state has the invariant. *)
LEMMA CoinsInit == LedgerInit => CoinsInv /\ FlagsInv
<1> SUFFICES ASSUME LedgerInit PROVE CoinsInv /\ FlagsInv
  OBVIOUS
<1>1. tip = Genesis /\ Genesis \in Block /\ coins = CoinsOf[tip] /\ coins \in View
  BY BlockAssumption, CoinsOfLemma DEF LedgerInit
<1>2. undo = [b \in Block |-> NoUndo] /\ Path[tip] = {Genesis}
  BY <1>1, BlockAssumption DEF LedgerInit
<1>3. CoinsInv
  BY <1>1, <1>2 DEF CoinsInv, Alike
<1>4. Flagged(coins, {})
  BY <1>1, <1>3, SoundChain
<1> QED BY <1>3, <1>4, FlaggedMore DEF FlagsInv

(* A step keeps the invariant, and the flags but for those it may lose. *)
LEMMA CoinsStep ==
    ASSUME CoinsInv, [LedgerNext]_ledgerVars
    PROVE  CoinsInv' /\ (FlagsInv => FlagsInv')
<1>1. CASE UNCHANGED chainVars
  BY <1>1 DEF chainVars, CoinsInv, FlagsInv, Flagged, MayBeLost, SpentOnce
<1>2. ASSUME NEW b \in Block \ {Genesis}, LedgerConnectTip(b)
      PROVE  CoinsInv' /\ (FlagsInv => FlagsInv')
  <2> DEFINE st == ConnectBlock(coins, b)
  <2>1. /\ Parent[b] = tip /\ st.ok /\ coins' = st.view /\ tip' = b
        /\ undo' = [undo EXCEPT ![b] = IF undo[b] = NoUndo THEN st.undo ELSE undo[b]]
    BY <1>2 DEF LedgerConnectTip
  <2>2. Sound(CoinsOf[tip]) /\ Flagged(CoinsOf[tip], {})
    BY SoundChain
  <2>3. /\ Fits(b, st.undo) /\ st.view \in View /\ Alike(st.view, CoinsOf[b])
        /\ Flagged(coins, MayBeLost) => Flagged(st.view, MayBeLost)
    <3> HIDE DEF st
    <3>1. coins \in View /\ Alike(coins, CoinsOf[Parent[b]]) BY <2>1 DEF CoinsInv
    <3> QED BY <2>1, <2>2, <3>1, ConnectFits DEF st
  <2> HIDE DEF st
  <2>4. Path[b] = Path[tip] \cup {b}
    BY <2>1, BlockAssumption
  <2>5. undo'[b] = (IF undo[b] = NoUndo THEN st.undo ELSE undo[b])
        /\ \A a \in Block : a # b => undo'[a] = undo[a]
    BY <2>1 DEF CoinsInv
  <2>6. Fits(b, undo'[b])
    BY <2>3, <2>5 DEF CoinsInv
  <2>7. \A a \in Block \ {Genesis} : undo'[a] # NoUndo \/ a \in Path[b] => Fits(a, undo'[a])
    BY <2>4, <2>5, <2>6 DEF CoinsInv
  <2>8. undo' = [a \in Block |-> undo'[a]]
    BY <2>1 DEF CoinsInv
  <2>9. CoinsInv'
    BY <2>1, <2>3, <2>7, <2>8 DEF CoinsInv
  <2>10. MayBeLost \subseteq MayBeLost'
    <3> SUFFICES ASSUME NEW t \in Tx, SpentOnce(t) PROVE SpentOnce(t)'
      BY DEF MayBeLost
    <3>1. PICK a \in Block : undo[a] # NoUndo /\ \E u \in undo[a] : u.of = t BY DEF SpentOnce
    <3>2. undo'[a] = undo[a] BY <2>5, <3>1
    <3> QED BY <3>1, <3>2 DEF SpentOnce
  <2>11. ASSUME FlagsInv PROVE FlagsInv'
    <3>1. Flagged(st.view, MayBeLost) BY <2>3, <2>11 DEF FlagsInv
    <3>2. Flagged(st.view, MayBeLost') BY <2>10, <3>1, FlaggedMore
    <3>3. Flagged(coins', MayBeLost') BY <2>1, <3>2
    <3> QED BY <3>3 DEF FlagsInv, Flagged
  <2> QED BY <2>9, <2>11
<1>3. ASSUME LedgerDisconnectTip
      PROVE  CoinsInv' /\ (FlagsInv => FlagsInv')
  <2> DEFINE st == DisconnectBlock(tip)
  <2>1. tip # Genesis /\ st.clean /\ coins' = st.view /\ tip' = Parent[tip] /\ undo' = undo
    BY <1>3 DEF LedgerDisconnectTip
  <2>2. /\ tip \in Block \ {Genesis} /\ Parent[tip] \in Block /\ Fits(tip, undo[tip])
        /\ \A x \in undo[tip] : x.of \in MayBeLost
    BY <2>1, TipUndo
  <2>4. /\ st.view \in View /\ Alike(st.view, CoinsOf[Parent[tip]])
        /\ Flagged(coins, MayBeLost) => Flagged(st.view, MayBeLost)
    <3>1. coins \in View /\ Alike(coins, CoinsOf[tip]) BY DEF CoinsInv
    <3> HIDE DEF st
    <3> QED BY <2>2, <3>1, DisconnectGives DEF st
  <2> HIDE DEF st
  <2>5. Path[Parent[tip]] \subseteq Path[tip]
    BY <2>2, BlockAssumption
  <2>6. CoinsInv'
    BY <2>1, <2>2, <2>4, <2>5 DEF CoinsInv
  <2>7. MayBeLost' = MayBeLost
    BY <2>1 DEF MayBeLost, SpentOnce
  <2>8. ASSUME FlagsInv PROVE FlagsInv'
    <3>1. Flagged(coins', MayBeLost') BY <2>1, <2>4, <2>7, <2>8 DEF FlagsInv
    <3> QED BY <3>1 DEF FlagsInv, Flagged
  <2> QED BY <2>6, <2>8
<1>4. (\E b \in Block \ {Genesis} : LedgerConnectTip(b)) \/ LedgerDisconnectTip
      \/ UNCHANGED chainVars
  BY DEF LedgerNext, ClearPool, AcceptOwn, ReceiveTx, ReceiveOrphan, OrphanAccepted,
         OrphanRefused, OrphanWaits, NextWork, EraseOrphansFor, ledgerVars
<1> QED BY <1>1, <1>2, <1>3, <1>4

(* The inductive invariant holds in every reachable state. *)
THEOREM CoinsInvariance == LedgerSpec => []CoinsInv
<1>1. LedgerInit => CoinsInv
  BY CoinsInit
<1>2. CoinsInv /\ [LedgerNext]_ledgerVars => CoinsInv'
  BY CoinsStep
<1> QED BY <1>1, <1>2, PTL DEF LedgerSpec

(* What the invariant says of the coins. *)
LEMMA FlagsDecide ==
    ASSUME CoinsInv, FlagsInv
    PROVE  CoinsAreOfChain
<1>1. coins \in View /\ CoinsOf[tip] \in View /\ Flagged(CoinsOf[tip], {})
  BY CoinsOfLemma, SoundChain DEF CoinsInv
<1>2. ASSUME NEW p \in Tx, NEW c, c = coins[p], NEW d, d = CoinsOf[tip][p]
      PROVE  \/ c = d
             \/ /\ Kind[p] = "coinstake" /\ SpentOnce(p)
                /\ c = [d EXCEPT !.stake = FALSE]
  <2>1. c \in Coin /\ d \in Coin BY <1>1, <1>2 DEF View
  <2>2. c.avail = d.avail /\ c.height = d.height /\ c.base = d.base
    BY <1>2 DEF CoinsInv, Alike
  <2>3. Flag(c, p, MayBeLost) /\ Flag(d, p, {})
    BY <1>1, <1>2 DEF FlagsInv, Flagged
  <2>4. CASE c.stake = d.stake
    <3>1. c = d BY <2>1, <2>2, <2>4 DEF Coin
    <3> QED BY <3>1
  <2>5. CASE c.stake # d.stake
    <3>1. c.stake = FALSE /\ Kind[p] = "coinstake" /\ p \in MayBeLost
      BY <2>2, <2>3, <2>5 DEF Flag
    <3>2. c = [d EXCEPT !.stake = FALSE] BY <2>1, <2>2, <3>1 DEF Coin
    <3> QED BY <3>1, <3>2 DEF MayBeLost
  <2> QED BY <2>4, <2>5
<1> QED BY <1>2 DEF CoinsAreOfChain

(* After any way of connecting and disconnecting, the coins are those of a  *)
(* node that connected the active chain alone, but for the coinstake flag   *)
(* of coinstakes that a connected block once spent with all their outputs:  *)
(* what RestoreInputs leaves undone.                                        *)
THEOREM CoinsCorrect == LedgerSpec => []CoinsAreOfChain
<1>1. LedgerInit => CoinsInv /\ FlagsInv
  BY CoinsInit
<1>2. CoinsInv /\ FlagsInv /\ [LedgerNext]_ledgerVars => CoinsInv' /\ FlagsInv'
  BY CoinsStep
<1>3. CoinsInv /\ FlagsInv => CoinsAreOfChain
  BY FlagsDecide
<1> QED BY <1>1, <1>2, <1>3, PTL DEF LedgerSpec

(* The tip can be taken off, unless it holds a coinstake that a connected   *)
(* block once spent with all its outputs.                                   *)
TipComesOff ==
    tip # Genesis =>
       \/ DisconnectBlock(tip).clean
       \/ \E t \in Contents(tip) : Kind[t] = "coinstake" /\ SpentOnce(t)

(* DisconnectBlock finds the tip inconsistent with the coins (fClean false, *)
(* which ends the reorganisation) for no other reason than a lost coinstake *)
(* flag: the undo data of a block fits however it came to be connected.     *)
THEOREM DisconnectsClean == LedgerSpec => []TipComesOff
<1>1. LedgerInit => CoinsInv /\ FlagsInv
  BY CoinsInit
<1>2. CoinsInv /\ FlagsInv /\ [LedgerNext]_ledgerVars => CoinsInv' /\ FlagsInv'
  BY CoinsStep
<1>3. CoinsInv /\ FlagsInv => TipComesOff
  <2> SUFFICES ASSUME CoinsInv, FlagsInv, tip # Genesis
               PROVE  \/ DisconnectBlock(tip).clean
                      \/ \E t \in Contents(tip) : Kind[t] = "coinstake" /\ SpentOnce(t)
    BY DEF TipComesOff
  <2>1. /\ tip \in Block \ {Genesis} /\ Fits(tip, undo[tip])
        /\ \A u \in undo[tip] : u.of \in MayBeLost
    BY TipUndo
  <2>2. NoStakeLost(tip, MayBeLost) => DisconnectBlock(tip).clean
    BY <2>1, DisconnectGives DEF CoinsInv, FlagsInv
  <2> QED BY <2>2 DEF NoStakeLost, MayBeLost
<1> QED BY <1>1, <1>2, <1>3, PTL DEF LedgerSpec

-----------------------------------------------------------------------------
(* The orphans and the handler of "tx". *)

(* The state of the handler of "tx" between two of its steps. *)
HandlerTypeOK ==
    /\ orphans \in [Tx -> Peer \cup {None}]
    /\ work \in Seq(Tx) /\ accepted \subseteq Tx /\ erase \subseteq Tx
    /\ untried \subseteq Tx

(* Once the handler is idle it has forgotten what it took. *)
ForgottenWhenIdle == work = <<>> => accepted = {} /\ untried = {}

(* An orphan that could be taken now will still be tried: for a transaction *)
(* further back in the queue, or for its head.                              *)
StillTried(o) ==
    \E i \in DOMAIN work : o \in OrphansOf(work[i]) /\ (i = 1 => o \in untried)
TakenUp(o) == \E a \in accepted : o \in OrphansOf(a)
AcceptableNow(o) == Acceptable(Pool, coins, Height(tip), o)
OrphansTried ==
    \A o \in Tx \ erase :
        TakenUp(o) /\ orphans[o] \notin misbehaving /\ AcceptableNow(o) => StillTried(o)

HandlerInv == HandlerTypeOK /\ ForgottenWhenIdle /\ OrphansTried

(* A transaction that was not acceptable and is, now that another is in the *)
(* pool, spends that other one.                                             *)
LEMMA NewlyAcceptable ==
    ASSUME NEW o \in Tx, NEW t \in Tx, AcceptableNow(o)', ~AcceptableNow(o),
           PoolIs(addUnchecked(Pool, t)), UNCHANGED chainVars
    PROVE  \E x \in Inputs[o] : x[1] = t
<1> SUFFICES ASSUME \A x \in Inputs[o] : x[1] # t PROVE FALSE
  OBVIOUS
<1>1. /\ mapTx' = mapTx \cup {t}
      /\ mapNextTx' = [x \in Outpoint |-> IF x \in Inputs[t] THEN t ELSE mapNextTx[x]]
      /\ coins' = coins /\ tip' = tip
  BY DEF PoolIs, addUnchecked, Pool, chainVars
<1>2. Pool.txs = mapTx /\ Pool.next = mapNextTx
  BY DEF Pool
<1>3. Fresh(Pool, o)
  <2>1. o \notin mapTx' /\ Kind[o] \in {"normal", "zerocoinspend"} /\ \A x \in Inputs[o] : mapNextTx'[x] = None
    BY DEF AcceptableNow, Acceptable, Fresh, Pool
  <2>2. \A x \in Inputs[o] : x \in Outpoint
    BY DEF Outpoint
  <2>3. t # None BY TxAssumption
  <2> QED BY <1>1, <1>2, <2>1, <2>2, <2>3 DEF Fresh
<1>4. o \notin PoolRefuses
  BY DEF AcceptableNow, Acceptable
<1>5. CASE Kind[o] = "zerocoinspend"
  <2>1. ~InChain(o, tip)'
    BY <1>5 DEF AcceptableNow, Acceptable
  <2>2. ~InChain(o, tip)
    BY <2>1, <1>1 DEF InChain
  <2> QED BY <1>3, <1>4, <1>5, <2>2 DEF AcceptableNow, Acceptable
<1>6. CASE Kind[o] # "zerocoinspend"
  <2>1. coins[o].avail = {} /\ CheckInputs(PoolView(Pool, coins, Height(tip))', o, Height(tip) + 1)
    BY <1>6, <1>1 DEF AcceptableNow, Acceptable, Height, CheckInputs, HaveInputs
  <2>2. \A x \in Inputs[o] :
           PoolView(Pool, coins, Height(tip))'[x[1]] = PoolView(Pool, coins, Height(tip))[x[1]]
    <3>1. \A x \in Inputs[o] : x[1] \in Tx BY TxAssumption
    <3> QED BY <1>1, <1>2, <3>1 DEF PoolView, FromTx, Height, Pool
  <2>3. CheckInputs(PoolView(Pool, coins, Height(tip)), o, Height(tip) + 1)
    BY <2>1, <2>2 DEF CheckInputs, HaveInputs
  <2> QED BY <1>3, <1>4, <1>6, <2>1, <2>3 DEF AcceptableNow, Acceptable
<1> QED BY <1>5, <1>6

(* What is missing inputs is not acceptable. *)
LEMMA MissingIsNotAcceptable ==
    ASSUME NEW o \in Tx, fMissingInputs(Pool, coins, o)
    PROVE  ~AcceptableNow(o)
<1>1. PICK x \in Inputs[o] : x[1] \notin mapTx /\ coins[x[1]].avail = {}
  BY DEF fMissingInputs, Pool
<1>2. Kind[o] # "zerocoinspend" /\ x[1] \in Tx
  BY <1>1, TxAssumption
<1>3. PoolView(Pool, coins, Height(tip))[x[1]].avail = {}
  BY <1>1, <1>2 DEF PoolView, Pool
<1> QED BY <1>1, <1>2, <1>3 DEF AcceptableNow, Acceptable, CheckInputs, HaveInputs

(* The handler's steps leave the pool or add to it one by one. *)
LEMMA HandlerStart == LedgerInit => HandlerInv
<1> SUFFICES ASSUME LedgerInit PROVE HandlerInv
  OBVIOUS
<1>1. HandlerTypeOK
  <2>1. <<>> \in Seq(Tx) OBVIOUS
  <2> QED BY <2>1 DEF LedgerInit, HandlerTypeOK
<1> QED BY <1>1 DEF LedgerInit, HandlerInv, ForgottenWhenIdle, OrphansTried, TakenUp

(* Steps of others happen while the handler is idle. *)
LEMMA IdleSteps ==
    ASSUME HandlerInv, HandlerIdle, UNCHANGED <<work, untried, erase, accepted>>,
           orphans' \in [Tx -> Peer \cup {None}]
    PROVE  HandlerInv'
<1>1. accepted' = {} /\ work' = work
  BY DEF HandlerInv, ForgottenWhenIdle, HandlerIdle
<1>2. HandlerTypeOK'
  BY DEF HandlerInv, HandlerTypeOK
<1> QED BY <1>1, <1>2 DEF HandlerInv, ForgottenWhenIdle, OrphansTried, TakenUp

(* A transaction that is taken starts the queue with all its orphans to try. *)
LEMMA ReceiveTxKeeps ==
    ASSUME HandlerInv, NEW t \in Tx, ReceiveTx(t)
    PROVE  HandlerInv'
<1>1. CASE Kind[t] = "zerocoinspend"
  <2>1. HandlerIdle /\ UNCHANGED <<work, untried, erase, accepted, orphans>>
    BY <1>1 DEF ReceiveTx
  <2> QED BY <2>1, IdleSteps DEF HandlerInv, HandlerTypeOK
<1>2. CASE Kind[t] # "zerocoinspend"
  <2>1. /\ work' = <<t>> /\ untried' = OrphansOf(t) /\ accepted' = {t}
        /\ orphans' = orphans /\ erase' = erase /\ misbehaving' = misbehaving
    BY <1>2 DEF ReceiveTx
  <2>2. OrphansOf(t)' = OrphansOf(t) /\ OrphansOf(t) \subseteq Tx
    BY <2>1 DEF OrphansOf
  <2>3. HandlerTypeOK'
    <3>1. <<t>> \in Seq(Tx) OBVIOUS
    <3> QED BY <2>1, <2>2, <3>1 DEF HandlerInv, HandlerTypeOK
  <2>4. work'[1] = t /\ 1 \in DOMAIN work' /\ work' # <<>>
    BY <2>1
  <2>5. OrphansTried'
    BY <2>1, <2>2, <2>4 DEF OrphansTried, TakenUp, StillTried
  <2> QED BY <2>3, <2>4, <2>5 DEF HandlerInv, ForgottenWhenIdle
<1> QED BY <1>1, <1>2

(* What an orphan makes acceptable spends it, and it joins the queue. *)
LEMMA OrphanAcceptedKeeps ==
    ASSUME HandlerInv, NEW t \in Tx, OrphanAccepted(t)
    PROVE  HandlerInv'
<1>1. /\ work' = Append(work, t) /\ accepted' = accepted \cup {t} /\ erase' = erase \cup {t}
      /\ untried' = untried \ {t} /\ UNCHANGED chainVars /\ orphans' = orphans
      /\ misbehaving' = misbehaving /\ PoolIs(addUnchecked(Pool, t))
  BY DEF OrphanAccepted
<1>2. HandlerTypeOK' /\ work' # <<>>
  BY <1>1 DEF HandlerInv, HandlerTypeOK
<1>3. /\ DOMAIN work \subseteq DOMAIN work' /\ \A i \in DOMAIN work : work'[i] = work[i]
      /\ Len(work) + 1 \in DOMAIN work' /\ work'[Len(work) + 1] = t /\ Len(work) + 1 # 1
  <2>1. work \in Seq(Tx) /\ work # <<>>
    BY DEF HandlerInv, HandlerTypeOK, ForgottenWhenIdle, OrphanAccepted
  <2>2. Len(work) \in Nat /\ Len(work) # 0 BY <2>1
  <2>3. /\ DOMAIN work \subseteq DOMAIN work' /\ \A i \in DOMAIN work : work'[i] = work[i]
        /\ Len(work) + 1 \in DOMAIN work' /\ work'[Len(work) + 1] = t
    BY <1>1, <2>1
  <2> QED BY <2>2, <2>3
<1>4. \A a : OrphansOf(a)' = OrphansOf(a)
  BY <1>1 DEF OrphansOf
<1>5. ASSUME NEW o \in Tx, o \notin erase', TakenUp(o)', orphans'[o] \notin misbehaving', AcceptableNow(o)'
      PROVE  StillTried(o)'
  <2>1. CASE o \in OrphansOf(t)
    BY <2>1, <1>3, <1>4 DEF StillTried
  <2>2. CASE o \notin OrphansOf(t)
    <3>1. TakenUp(o) /\ o \notin erase /\ o # t
      BY <1>1, <1>4, <1>5, <2>2 DEF TakenUp
    <3>2. orphans[o] # None
      BY <3>1 DEF TakenUp, OrphansOf
    <3>3. AcceptableNow(o)
      <4>1. SUFFICES ASSUME ~AcceptableNow(o) PROVE FALSE
        OBVIOUS
      <4>2. \E x \in Inputs[o] : x[1] = t
        BY <1>1, <1>5, <4>1, NewlyAcceptable
      <4> QED BY <2>2, <3>2, <4>2 DEF OrphansOf
    <3>4. StillTried(o)
      BY <1>1, <1>5, <3>1, <3>3 DEF HandlerInv, OrphansTried
    <3>5. PICK i \in DOMAIN work : o \in OrphansOf(work[i]) /\ (i = 1 => o \in untried)
      BY <3>4 DEF StillTried
    <3>6. i \in DOMAIN work' /\ (i = 1 => o \in untried')
      BY <1>1, <1>3, <3>1, <3>5
    <3>7. o \in OrphansOf(work[i])'
      BY <1>1, <1>3, <3>5 DEF OrphansOf
    <3> QED BY <3>6, <3>7 DEF StillTried
  <2> QED BY <2>1, <2>2
<1> QED BY <1>2, <1>5 DEF HandlerInv, ForgottenWhenIdle, OrphansTried

(* An orphan that is not taken could not be taken now. *)
LEMMA TriedKeeps ==
    ASSUME HandlerInv, NEW t \in Tx, OrphanRefused(t) \/ OrphanWaits(t)
    PROVE  HandlerInv'
<1>1. /\ work' = work /\ accepted' = accepted /\ untried' = untried \ {t}
      /\ UNCHANGED chainVars /\ UNCHANGED poolVars /\ orphans' = orphans
      /\ erase \subseteq erase' /\ erase' \subseteq Tx /\ misbehaving \subseteq misbehaving'
      /\ t \in erase' \/ orphans[t] \in misbehaving \/ ~AcceptableNow(t)
  <2>1. CASE OrphanRefused(t)
    BY <2>1 DEF OrphanRefused, HandlerInv, HandlerTypeOK
  <2>2. CASE OrphanWaits(t)
    BY <2>2, MissingIsNotAcceptable DEF OrphanWaits, HandlerInv, HandlerTypeOK
  <2> QED BY <2>1, <2>2
<1>2. HandlerTypeOK' /\ ForgottenWhenIdle'
  BY <1>1 DEF HandlerInv, HandlerTypeOK, ForgottenWhenIdle
<1>3. \A a : OrphansOf(a)' = OrphansOf(a)
  BY <1>1 DEF OrphansOf
<1>4. \A o : AcceptableNow(o)' <=> AcceptableNow(o)
  BY <1>1 DEF AcceptableNow, Acceptable, Fresh, InChain, CheckInputs, HaveInputs, PoolView,
              Height, Pool, chainVars, poolVars
<1>5. ASSUME NEW o \in Tx, o \notin erase', TakenUp(o)', orphans'[o] \notin misbehaving', AcceptableNow(o)'
      PROVE  StillTried(o)'
  <2>1. /\ TakenUp(o) /\ o \notin erase /\ orphans[o] \notin misbehaving /\ AcceptableNow(o)
        /\ o # t
    BY <1>1, <1>3, <1>4, <1>5 DEF TakenUp
  <2>2. StillTried(o)
    BY <2>1 DEF HandlerInv, OrphansTried
  <2> QED BY <1>1, <1>3, <2>1, <2>2 DEF StillTried
<1> QED BY <1>2, <1>5 DEF HandlerInv, OrphansTried

(* The next of the queue comes with all its orphans; at its end all is forgotten. *)
LEMMA NextWorkKeeps ==
    ASSUME HandlerInv, NextWork
    PROVE  HandlerInv'
<1>1. CASE Len(work) > 1
  <2>1. /\ work' = Tail(work) /\ untried' = OrphansOf(work[2]) /\ accepted' = accepted
        /\ UNCHANGED chainVars /\ UNCHANGED poolVars /\ orphans' = orphans
        /\ erase' = erase /\ misbehaving' = misbehaving /\ untried = {} /\ work # <<>>
    BY <1>1 DEF NextWork
  <2>2. OrphansOf(work[2]) \subseteq Tx BY DEF OrphansOf
  <2>3. /\ Tail(work) \in Seq(Tx) /\ Tail(work) # <<>>
        /\ \A i \in DOMAIN work : i # 1 => i - 1 \in DOMAIN Tail(work) /\ Tail(work)[i-1] = work[i]
    <3>1. work \in Seq(Tx) /\ Len(work) \in Nat
      BY DEF HandlerInv, HandlerTypeOK
    <3>2. Tail(work) \in Seq(Tx) /\ Len(Tail(work)) = Len(work) - 1
      BY <1>1, <2>1, <3>1
    <3>3. ASSUME NEW i \in 2 .. Len(work) PROVE i - 1 \in DOMAIN Tail(work) /\ Tail(work)[i-1] = work[i]
      BY <2>1, <3>1, <3>2
    <3>4. \A i \in DOMAIN work : i # 1 => i \in 2 .. Len(work) BY <3>1
    <3>5. Tail(work) # <<>>
      <4>1. Len(Tail(work)) # 0 BY <1>1, <3>1, <3>2
      <4>2. Len(<<>>) = 0 OBVIOUS
      <4> QED BY <4>1, <4>2
    <3> QED BY <3>2, <3>3, <3>4, <3>5
  <2>4. HandlerTypeOK' /\ ForgottenWhenIdle'
    BY <2>1, <2>2, <2>3 DEF HandlerInv, HandlerTypeOK, ForgottenWhenIdle
  <2>5. \A a : OrphansOf(a)' = OrphansOf(a)
    BY <2>1 DEF OrphansOf
  <2>6. \A o : AcceptableNow(o)' <=> AcceptableNow(o)
    BY <2>1 DEF AcceptableNow, Acceptable, Fresh, InChain, CheckInputs, HaveInputs, PoolView,
              Height, Pool, chainVars, poolVars
  <2>7. ASSUME NEW o \in Tx, o \notin erase', TakenUp(o)', orphans'[o] \notin misbehaving', AcceptableNow(o)'
        PROVE  StillTried(o)'
    <3>1. TakenUp(o) /\ o \notin erase /\ orphans[o] \notin misbehaving /\ AcceptableNow(o)
      BY <2>1, <2>5, <2>6, <2>7 DEF TakenUp
    <3>2. StillTried(o)
      BY <3>1 DEF HandlerInv, OrphansTried
    <3>3. PICK i \in DOMAIN work : o \in OrphansOf(work[i]) /\ (i = 1 => o \in untried)
      BY <3>2 DEF StillTried
    <3>4. i # 1 /\ i - 1 \in DOMAIN work' /\ work'[i-1] = work[i]
      BY <2>1, <2>3, <3>3
    <3>5. i - 1 = 1 => o \in untried'
      <4>1. i \in Nat BY <3>3 DEF HandlerInv, HandlerTypeOK
      <4> QED BY <2>1, <3>3, <4>1
    <3> QED BY <2>5, <3>3, <3>4, <3>5 DEF StillTried
  <2> QED BY <2>4, <2>7 DEF HandlerInv, OrphansTried
<1>2. CASE ~(Len(work) > 1)
  <2>1. /\ accepted' = {} /\ untried' = {} /\ erase' = {} /\ work' = Tail(work) /\ work # <<>>
        /\ orphans' = [o \in Tx |-> IF o \in erase THEN None ELSE orphans[o]]
    BY <1>2 DEF NextWork
  <2>2. Tail(work) \in Seq(Tx)
    BY <2>1 DEF HandlerInv, HandlerTypeOK
  <2>3. orphans' \in [Tx -> Peer \cup {None}]
    BY <2>1 DEF HandlerInv, HandlerTypeOK
  <2>4. HandlerTypeOK'
    BY <2>1, <2>2, <2>3 DEF HandlerTypeOK
  <2> QED BY <2>1, <2>4 DEF HandlerInv, ForgottenWhenIdle, OrphansTried, TakenUp
<1> QED BY <1>1, <1>2

(* Orphans come while the handler is idle. *)
LEMMA ReceiveOrphanKeeps ==
    ASSUME HandlerInv, NEW t \in Tx, NEW p \in Peer, ReceiveOrphan(t, p)
    PROVE  HandlerInv'
<1>1. [orphans EXCEPT ![t] = p] \in [Tx -> Peer \cup {None}]
  BY DEF HandlerInv, HandlerTypeOK
<1>2. orphans' \in [Tx -> Peer \cup {None}]
  <2> DEFINE held == [orphans EXCEPT ![t] = p]
             all  == {o \in Tx : held[o] # None}
  <2>1. \/ orphans' = held
        \/ \E o \in all : orphans' = [held EXCEPT ![o] = None]
    BY DEF ReceiveOrphan
  <2>2. held \in [Tx -> Peer \cup {None}] BY <1>1
  <2> HIDE DEF held
  <2> QED BY <2>1, <2>2
<1>3. HandlerIdle /\ UNCHANGED <<work, untried, erase, accepted>>
  BY DEF ReceiveOrphan
<1> QED BY <1>2, <1>3, IdleSteps

(* Every step keeps the invariant. *)
LEMMA HandlerStep == HandlerInv /\ [LedgerNext]_ledgerVars => HandlerInv'
<1> SUFFICES ASSUME HandlerInv, [LedgerNext]_ledgerVars PROVE HandlerInv'
  OBVIOUS
<1>0. orphans \in [Tx -> Peer \cup {None}]
  BY DEF HandlerInv, HandlerTypeOK
<1>1. ASSUME NEW b \in Block, LedgerConnectTip(b) PROVE HandlerInv'
  BY <1>0, <1>1, IdleSteps DEF LedgerConnectTip, handlerVars
<1>2. CASE LedgerDisconnectTip
  BY <1>0, <1>2, IdleSteps DEF LedgerDisconnectTip, handlerVars
<1>3. CASE ClearPool
  BY <1>0, <1>3, IdleSteps DEF ClearPool, handlerVars
<1>4. ASSUME NEW t \in Tx, AcceptOwn(t) PROVE HandlerInv'
  BY <1>0, <1>4, IdleSteps DEF AcceptOwn, handlerVars
<1>5. ASSUME NEW p \in Peer, EraseOrphansFor(p) PROVE HandlerInv'
  <2>1. orphans' \in [Tx -> Peer \cup {None}]
    BY <1>0, <1>5 DEF EraseOrphansFor
  <2> QED BY <1>5, <2>1, IdleSteps DEF EraseOrphansFor
<1>6. CASE UNCHANGED ledgerVars
  <2>1. UNCHANGED chainVars /\ UNCHANGED poolVars /\ UNCHANGED handlerVars
    BY <1>6 DEF ledgerVars
  <2>2. \A o : AcceptableNow(o)' <=> AcceptableNow(o)
    BY <2>1 DEF AcceptableNow, Acceptable, Fresh, InChain, CheckInputs, HaveInputs, PoolView,
                Height, Pool, chainVars, poolVars
  <2>3. \A o : (TakenUp(o)' <=> TakenUp(o)) /\ (StillTried(o)' <=> StillTried(o))
    BY <2>1 DEF handlerVars, TakenUp, StillTried, OrphansOf
  <2>4. HandlerTypeOK' /\ ForgottenWhenIdle'
    BY <2>1 DEF handlerVars, HandlerInv, HandlerTypeOK, ForgottenWhenIdle
  <2> QED BY <2>1, <2>2, <2>3, <2>4 DEF handlerVars, HandlerInv, OrphansTried
<1> QED BY <1>1, <1>2, <1>3, <1>4, <1>5, <1>6, ReceiveTxKeeps, ReceiveOrphanKeeps, OrphanAcceptedKeeps,
           TriedKeeps, NextWorkKeeps DEF LedgerNext

(* The invariant of the handler holds in every reachable state. *)
LEMMA HandlerInvariance == LedgerSpec => []HandlerInv
  BY HandlerStart, HandlerStep, PTL DEF LedgerSpec

(* The handler of "tx" leaves no orphan behind that spends a transaction it *)
(* took and could be taken, at the end of a queue of any length and however *)
(* the orphans depend on each other.                                        *)
THEOREM NoOrphanLeftBehind == LedgerSpec => []OrphansFollow
<1>1. HandlerInv => OrphansFollow
  <2> SUFFICES ASSUME HandlerInv, work # <<>>, Len(work) = 1, untried = {},
                      NEW o \in Tx \ erase, TakenUp(o), orphans[o] \notin misbehaving, AcceptableNow(o)
               PROVE  FALSE
    BY DEF OrphansFollow, TakenUp, AcceptableNow
  <2>1. StillTried(o) BY DEF HandlerInv, OrphansTried
  <2>2. PICK i \in DOMAIN work : i = 1 => o \in untried BY <2>1 DEF StillTried
  <2>3. i = 1 BY <2>2 DEF HandlerInv, HandlerTypeOK
  <2> QED BY <2>2, <2>3
<1> QED BY <1>1, HandlerInvariance, PTL

-----------------------------------------------------------------------------
(* The pool as a value: its transactions, and who spends an outpoint. *)
PoolState == [txs : SUBSET Tx, next : [Outpoint -> Tx \cup {None}]]

(* mapNextTx holds the inputs of the pool's transactions and no others. *)
WellKept(pool) ==
    /\ pool \in PoolState
    /\ \A t \in pool.txs :
          Kind[t] \in {"normal", "zerocoinspend"} /\ \A o \in Inputs[t] : pool.next[o] = t
    /\ \A o \in Outpoint :
          pool.next[o] # None => pool.next[o] \in pool.txs /\ o \in Inputs[pool.next[o]]

(* Inputs are outpoints, and name a transaction and a number. *)
LEMMA OutpointFacts ==
    /\ \A t \in Tx : \A o \in Inputs[t] : o \in Outpoint /\ o[1] \in Tx /\ o = <<o[1], o[2]>>
    /\ \A o \in Outpoint : o[1] \in Tx
<1>1. \A t \in Tx : Inputs[t] \subseteq Tx \X Nat
  BY TxAssumption
<1>2. Outpoint \subseteq Tx \X Nat
  BY <1>1 DEF Outpoint
<1>3. \A t \in Tx : Inputs[t] \subseteq Outpoint
  BY DEF Outpoint
<1> QED BY <1>1, <1>2, <1>3

(* Reached: the recursion of WithSpenders. *)
ReachOf(f, pool, T) ==
    f = [n \in 0 .. Cardinality(Tx) |->
            IF n = 0 THEN T ELSE f[n-1] \cup Spenders(pool, f[n-1])]
Reach(pool, T) == CHOOSE f : ReachOf(f, pool, T)

(* There is such a function, so Reach is one. *)
LEMMA ReachLemma ==
    ASSUME NEW pool \in PoolState, NEW T \in SUBSET Tx
    PROVE  /\ Cardinality(Tx) \in Nat
           /\ Reach(pool, T) \in [0 .. Cardinality(Tx) -> SUBSET Tx]
           /\ Reach(pool, T)[0] = T
           /\ \A n \in 1 .. Cardinality(Tx) :
                 Reach(pool, T)[n] = Reach(pool, T)[n-1] \cup Spenders(pool, Reach(pool, T)[n-1])
           /\ WithSpenders(pool, T) = Reach(pool, T)[Cardinality(Tx)]
<1> DEFINE c == Cardinality(Tx)
           next(X) == X \cup Spenders(pool, X)
           step == [n \in Nat |-> [X \in SUBSET Tx |-> next(X)]]
<1>1. c \in Nat
  BY TxAssumption, FS_CardinalityType
<1>2. \A X \in SUBSET Tx : next(X) \in SUBSET Tx
  BY DEF Spenders, PoolState
<1>3. step \in [Nat -> [SUBSET Tx -> SUBSET Tx]]
  <2> HIDE DEF next
  <2> QED BY <1>2
<1>4. PICK g : Iterates(g, SUBSET Tx, T, step)
  <2> HIDE DEF step
  <2> QED BY <1>3, Recursion
<1> DEFINE f == [n \in 0 .. c |-> g[n]]
<1>5. \A n \in Nat : g[n] \in SUBSET Tx /\ g[n+1] = next(g[n])
  <2> SUFFICES ASSUME NEW n \in Nat PROVE g[n] \in SUBSET Tx /\ g[n+1] = next(g[n])
    OBVIOUS
  <2>1. g[n] \in SUBSET Tx /\ g[n+1] = step[n][g[n]]
    <3> HIDE DEF step
    <3> QED BY <1>4 DEF Iterates
  <2> HIDE DEF next
  <2> QED BY <2>1
<1> HIDE DEF next
<1>6. ReachOf(f, pool, T)
  <2> DEFINE e == [n \in 0 .. c |-> IF n = 0 THEN T ELSE next(f[n-1])]
  <2>1. ASSUME NEW n \in 0 .. c PROVE f[n] = e[n]
    <3>1. CASE n = 0 BY <1>1, <1>4, <3>1 DEF Iterates
    <3>2. CASE n # 0
      <4>1. n - 1 \in Nat /\ n - 1 \in 0 .. c /\ (n - 1) + 1 = n BY <1>1, <3>2
      <4>2. g[n] = next(g[n-1]) BY <1>5, <4>1
      <4>3. f[n-1] = g[n-1] /\ f[n] = g[n] BY <4>1
      <4> HIDE DEF f
      <4> QED BY <3>2, <4>2, <4>3
    <3> QED BY <3>1, <3>2
  <2>2. f = e
    <3>1. f = [n \in 0 .. c |-> f[n]] OBVIOUS
    <3> HIDE DEF f
    <3> QED BY <2>1, <3>1
  <2> HIDE DEF f
  <2> QED BY <2>2 DEF ReachOf, next
<1>7. ReachOf(Reach(pool, T), pool, T)
  BY <1>6 DEF Reach
<1>8. WithSpenders(pool, T) = Reach(pool, T)[c]
  BY DEF WithSpenders, Reach, ReachOf
<1> DEFINE k == Reach(pool, T)
<1>9. k[0] = T /\ \A n \in 1 .. c : k[n] = next(k[n-1])
  <2> HIDE DEF k
  <2>1. k = [n \in 0 .. c |-> IF n = 0 THEN T ELSE next(k[n-1])]
    BY <1>7 DEF k, ReachOf, next
  <2>2. k[0] = T BY <1>1, <2>1
  <2>3. ASSUME NEW n \in 1 .. c PROVE k[n] = next(k[n-1])
    <3>1. n \in 0 .. c /\ n # 0 BY <1>1
    <3> QED BY <2>1, <3>1
  <2> QED BY <2>2, <2>3
<1>10. k \in [0 .. c -> SUBSET Tx]
  <2> HIDE DEF k
  <2> DEFINE U == {n \in 0 .. c : k[n] \in SUBSET Tx}
  <2>1. 0 \in U BY <1>1, <1>9
  <2>2. ASSUME NEW n \in 0 .. c - 1, n \in U PROVE n + 1 \in U
    <3>1. n + 1 \in 1 .. c /\ (n + 1) - 1 = n BY <1>1
    <3>2. k[n+1] = next(k[n]) BY <1>9, <3>1
    <3>3. next(k[n]) \in SUBSET Tx BY <1>2, <2>2 DEF next
    <3> QED BY <3>1, <3>2, <3>3
  <2>3. ASSUME NEW n \in 0 .. c PROVE k[n] \in SUBSET Tx
    <3>1. n \in Nat /\ \A j \in 0 .. n - 1 : j \in 0 .. c - 1 BY <1>1
    <3>2. n \in U
      <4> HIDE DEF U
      <4> QED BY <2>1, <2>2, <3>1, SetInduction
    <3> QED BY <3>2
  <2>4. k = [n \in 0 .. c |-> k[n]]
    BY <1>7 DEF k, ReachOf
  <2> QED BY <2>3, <2>4
<1> QED BY <1>1, <1>8, <1>9, <1>10 DEF next

(* So many steps reach all that spends from T, over any number of others:  *)
(* a step that finds something new adds one, and Tx is finite.             *)
LEMMA SpendersClosed ==
    ASSUME NEW pool \in PoolState, NEW T \in SUBSET Tx
    PROVE  /\ T \subseteq WithSpenders(pool, T) /\ WithSpenders(pool, T) \subseteq Tx
           /\ Spenders(pool, WithSpenders(pool, T)) \subseteq WithSpenders(pool, T)
<1> DEFINE c == Cardinality(Tx)
           k == Reach(pool, T)
           Closed(n) == Spenders(pool, k[n]) \subseteq k[n]
           U == {n \in 0 .. c : T \subseteq k[n] /\ (Closed(n) \/ Cardinality(k[n]) >= n)}
<1>1. /\ c \in Nat /\ IsFiniteSet(Tx)
      /\ k \in [0 .. c -> SUBSET Tx] /\ k[0] = T
      /\ \A n \in 1 .. c : k[n] = k[n-1] \cup Spenders(pool, k[n-1])
      /\ WithSpenders(pool, T) = k[c]
  BY ReachLemma, TxAssumption
<1> HIDE DEF k
<1>2. \A X \in SUBSET Tx : Spenders(pool, X) \subseteq Tx
  BY DEF Spenders, PoolState
<1>3. \A n \in 0 .. c : IsFiniteSet(k[n]) /\ Cardinality(k[n]) \in Nat
  BY <1>1, FS_Subset, FS_CardinalityType
<1>4. 0 \in U
  <2>1. 0 \in 0 .. c BY <1>1
  <2>2. Cardinality(k[0]) >= 0 BY <1>3, <2>1
  <2> QED BY <1>1, <2>1, <2>2
<1>5. ASSUME NEW n \in 0 .. c - 1, n \in U PROVE n + 1 \in U
  <2>1. n + 1 \in 1 .. c /\ (n + 1) - 1 = n /\ n \in 0 .. c /\ n + 1 \in 0 .. c BY <1>1
  <2>2. k[n+1] = k[n] \cup Spenders(pool, k[n]) BY <1>1, <2>1
  <2>3. T \subseteq k[n+1] BY <1>5, <2>2
  <2>4. CASE Closed(n)
    <3>1. k[n+1] = k[n] BY <2>2, <2>4
    <3>2. Closed(n+1) BY <2>4, <3>1
    <3> QED BY <2>1, <2>3, <3>2
  <2>5. CASE ~Closed(n)
    <3>1. Cardinality(k[n]) >= n BY <1>5, <2>5
    <3>2. k[n] \subseteq k[n+1] /\ k[n] # k[n+1] BY <2>2, <2>5
    <3>3. Cardinality(k[n]) < Cardinality(k[n+1]) BY <1>3, <2>1, <3>2, FS_Subset
    <3>4. Cardinality(k[n+1]) >= n + 1 BY <1>3, <2>1, <3>1, <3>3
    <3> QED BY <2>1, <2>3, <3>4
  <2> QED BY <2>4, <2>5
<1>6. c \in U
  <2> HIDE DEF U
  <2> QED BY <1>1, <1>4, <1>5, SetInduction
<1>7. Closed(c)
  <2>1. CASE Cardinality(k[c]) >= c
    <3>1. k[c] \subseteq Tx /\ c \in 0 .. c BY <1>1
    <3>2. k[c] = Tx
      <4>1. Cardinality(k[c]) <= c /\ (c = Cardinality(k[c]) => Tx = k[c])
        <5>1. k[c] \in SUBSET Tx BY <3>1
        <5> QED BY <1>1, <5>1, FS_Subset
      <4>2. Cardinality(k[c]) \in Nat BY <1>3, <3>1
      <4>3. c = Cardinality(k[c])
        <5> HIDE DEF c
        <5> QED BY <1>1, <2>1, <4>1, <4>2
      <4> QED BY <4>1, <4>3
    <3> QED BY <1>2, <3>2
  <2> QED BY <1>6, <2>1
<1>8. k[c] \subseteq Tx /\ T \subseteq k[c]
  BY <1>1, <1>6
<1> QED BY <1>1, <1>7, <1>8

(* Taking transactions out keeps the pool in order. *)
LEMMA ErasedKept ==
    ASSUME NEW pool, WellKept(pool), NEW gone, gone \subseteq pool.txs
    PROVE  WellKept(Erased(pool, gone)) /\ Erased(pool, gone).txs = pool.txs \ gone
<1> DEFINE q == Erased(pool, gone)
           n(o) == IF \E t \in gone : o \in Inputs[t] THEN None ELSE pool.next[o]
<1>1. /\ pool.txs \in SUBSET Tx /\ pool.next \in [Outpoint -> Tx \cup {None}] /\ None \notin Tx
      /\ \A t \in pool.txs : \A o \in Inputs[t] : o \in Outpoint
  BY TxAssumption, OutpointFacts DEF WellKept, PoolState
<1>2. q.txs = pool.txs \ gone /\ q.next = [o \in Outpoint |-> n(o)]
  BY DEF Erased
<1> HIDE DEF q
<1>3. q \in PoolState
  <2>1. \A o \in Outpoint : n(o) \in Tx \cup {None} BY <1>1
  <2>2. q = [txs |-> pool.txs \ gone, next |-> [o \in Outpoint |-> n(o)]] BY DEF Erased, q
  <2> HIDE DEF n
  <2> QED BY <1>1, <2>1, <2>2 DEF PoolState
<1>4. ASSUME NEW t \in q.txs PROVE Kind[t] \in {"normal", "zerocoinspend"} /\ \A o \in Inputs[t] : q.next[o] = t
  <2>1. t \in pool.txs /\ t \notin gone BY <1>2
  <2>2. ASSUME NEW o \in Inputs[t] PROVE q.next[o] = t
    <3>1. o \in Outpoint /\ pool.next[o] = t BY <1>1, <2>1 DEF WellKept
    <3>2. ~ \E x \in gone : o \in Inputs[x]
      <4>1. \A x \in gone : o \in Inputs[x] => pool.next[o] = x BY DEF WellKept
      <4> QED BY <2>1, <3>1, <4>1
    <3>3. q.next[o] = n(o) BY <1>2, <3>1
    <3> QED BY <3>1, <3>2, <3>3
  <2> QED BY <2>1, <2>2 DEF WellKept
<1>5. ASSUME NEW o \in Outpoint, q.next[o] # None PROVE q.next[o] \in q.txs /\ o \in Inputs[q.next[o]]
  <2>1. q.next[o] = n(o) BY <1>2
  <2>2. (~ \E x \in gone : o \in Inputs[x]) /\ q.next[o] = pool.next[o] BY <1>5, <2>1
  <2>3. pool.next[o] \in pool.txs /\ o \in Inputs[pool.next[o]] BY <1>5, <2>2 DEF WellKept
  <2> QED BY <1>2, <2>2, <2>3
<1> QED BY <1>2, <1>3, <1>4, <1>5 DEF WellKept, q

(* remove with descendants leaves nobody that spends what it has removed, *)
(* or what it was called for.                                             *)
LEMMA removeAllFacts ==
    ASSUME NEW pool, WellKept(pool), NEW T \in SUBSET Tx
    PROVE  LET q == removeAll(pool, T)
           IN  /\ WellKept(q) /\ q.txs \subseteq pool.txs /\ q.txs \cap T = {}
               /\ \A t \in q.txs : \A o \in Inputs[t] :
                     o[1] \notin T /\ (o[1] \in pool.txs => o[1] \in q.txs)
<1> DEFINE R == WithSpenders(pool, T)
           q == removeAll(pool, T)
<1>1. pool \in PoolState
  BY DEF WellKept
<1>2. T \subseteq R /\ R \subseteq Tx /\ Spenders(pool, R) \subseteq R
  BY <1>1, SpendersClosed
<1>3. q = Erased(pool, R \cap pool.txs)
  BY DEF removeAll
<1> HIDE DEF R, q
<1>4. WellKept(q) /\ q.txs = pool.txs \ (R \cap pool.txs)
  BY <1>3, ErasedKept
<1>5. ASSUME NEW t \in q.txs, NEW o \in Inputs[t] PROVE o[1] \notin R
  <2>1. t \in pool.txs /\ t \notin R /\ t \in Tx /\ t # None
    BY <1>1, <1>4, TxAssumption DEF PoolState
  <2>2. pool.next[o] = t /\ o \in Outpoint
    BY <2>1, OutpointFacts DEF WellKept
  <2>3. o[1] \in R => t \in Spenders(pool, R)
    BY <2>1, <2>2 DEF Spenders
  <2> QED BY <1>2, <2>1, <2>3
<1> QED BY <1>2, <1>4, <1>5 DEF q

(* remove of a single transaction. *)
LEMMA removeAloneFacts ==
    ASSUME NEW pool, WellKept(pool), NEW t \in Tx
    PROVE  WellKept(removeAlone(pool, t)) /\ removeAlone(pool, t).txs = pool.txs \ {t}
<1>1. CASE t \in pool.txs
  <2>1. removeAlone(pool, t) = Erased(pool, {t}) BY <1>1 DEF removeAlone
  <2> QED BY <1>1, <2>1, ErasedKept
<1>2. CASE t \notin pool.txs
  BY <1>2 DEF removeAlone
<1> QED BY <1>1, <1>2

(* A transaction whose inputs nobody spends may be put in. *)
LEMMA addFacts ==
    ASSUME NEW pool, WellKept(pool), NEW t \in Tx, Fresh(pool, t)
    PROVE  /\ WellKept(addUnchecked(pool, t))
           /\ addUnchecked(pool, t).txs = pool.txs \cup {t}
<1> DEFINE q == addUnchecked(pool, t)
           n(o) == IF o \in Inputs[t] THEN t ELSE pool.next[o]
<1>1. /\ pool.txs \in SUBSET Tx /\ pool.next \in [Outpoint -> Tx \cup {None}] /\ None \notin Tx
      /\ \A x \in Tx : \A o \in Inputs[x] : o \in Outpoint
  BY TxAssumption, OutpointFacts DEF WellKept, PoolState
<1>2. q.txs = pool.txs \cup {t} /\ q.next = [o \in Outpoint |-> n(o)]
  BY DEF addUnchecked
<1>3. q \in PoolState
  <2>1. \A o \in Outpoint : n(o) \in Tx \cup {None} BY <1>1
  <2>2. q = [txs |-> pool.txs \cup {t}, next |-> [o \in Outpoint |-> n(o)]] BY DEF addUnchecked, q
  <2> HIDE DEF n, q
  <2> QED BY <1>1, <2>1, <2>2 DEF PoolState
<1> HIDE DEF q
<1>4. Kind[t] \in {"normal", "zerocoinspend"} /\ \A o \in Inputs[t] : pool.next[o] = None
  BY DEF Fresh
<1>5. ASSUME NEW x \in q.txs PROVE Kind[x] \in {"normal", "zerocoinspend"} /\ \A o \in Inputs[x] : q.next[o] = x
  <2>1. CASE x = t
    <3>1. \A o \in Inputs[t] : q.next[o] = n(o) BY <1>1, <1>2
    <3> QED BY <1>4, <2>1, <3>1
  <2>2. CASE x # t
    <3>1. x \in pool.txs /\ x \in Tx BY <1>1, <1>2, <2>2
    <3>2. ASSUME NEW o \in Inputs[x] PROVE q.next[o] = x
      <4>1. pool.next[o] = x /\ o \in Outpoint BY <1>1, <3>1 DEF WellKept
      <4>2. o \notin Inputs[t] BY <1>1, <1>4, <3>1, <4>1
      <4>3. q.next[o] = n(o) BY <1>2, <4>1
      <4> QED BY <4>1, <4>2, <4>3
    <3> QED BY <3>1, <3>2 DEF WellKept
  <2> QED BY <2>1, <2>2
<1>6. ASSUME NEW o \in Outpoint, q.next[o] # None PROVE q.next[o] \in q.txs /\ o \in Inputs[q.next[o]]
  <2>1. q.next[o] = n(o) BY <1>2
  <2>2. CASE o \in Inputs[t] BY <1>2, <2>1, <2>2
  <2>3. CASE o \notin Inputs[t]
    <3>1. q.next[o] = pool.next[o] BY <2>1, <2>3
    <3> QED BY <1>2, <1>6, <3>1 DEF WellKept
  <2> QED BY <2>2, <2>3
<1> QED BY <1>2, <1>3, <1>5, <1>6 DEF WellKept, q

-----------------------------------------------------------------------------
(* Every input is an output of the pool, or unspent among the coins and ripe *)
(* at height h.                                                              *)
Standing(pool, cs, h) ==
    \A t \in pool.txs : \A o \in Inputs[t] :
       /\ o[2] \in Outs[o[1]]
       /\ \/ o[1] \in pool.txs
          \/ /\ o[2] \in cs[o[1]].avail
             /\ cs[o[1]].base \/ cs[o[1]].stake => h >= cs[o[1]].height + Maturity

(* The same as far as it holds while a block is taken off: what is no output *)
(* of the pool may be gone with all its transaction, and may be unripe.      *)
Passable(pool, cs) ==
    \A t \in pool.txs : \A o \in Inputs[t] :
       /\ o[2] \in Outs[o[1]]
       /\ o[1] \in pool.txs \/ cs[o[1]].avail = {} \/ o[2] \in cs[o[1]].avail

(* Coins are outputs. *)
Made(cs) == \A p \in Tx : cs[p].avail \subseteq Outs[p]

(* What AcceptToMemoryPool has checked of the inputs. *)
LEMMA AcceptableInputs ==
    ASSUME NEW pool, NEW cs, Made(cs), NEW h, NEW t \in Tx, Acceptable(pool, cs, h, t)
    PROVE  /\ Fresh(pool, t)
           /\ \A o \in Inputs[t] :
                 /\ o[2] \in Outs[o[1]]
                 /\ \/ o[1] \in pool.txs
                    \/ /\ o[2] \in cs[o[1]].avail
                       /\ cs[o[1]].base \/ cs[o[1]].stake => h + 1 >= cs[o[1]].height + Maturity
<1>1. Fresh(pool, t)
  BY DEF Acceptable
<1>2. ASSUME NEW o \in Inputs[t]
      PROVE  /\ o[2] \in Outs[o[1]]
             /\ \/ o[1] \in pool.txs
                \/ /\ o[2] \in cs[o[1]].avail
                   /\ cs[o[1]].base \/ cs[o[1]].stake => h + 1 >= cs[o[1]].height + Maturity
  <2>1. Kind[t] # "zerocoinspend" /\ o[1] \in Tx
    BY TxAssumption, OutpointFacts
  <2>2. CheckInputs(PoolView(pool, cs, h), t, h + 1)
    BY <2>1 DEF Acceptable
  <2> DEFINE c == PoolView(pool, cs, h)[o[1]]
  <2>3. o[2] \in c.avail /\ (c.base \/ c.stake => h + 1 >= c.height + Maturity)
    BY <2>2 DEF CheckInputs, HaveInputs
  <2>4. CASE o[1] \in pool.txs
    <3>1. c = FromTx(o[1], h + 1) BY <2>1, <2>4 DEF PoolView
    <3> HIDE DEF c
    <3>2. CASE Outs[o[1]] = {}
      <4>1. c.avail = {} BY <3>1, <3>2 DEF FromTx, Spent
      <4> QED BY <2>3, <4>1
    <3>3. CASE Outs[o[1]] # {}
      <4>1. c.avail = Outs[o[1]] BY <3>1, <3>3 DEF FromTx
      <4> QED BY <2>3, <2>4, <4>1
    <3> QED BY <3>2, <3>3
  <2>5. CASE o[1] \notin pool.txs
    <3>1. c = cs[o[1]] BY <2>1, <2>5 DEF PoolView
    <3> HIDE DEF c
    <3> QED BY <2>1, <2>3, <3>1 DEF Made
  <2> QED BY <2>4, <2>5
<1> QED BY <1>1, <1>2

(* A transaction that was accepted stands. *)
LEMMA addStanding ==
    ASSUME NEW pool, WellKept(pool), NEW cs, Made(cs), NEW h, NEW t \in Tx,
           Acceptable(pool, cs, h, t)
    PROVE  LET q == addUnchecked(pool, t)
           IN  /\ WellKept(q)
               /\ Standing(pool, cs, h + 1) => Standing(q, cs, h + 1)
               /\ Passable(pool, cs) => Passable(q, cs)
<1> DEFINE q == addUnchecked(pool, t)
<1>1. WellKept(q) /\ q.txs = pool.txs \cup {t}
  BY AcceptableInputs, addFacts
<1>2. \A o \in Inputs[t] :
         /\ o[2] \in Outs[o[1]]
         /\ \/ o[1] \in pool.txs
            \/ /\ o[2] \in cs[o[1]].avail
               /\ cs[o[1]].base \/ cs[o[1]].stake => h + 1 >= cs[o[1]].height + Maturity
  BY AcceptableInputs
<1> HIDE DEF q
<1>3. Standing(pool, cs, h + 1) => Standing(q, cs, h + 1)
  BY <1>1, <1>2 DEF Standing
<1>4. Passable(pool, cs) => Passable(q, cs)
  BY <1>1, <1>2 DEF Passable
<1> QED BY <1>1, <1>3, <1>4 DEF q

(* removeCoinbaseSpends finds all that does not stand. *)
LEMMA PrematureGone ==
    ASSUME NEW pool, WellKept(pool), NEW cs \in View, Passable(pool, cs), NEW h \in Nat
    PROVE  LET q == removeCoinbaseSpends(pool, cs, h)
           IN  /\ WellKept(q) /\ Standing(q, cs, h)
               /\ \A t \in q.txs : Kind[t] # "zerocoinspend"
<1> DEFINE T == Premature(pool, cs, h)
           q == removeCoinbaseSpends(pool, cs, h)
<1>1. T \in SUBSET Tx /\ T \subseteq pool.txs /\ q = removeAll(pool, T)
  BY DEF removeCoinbaseSpends, Premature, WellKept, PoolState
<1> HIDE DEF T, q
<1>2. /\ WellKept(q) /\ q.txs \subseteq pool.txs /\ q.txs \cap T = {}
      /\ \A t \in q.txs : \A o \in Inputs[t] : o[1] \in pool.txs => o[1] \in q.txs
  BY <1>1, removeAllFacts
<1>3. ASSUME NEW t \in q.txs, NEW o \in Inputs[t]
      PROVE  /\ o[2] \in Outs[o[1]]
             /\ \/ o[1] \in q.txs
                \/ /\ o[2] \in cs[o[1]].avail
                   /\ cs[o[1]].base \/ cs[o[1]].stake => h >= cs[o[1]].height + Maturity
  <2>1. t \in pool.txs /\ t \notin T BY <1>2
  <2>2. o[2] \in Outs[o[1]] /\ (o[1] \in pool.txs \/ cs[o[1]].avail = {} \/ o[2] \in cs[o[1]].avail)
    BY <2>1 DEF Passable
  <2>3. o[1] \notin pool.txs =>
          /\ cs[o[1]].avail # {}
          /\ ~((cs[o[1]].base \/ cs[o[1]].stake) /\ h < cs[o[1]].height + Maturity)
    BY <2>1 DEF T, Premature
  <2>4. t \in Tx /\ o[1] \in Tx /\ cs[o[1]].height \in Nat
    BY <2>1, OutpointFacts DEF WellKept, PoolState, View, Coin
  <2>5. ~(h < cs[o[1]].height + Maturity) => h >= cs[o[1]].height + Maturity
    BY <2>4, MaturityAssumption
  <2> QED BY <1>2, <2>2, <2>3, <2>5
<1>4. Standing(q, cs, h)
  BY <1>3 DEF Standing
<1>5. ASSUME NEW t \in q.txs PROVE Kind[t] # "zerocoinspend"
  <2>1. t \in pool.txs /\ t \notin T BY <1>2
  <2> QED BY <2>1 DEF T, Premature
<1> QED BY <1>2, <1>4, <1>5 DEF q

-----------------------------------------------------------------------------
(* Resurrect, transaction by transaction. *)
ResurrectTx(pool, cs, h, t) ==
    IF Acceptable(pool, cs, h, t) THEN addUnchecked(pool, t) ELSE removeAll(pool, {t})
BackOf(f, pool, cs, h, b) ==
    f = [i \in 0 .. Len(Vtx[b]) |->
            IF i = 0 THEN pool ELSE ResurrectTx(f[i-1], cs, h, Vtx[b][i])]
Back(pool, cs, h, b) == CHOOSE f : BackOf(f, pool, cs, h, b)

(* Putting a block's transactions back leaves a pool that is passable. *)
LEMMA ResurrectGives ==
    ASSUME NEW pool, WellKept(pool), NEW cs, Made(cs), Passable(pool, cs), NEW h, NEW b \in Block
    PROVE  WellKept(Resurrect(pool, cs, h, b)) /\ Passable(Resurrect(pool, cs, h, b), cs)
<1> DEFINE n == Len(Vtx[b])
           S == {q \in PoolState : WellKept(q) /\ Passable(q, cs)}
           next(q, i) == ResurrectTx(q, cs, h, Vtx[b][i])
           step == [i \in Nat |-> [q \in S |-> IF i < n THEN next(q, i + 1) ELSE q]]
<1>1. n \in Nat /\ \A i \in 1 .. n : Vtx[b][i] \in Tx
  BY ViewSteps, CoinsOfLemma
<1>2. pool \in S
  BY DEF WellKept
<1>3. ASSUME NEW q \in S, NEW t \in Tx PROVE ResurrectTx(q, cs, h, t) \in S
  <2>1. CASE Acceptable(q, cs, h, t)
    <3>1. ResurrectTx(q, cs, h, t) = addUnchecked(q, t) BY <2>1 DEF ResurrectTx
    <3>2. WellKept(addUnchecked(q, t)) /\ Passable(addUnchecked(q, t), cs)
      BY <2>1, addStanding
    <3> QED BY <3>1, <3>2 DEF WellKept
  <2>2. CASE ~Acceptable(q, cs, h, t)
    <3> DEFINE r == removeAll(q, {t})
    <3>1. ResurrectTx(q, cs, h, t) = r BY <2>2 DEF ResurrectTx
    <3>2. /\ WellKept(r) /\ r.txs \subseteq q.txs
          /\ \A x \in r.txs : \A o \in Inputs[x] : o[1] \in q.txs => o[1] \in r.txs
      <4>1. {t} \in SUBSET Tx /\ WellKept(q) OBVIOUS
      <4> QED BY <4>1, removeAllFacts
    <3> HIDE DEF r
    <3>3. Passable(r, cs) BY <3>2 DEF Passable
    <3> QED BY <3>1, <3>2, <3>3 DEF WellKept
  <2> QED BY <2>1, <2>2
<1> HIDE DEF S
<1>4. step \in [Nat -> [S -> S]]
  <2>1. ASSUME NEW i \in Nat, NEW q \in S PROVE step[i][q] \in S
    <3>1. i < n => Vtx[b][i + 1] \in Tx BY <1>1
    <3> QED BY <1>3, <3>1
  <2> QED BY <2>1
<1>5. PICK g : Iterates(g, S, pool, step)
  <2> HIDE DEF step
  <2> QED BY <1>2, <1>4, Recursion
<1> DEFINE f == [i \in 0 .. n |-> g[i]]
<1>6. ASSUME NEW i \in 1 .. n PROVE g[i] = next(g[i-1], i)
  <2>1. i - 1 \in Nat /\ (i - 1) + 1 = i /\ i - 1 < n BY <1>1
  <2>2. g[i] = step[i-1][g[i-1]] /\ g[i-1] \in S
    <3> HIDE DEF step
    <3> QED BY <1>5, <2>1 DEF Iterates
  <2> HIDE DEF next
  <2> QED BY <2>1, <2>2
<1> HIDE DEF next
<1>7. BackOf(f, pool, cs, h, b)
  <2> DEFINE e == [i \in 0 .. n |-> IF i = 0 THEN pool ELSE next(f[i-1], i)]
  <2>1. ASSUME NEW i \in 0 .. n PROVE f[i] = e[i]
    <3>1. CASE i = 0 BY <1>1, <1>5, <3>1 DEF Iterates
    <3>2. CASE i # 0
      <4>1. i \in 1 .. n /\ i - 1 \in 0 .. n BY <1>1, <3>2
      <4>2. f[i-1] = g[i-1] /\ f[i] = g[i] BY <4>1
      <4> HIDE DEF f
      <4> QED BY <1>6, <3>2, <4>1, <4>2
    <3> QED BY <3>1, <3>2
  <2>2. f = e
    <3>1. f = [i \in 0 .. n |-> f[i]] OBVIOUS
    <3> HIDE DEF f
    <3> QED BY <2>1, <3>1
  <2> HIDE DEF f
  <2> QED BY <2>2 DEF BackOf, next
<1>8. BackOf(Back(pool, cs, h, b), pool, cs, h, b)
  BY <1>7 DEF Back
<1>9. Resurrect(pool, cs, h, b) = Back(pool, cs, h, b)[n]
  BY DEF Resurrect, Back, BackOf, ResurrectTx
<1> DEFINE k == Back(pool, cs, h, b)
           T == {i \in 0 .. n : k[i] \in S}
<1>10. k[0] = pool /\ \A i \in 1 .. n : k[i] = next(k[i-1], i)
  <2> HIDE DEF k
  <2>1. k = [i \in 0 .. n |-> IF i = 0 THEN pool ELSE next(k[i-1], i)]
    BY <1>8 DEF k, BackOf, next
  <2>2. k[0] = pool BY <1>1, <2>1
  <2>3. ASSUME NEW i \in 1 .. n PROVE k[i] = next(k[i-1], i)
    <3>1. i \in 0 .. n /\ i # 0 BY <1>1
    <3> QED BY <2>1, <3>1
  <2> QED BY <2>2, <2>3
<1> HIDE DEF k
<1>11. 0 \in T
  BY <1>1, <1>2, <1>10
<1>12. ASSUME NEW i \in 0 .. n - 1, i \in T PROVE i + 1 \in T
  <2>1. i + 1 \in 1 .. n /\ (i + 1) - 1 = i /\ Vtx[b][i+1] \in Tx BY <1>1
  <2>2. k[i+1] = next(k[i], i + 1) BY <1>10, <2>1
  <2>3. next(k[i], i + 1) \in S BY <1>3, <1>12, <2>1 DEF next
  <2> QED BY <2>1, <2>2, <2>3
<1>13. n \in T
  <2> HIDE DEF T
  <2> QED BY <1>1, <1>11, <1>12, SetInduction
<1> QED BY <1>9, <1>13 DEF S, k

(* removeForBlock, transaction by transaction. *)
RemoveTx(pool, t) == removeConflicts(removeAlone(pool, t), t)
GoneOf(f, pool, b) ==
    f = [i \in 0 .. Len(Vtx[b]) |-> IF i = 0 THEN pool ELSE RemoveTx(f[i-1], Vtx[b][i])]
Gone(pool, b) == CHOOSE f : GoneOf(f, pool, b)

(* One transaction of a block goes, and with it all that it conflicts with. *)
LEMMA RemoveTxFacts ==
    ASSUME NEW pool, WellKept(pool), NEW t \in Tx
    PROVE  LET q == RemoveTx(pool, t)
           IN  /\ WellKept(q) /\ q.txs \subseteq pool.txs /\ t \notin q.txs
               /\ \A x \in q.txs : \A o \in Inputs[x] :
                     o \notin Inputs[t] /\ (o[1] \in pool.txs => o[1] \in q.txs \/ o[1] = t)
<1> DEFINE p == removeAlone(pool, t)
           T == {p.next[o] : o \in Inputs[t]} \ {None, t}
           q == RemoveTx(pool, t)
<1>1. WellKept(p) /\ p.txs = pool.txs \ {t}
  BY removeAloneFacts
<1> HIDE DEF p
<1>2. q = removeAll(p, T)
  BY DEF RemoveTx, removeConflicts, p
<1>3. T \in SUBSET Tx
  <2>1. \A o \in Inputs[t] : p.next[o] \in Tx \cup {None}
    BY <1>1, OutpointFacts DEF WellKept, PoolState
  <2> QED BY <2>1
<1> HIDE DEF q
<1>4. /\ WellKept(q) /\ q.txs \subseteq p.txs /\ q.txs \cap T = {}
      /\ \A x \in q.txs : \A o \in Inputs[x] : o[1] \in p.txs => o[1] \in q.txs
  <2> HIDE DEF T
  <2> QED BY <1>1, <1>2, <1>3, removeAllFacts
<1>5. ASSUME NEW x \in q.txs, NEW o \in Inputs[x] PROVE o \notin Inputs[t]
  <2>1. x \in p.txs /\ x # t /\ x # None /\ x \notin T
    BY <1>1, <1>4, TxAssumption DEF WellKept, PoolState
  <2>2. p.next[o] = x BY <1>1, <2>1 DEF WellKept
  <2> QED BY <2>1, <2>2
<1> HIDE DEF T
<1> QED BY <1>1, <1>4, <1>5 DEF q

(* With a block go its transactions and all that spends what one of them  *)
(* spends; what stays has lost no input but to the block.                 *)
LEMMA RemoveForBlockFacts ==
    ASSUME NEW pool, WellKept(pool), NEW b \in Block
    PROVE  LET q == removeForBlock(pool, b)
           IN  /\ WellKept(q) /\ q.txs \subseteq pool.txs
               /\ \A i \in 1 .. Len(Vtx[b]) : Vtx[b][i] \notin q.txs
               /\ \A x \in q.txs : \A o \in Inputs[x] :
                     /\ \A i \in 1 .. Len(Vtx[b]) : o \notin Inputs[Vtx[b][i]]
                     /\ o[1] \in pool.txs => o[1] \in q.txs \/ \E i \in 1 .. Len(Vtx[b]) : o[1] = Vtx[b][i]
<1> DEFINE n == Len(Vtx[b])
           S == {q \in PoolState : WellKept(q)}
           next(q, i) == RemoveTx(q, Vtx[b][i])
           step == [i \in Nat |-> [q \in S |-> IF i < n THEN next(q, i + 1) ELSE q]]
<1>1. n \in Nat /\ \A i \in 1 .. n : Vtx[b][i] \in Tx
  BY ViewSteps, CoinsOfLemma
<1>2. pool \in S
  BY DEF WellKept
<1>3. ASSUME NEW q \in S, NEW t \in Tx PROVE RemoveTx(q, t) \in S
  BY RemoveTxFacts DEF WellKept
<1> HIDE DEF S
<1>4. step \in [Nat -> [S -> S]]
  <2>1. ASSUME NEW i \in Nat, NEW q \in S PROVE step[i][q] \in S
    <3>1. i < n => Vtx[b][i + 1] \in Tx BY <1>1
    <3> QED BY <1>3, <3>1
  <2> QED BY <2>1
<1>5. PICK g : Iterates(g, S, pool, step)
  <2> HIDE DEF step
  <2> QED BY <1>2, <1>4, Recursion
<1> DEFINE f == [i \in 0 .. n |-> g[i]]
<1>6. ASSUME NEW i \in 1 .. n PROVE g[i] = next(g[i-1], i)
  <2>1. i - 1 \in Nat /\ (i - 1) + 1 = i /\ i - 1 < n BY <1>1
  <2>2. g[i] = step[i-1][g[i-1]] /\ g[i-1] \in S
    <3> HIDE DEF step
    <3> QED BY <1>5, <2>1 DEF Iterates
  <2> HIDE DEF next
  <2> QED BY <2>1, <2>2
<1> HIDE DEF next
<1>7. GoneOf(f, pool, b)
  <2> DEFINE e == [i \in 0 .. n |-> IF i = 0 THEN pool ELSE next(f[i-1], i)]
  <2>1. ASSUME NEW i \in 0 .. n PROVE f[i] = e[i]
    <3>1. CASE i = 0 BY <1>1, <1>5, <3>1 DEF Iterates
    <3>2. CASE i # 0
      <4>1. i \in 1 .. n /\ i - 1 \in 0 .. n BY <1>1, <3>2
      <4>2. f[i-1] = g[i-1] /\ f[i] = g[i] BY <4>1
      <4> HIDE DEF f
      <4> QED BY <1>6, <3>2, <4>1, <4>2
    <3> QED BY <3>1, <3>2
  <2>2. f = e
    <3>1. f = [i \in 0 .. n |-> f[i]] OBVIOUS
    <3> HIDE DEF f
    <3> QED BY <2>1, <3>1
  <2> HIDE DEF f
  <2> QED BY <2>2 DEF GoneOf, next
<1>8. GoneOf(Gone(pool, b), pool, b)
  BY <1>7 DEF Gone
<1>9. removeForBlock(pool, b) = Gone(pool, b)[n]
  BY DEF removeForBlock, Gone, GoneOf, RemoveTx
<1> DEFINE k == Gone(pool, b)
           Out(j) == Vtx[b][j]
           Fine(i) == /\ k[i].txs \subseteq pool.txs
                      /\ \A j \in 1 .. i : Out(j) \notin k[i].txs
                      /\ \A x \in k[i].txs : \A o \in Inputs[x] :
                            /\ \A j \in 1 .. i : o \notin Inputs[Out(j)]
                            /\ o[1] \in pool.txs => o[1] \in k[i].txs \/ \E j \in 1 .. i : o[1] = Out(j)
           T == {i \in 0 .. n : k[i] \in S /\ Fine(i)}
<1>10. k[0] = pool /\ \A i \in 1 .. n : k[i] = next(k[i-1], i)
  <2> HIDE DEF k
  <2>1. k = [i \in 0 .. n |-> IF i = 0 THEN pool ELSE next(k[i-1], i)]
    BY <1>8 DEF k, GoneOf, next
  <2>2. k[0] = pool BY <1>1, <2>1
  <2>3. ASSUME NEW i \in 1 .. n PROVE k[i] = next(k[i-1], i)
    <3>1. i \in 0 .. n /\ i # 0 BY <1>1
    <3> QED BY <2>1, <3>1
  <2> QED BY <2>2, <2>3
<1> HIDE DEF k
<1>11. 0 \in T
  <2>1. ~ \E j \in 1 .. 0 : TRUE OBVIOUS
  <2>2. 0 \in 0 .. n BY <1>1
  <2>3. Fine(0) BY <1>10, <2>1
  <2> QED BY <1>2, <1>10, <2>2, <2>3
<1>12. ASSUME NEW i \in 0 .. n - 1, i \in T PROVE i + 1 \in T
  <2>1. i + 1 \in 1 .. n /\ i + 1 \in 0 .. n /\ (i + 1) - 1 = i /\ Out(i+1) \in Tx BY <1>1
  <2>2. k[i+1] = RemoveTx(k[i], Out(i+1)) BY <1>10, <2>1 DEF next
  <2>3. k[i] \in S /\ Fine(i) BY <1>12
  <2>4. k[i+1] \in S BY <1>3, <2>1, <2>2, <2>3
  <2> HIDE DEF Out
  <2>5. /\ k[i+1].txs \subseteq k[i].txs /\ Out(i+1) \notin k[i+1].txs
        /\ \A x \in k[i+1].txs : \A o \in Inputs[x] :
              o \notin Inputs[Out(i+1)] /\ (o[1] \in k[i].txs => o[1] \in k[i+1].txs \/ o[1] = Out(i+1))
    BY <2>1, <2>2, <2>3, RemoveTxFacts DEF S
  <2>6. 1 .. i + 1 = (1 .. i) \cup {i + 1} BY <1>1
  <2>7. Fine(i+1)
    <3>1. ASSUME NEW x \in k[i+1].txs, NEW o \in Inputs[x]
          PROVE  /\ \A j \in 1 .. i + 1 : o \notin Inputs[Out(j)]
                 /\ o[1] \in pool.txs => o[1] \in k[i+1].txs \/ \E j \in 1 .. i + 1 : o[1] = Out(j)
      <4>1. x \in k[i].txs BY <2>5
      <4>2. /\ \A j \in 1 .. i : o \notin Inputs[Out(j)]
            /\ o[1] \in pool.txs => o[1] \in k[i].txs \/ \E j \in 1 .. i : o[1] = Out(j)
        BY <2>3, <4>1
      <4>3. o \notin Inputs[Out(i+1)] /\ (o[1] \in k[i].txs => o[1] \in k[i+1].txs \/ o[1] = Out(i+1))
        BY <2>5
      <4> QED BY <2>6, <4>2, <4>3
    <3>2. k[i+1].txs \subseteq pool.txs /\ \A j \in 1 .. i + 1 : Out(j) \notin k[i+1].txs
      BY <2>3, <2>5, <2>6
    <3> QED BY <3>1, <3>2
  <2> HIDE DEF Fine
  <2> QED BY <2>1, <2>4, <2>7
<1>13. n \in T
  <2> HIDE DEF T
  <2> QED BY <1>1, <1>11, <1>12, SetInduction
<1> QED BY <1>9, <1>13 DEF S, k

-----------------------------------------------------------------------------
(* An output that a transaction does not spend stays as it is. *)
LEMMA OutputStays ==
    ASSUME NEW v \in View, NEW t \in Tx, NEW h, NEW p \in Tx, p # t,
           NEW m \in v[p].avail, m \in Outs[p], <<p, m>> \notin Inputs[t]
    PROVE  LET c == UpdateCoins(v, t, h)[p]
           IN  m \in c.avail /\ c.height = v[p].height /\ c.base = v[p].base /\ c.stake = v[p].stake
<1> DEFINE c == UpdateCoins(v, t, h)[p]
<1>1. v[p] \in Coin /\ m \notin SpentBy(t, p)
  BY DEF View, SpentBy
<1>2. v[p].avail # SpentBy(t, p)
  BY <1>1
<1>3. CASE SpentBy(t, p) = {}
  <2>1. c = v[p] BY <1>3 DEF UpdateCoins
  <2> HIDE DEF c
  <2>2. m \in c.avail /\ c.height = v[p].height /\ c.base = v[p].base /\ c.stake = v[p].stake
    BY <2>1
  <2> QED BY <2>2 DEF c
<1>4. CASE SpentBy(t, p) # {}
  <2>1. c = [v[p] EXCEPT !.avail = @ \ SpentBy(t, p)] BY <1>2, <1>4 DEF UpdateCoins
  <2> HIDE DEF c
  <2>2. c.avail = v[p].avail \ SpentBy(t, p) /\ c.height = v[p].height /\ c.base = v[p].base
        /\ c.stake = v[p].stake
    BY <1>1, <2>1 DEF Coin
  <2> QED BY <1>1, <2>2 DEF c
<1> QED BY <1>3, <1>4

(* What no transaction of a block spends is unspent after the block: if it  *)
(* was before, or is an output of the block itself.                         *)
LEMMA OutputsOfBlock ==
    ASSUME NEW view \in View, NEW b \in Block, NEW p \in Tx, NEW m \in Outs[p],
           \A i \in 1 .. Len(Vtx[b]) : <<p, m>> \notin Inputs[Vtx[b][i]]
    PROVE  LET c == ConnectBlock(view, b).view[p]
           IN  /\ (\A i \in 1 .. Len(Vtx[b]) : p # Vtx[b][i]) /\ m \in view[p].avail =>
                     /\ m \in c.avail /\ c.height = view[p].height
                     /\ c.base = view[p].base /\ c.stake = view[p].stake
               /\ \A k \in 1 .. Len(Vtx[b]) : p = Vtx[b][k] =>
                     /\ m \in c.avail
                     /\ c.base = (Kind[p] = "coinbase") /\ c.stake = (Kind[p] = "coinstake")
<1> DEFINE n == Len(Vtx[b])
           f == Steps(view, b)
           d == ConnectBlock(view, b)
<1>1. /\ n \in Nat /\ Height(b) \in Nat /\ \A i \in 1 .. n : Vtx[b][i] \in Tx
      /\ \A i \in 0 .. n : f[i].view \in View
      /\ f[0].view = view
      /\ \A i \in 1 .. n : f[i].view = UpdateCoins(f[i-1].view, Vtx[b][i], Height(b))
      /\ d.view = f[n].view
  BY ViewSteps
<1>2. \A i, j \in 1 .. n : Vtx[b][i] = Vtx[b][j] => i = j
  <2>1. Vtx[b] \in Seq(Tx) BY BlockAssumption
  <2>2. DOMAIN Vtx[b] = 1 .. n BY <2>1
  <2> QED BY <2>2, BlockAssumption
<1> HIDE DEF f, d
<1>3. ASSUME NEW i \in 0 .. n - 1, m \in f[i].view[p].avail, p # Vtx[b][i+1]
      PROVE  /\ m \in f[i+1].view[p].avail /\ f[i+1].view[p].height = f[i].view[p].height
             /\ f[i+1].view[p].base = f[i].view[p].base /\ f[i+1].view[p].stake = f[i].view[p].stake
  <2>1. i + 1 \in 1 .. n /\ (i + 1) - 1 = i /\ i \in 0 .. n BY <1>1
  <2>2. f[i+1].view = UpdateCoins(f[i].view, Vtx[b][i+1], Height(b)) /\ f[i].view \in View
        /\ Vtx[b][i+1] \in Tx /\ <<p, m>> \notin Inputs[Vtx[b][i+1]]
    BY <1>1, <2>1
  <2> QED BY <1>3, <2>2, OutputStays
<1>4. ASSUME \A i \in 1 .. n : p # Vtx[b][i], m \in view[p].avail
      PROVE  /\ m \in f[n].view[p].avail /\ f[n].view[p].height = view[p].height
             /\ f[n].view[p].base = view[p].base /\ f[n].view[p].stake = view[p].stake
  <2> DEFINE T == {i \in 0 .. n : /\ m \in f[i].view[p].avail /\ f[i].view[p].height = view[p].height
                                  /\ f[i].view[p].base = view[p].base /\ f[i].view[p].stake = view[p].stake}
  <2>1. 0 \in T BY <1>1, <1>4
  <2>2. ASSUME NEW i \in 0 .. n - 1, i \in T PROVE i + 1 \in T
    <3>1. i + 1 \in 1 .. n /\ i + 1 \in 0 .. n BY <1>1
    <3> QED BY <1>3, <1>4, <2>2, <3>1
  <2>3. n \in T
    <3> HIDE DEF T
    <3> QED BY <1>1, <2>1, <2>2, SetInduction
  <2> QED BY <2>3
<1>5. ASSUME NEW k \in 1 .. n, p = Vtx[b][k]
      PROVE  /\ m \in f[n].view[p].avail
             /\ f[n].view[p].base = (Kind[p] = "coinbase") /\ f[n].view[p].stake = (Kind[p] = "coinstake")
  <2> DEFINE T == {i \in 0 .. n : i >= k =>
                     /\ m \in f[i].view[p].avail
                     /\ f[i].view[p].base = (Kind[p] = "coinbase")
                     /\ f[i].view[p].stake = (Kind[p] = "coinstake")}
  <2>1. 0 \in T BY <1>1
  <2>2. ASSUME NEW i \in 0 .. n - 1, i \in T PROVE i + 1 \in T
    <3>1. i + 1 \in 1 .. n /\ i + 1 \in 0 .. n /\ (i + 1) - 1 = i BY <1>1
    <3>2. CASE i + 1 = k
      <4> DEFINE c == f[i+1].view[p]
      <4>1. c = FromTx(p, Height(b))
        <5>1. f[i+1].view = UpdateCoins(f[i].view, p, Height(b)) BY <1>1, <1>5, <3>1, <3>2
        <5> QED BY <5>1 DEF UpdateCoins
      <4>2. c = [avail |-> Outs[p], height |-> Height(b), base |-> Kind[p] = "coinbase",
                 stake |-> Kind[p] = "coinstake"]
        BY <4>1 DEF FromTx
      <4> HIDE DEF c
      <4>3. m \in c.avail /\ c.base = (Kind[p] = "coinbase") /\ c.stake = (Kind[p] = "coinstake")
        BY <4>2
      <4> QED BY <3>1, <4>3 DEF c
    <3>3. CASE i + 1 < k
      <4>1. ~(i + 1 >= k) BY <1>1, <3>3
      <4> QED BY <3>1, <4>1
    <3>4. CASE i + 1 > k
      <4>1. i >= k /\ k # i + 1 BY <1>1, <3>4
      <4>2. p # Vtx[b][i+1] BY <1>2, <1>5, <3>1, <4>1
      <4>3. /\ m \in f[i].view[p].avail
            /\ f[i].view[p].base = (Kind[p] = "coinbase") /\ f[i].view[p].stake = (Kind[p] = "coinstake")
        BY <2>2, <4>1
      <4>4. /\ m \in f[i+1].view[p].avail
            /\ f[i+1].view[p].base = f[i].view[p].base /\ f[i+1].view[p].stake = f[i].view[p].stake
        BY <1>3, <4>2, <4>3
      <4> QED BY <3>1, <4>3, <4>4
    <3> QED BY <1>1, <3>2, <3>3, <3>4
  <2>3. n \in T
    <3> HIDE DEF T
    <3> QED BY <1>1, <2>1, <2>2, SetInduction
  <2>4. n >= k BY <1>1
  <2> QED BY <2>3, <2>4
<1> QED BY <1>1, <1>4, <1>5 DEF d

(* Taking the tip back restores outputs or clears a transaction altogether. *)
LEMMA DisconnectAvail ==
    ASSUME CoinsInv, tip # Genesis
    PROVE  LET cs == DisconnectBlock(tip).view
           IN  /\ cs \in View /\ Made(cs)
               /\ \A p \in Tx : cs[p].avail = {} \/ coins[p].avail \subseteq cs[p].avail
<1> DEFINE w == CoinsOf[Parent[tip]]
           n == Len(Vtx[tip])
           f == Steps(w, tip)
           cs == DisconnectBlock(tip).view
<1>1. tip \in Block \ {Genesis} /\ tip \in Block /\ tip \in Path[tip] /\ w \in View
      /\ CoinsOf[tip] = ConnectBlock(w, tip).view
  BY HeightLemma, CoinsOfLemma DEF CoinsInv
<1>2. /\ Fits(tip, undo[tip]) /\ coins \in View /\ Alike(coins, CoinsOf[tip])
      /\ \A u \in undo[tip] : u.of \in MayBeLost
  BY <1>1, TipUndo DEF CoinsInv
<1>3. cs \in View /\ Alike(cs, w)
  BY <1>1, <1>2, DisconnectGives
<1>4. /\ n \in Nat /\ \A i \in 1 .. n : Vtx[tip][i] \in Tx
      /\ \A i \in 0 .. n : f[i].view \in View
      /\ f[0].view = w
      /\ \A i \in 1 .. n : f[i].view = UpdateCoins(f[i-1].view, Vtx[tip][i], Height(tip))
      /\ CoinsOf[tip] = f[n].view
  BY <1>1, ViewSteps
<1>5. /\ \A t \in Contents(tip) : w[t].avail = {}
      /\ \A i \in 0 .. n : Sound(f[i].view)
  BY <1>2 DEF Fits
<1> HIDE DEF w, f, cs
<1>6. Made(cs)
  <2>1. 0 \in 0 .. n BY <1>4
  <2>2. Sound(w) BY <1>4, <1>5, <2>1
  <2> QED BY <1>3, <2>2 DEF Sound, Made, Alike
<1>7. ASSUME NEW p \in Tx, cs[p].avail # {} PROVE coins[p].avail \subseteq cs[p].avail
  <2>1. w[p].avail = cs[p].avail /\ coins[p].avail = f[n].view[p].avail
    BY <1>2, <1>3, <1>4 DEF Alike
  <2>2. \A i \in 1 .. n : p # Vtx[tip][i]
    <3>1. \A i \in 1 .. n : Vtx[tip][i] \in Contents(tip)
      <4>1. Vtx[tip] \in Seq(Tx) BY <1>1, BlockAssumption
      <4>2. DOMAIN Vtx[tip] = 1 .. n BY <4>1
      <4> QED BY <4>2 DEF Contents
    <3> QED BY <1>5, <1>7, <2>1, <3>1
  <2> DEFINE T == {i \in 0 .. n : f[i].view[p].avail \subseteq w[p].avail}
  <2>3. 0 \in T BY <1>4
  <2>4. ASSUME NEW i \in 0 .. n - 1, i \in T PROVE i + 1 \in T
    <3>1. i + 1 \in 1 .. n /\ i + 1 \in 0 .. n /\ (i + 1) - 1 = i /\ i \in 0 .. n BY <1>4
    <3> DEFINE v == f[i].view
               t == Vtx[tip][i+1]
               c == UpdateCoins(v, t, Height(tip))[p]
    <3>2. f[i+1].view[p] = c /\ p # t /\ v[p] \in Coin
      BY <1>4, <2>2, <3>1 DEF View
    <3>3. c.avail \subseteq v[p].avail
      <4> HIDE DEF v, t
      <4>1. CASE SpentBy(t, p) = {} BY <3>2, <4>1 DEF UpdateCoins
      <4>2. CASE SpentBy(t, p) # {} /\ v[p].avail = SpentBy(t, p)
        BY <3>2, <4>2 DEF UpdateCoins, Spent
      <4>3. CASE SpentBy(t, p) # {} /\ v[p].avail # SpentBy(t, p)
        <5>1. c = [v[p] EXCEPT !.avail = @ \ SpentBy(t, p)] BY <3>2, <4>3 DEF UpdateCoins
        <5>2. c.avail = v[p].avail \ SpentBy(t, p)
          <6> HIDE DEF c
          <6> QED BY <3>2, <5>1 DEF Coin
        <5> QED BY <5>2
      <4> QED BY <4>1, <4>2, <4>3
    <3> HIDE DEF c
    <3> QED BY <2>4, <3>1, <3>2, <3>3
  <2>5. n \in T
    <3> HIDE DEF T
    <3> QED BY <1>4, <2>3, <2>4, SetInduction
  <2> QED BY <2>1, <2>5
<1> QED BY <1>3, <1>6, <1>7 DEF cs

-----------------------------------------------------------------------------
(* The invariant of the pool, on top of that of the coins. *)
SpendsNew(pool, at) == \A t \in pool.txs : Kind[t] = "zerocoinspend" => ~InChain(t, at)
PoolInv == WellKept(Pool) /\ Standing(Pool, coins, Height(tip) + 1) /\ SpendsNew(Pool, tip)

(* It says that the pool stands. *)
LEMMA PoolInvStands ==
    ASSUME CoinsInv, PoolInv
    PROVE  PoolStands
<1> DEFINE h == Height(tip)
<1>1. WellKept(Pool) /\ Standing(Pool, coins, h + 1) /\ Pool.txs = mapTx /\ Pool.next = mapNextTx
  BY DEF PoolInv, Pool
<1>2. h \in Nat /\ mapTx \subseteq Tx /\ coins \in View
  BY <1>1, HeightLemma DEF CoinsInv, WellKept, PoolState
<1> HIDE DEF h
<1>3. ASSUME NEW t \in mapTx, NEW o \in Inputs[t]
      PROVE  LET c == PoolView(Pool, coins, h)[o[1]]
             IN  o[2] \in c.avail /\ (c.base \/ c.stake => h + 1 >= c.height + Maturity)
  <2> DEFINE c == PoolView(Pool, coins, h)[o[1]]
  <2>1. o[1] \in Tx /\ o[2] \in Outs[o[1]]
    BY <1>1, <1>2, OutpointFacts DEF Standing
  <2>2. CASE o[1] \in mapTx
    <3>1. c = FromTx(o[1], h + 1) BY <1>1, <2>1, <2>2 DEF PoolView
    <3>2. Kind[o[1]] \in {"normal", "zerocoinspend"} BY <1>1, <2>2 DEF WellKept
    <3>3. c = [avail |-> Outs[o[1]], height |-> h + 1, base |-> Kind[o[1]] = "coinbase",
               stake |-> Kind[o[1]] = "coinstake"]
      BY <2>1, <3>1 DEF FromTx
    <3> HIDE DEF c
    <3>4. c.avail = Outs[o[1]] /\ c.base = (Kind[o[1]] = "coinbase") /\ c.stake = (Kind[o[1]] = "coinstake")
      BY <3>3
    <3>5. o[2] \in c.avail /\ ~c.base /\ ~c.stake BY <2>1, <3>2, <3>4
    <3> QED BY <3>5 DEF c
  <2>3. CASE o[1] \notin mapTx
    <3>1. c = coins[o[1]] BY <1>1, <2>1, <2>3 DEF PoolView
    <3> HIDE DEF c
    <3>2. o[2] \in c.avail /\ (c.base \/ c.stake => h + 1 >= c.height + Maturity)
      BY <1>1, <2>3, <3>1 DEF Standing
    <3> QED BY <3>2 DEF c
  <2> QED BY <2>2, <2>3
<1>4. \A t \in mapTx : CheckInputs(PoolView(Pool, coins, h), t, h + 1)
  BY <1>3 DEF CheckInputs, HaveInputs
<1>5. \A t \in mapTx : \A o \in Inputs[t] : mapNextTx[o] = t
  BY <1>1 DEF WellKept
<1>6. \A o \in Outpoint : mapNextTx[o] # None => mapNextTx[o] \in mapTx /\ o \in Inputs[mapNextTx[o]]
  BY <1>1 DEF WellKept
<1>7. \A t \in mapTx : Kind[t] = "zerocoinspend" => ~InChain(t, tip)
  BY <1>1 DEF PoolInv, SpendsNew
<1> QED BY <1>4, <1>5, <1>6, <1>7 DEF PoolStands, h

(* The pool after a step is the one the step computes. *)
LEMMA PoolAfter ==
    ASSUME NEW pool, pool \in PoolState, PoolIs(pool)
    PROVE  Pool' = pool
<1>1. pool = [txs |-> pool.txs, next |-> pool.next]
  BY DEF PoolState
<1> QED BY <1>1 DEF PoolIs, Pool

(* Coins are outputs: those of the chain alone are. *)
LEMMA CoinsMade ==
    ASSUME CoinsInv
    PROVE  coins \in View /\ Made(coins)
  BY SoundChain DEF CoinsInv, Alike, Sound, Made

(* A block takes from the pool what it contains and what it conflicts with; *)
(* the rest stands on the new coins.                                        *)
LEMMA ConnectTipPool ==
    ASSUME CoinsInv, PoolInv, NEW b \in Block \ {Genesis}, LedgerConnectTip(b)
    PROVE  PoolInv'
<1> DEFINE q == removeForBlock(Pool, b)
           n == Len(Vtx[b])
           h == Height(tip) + 1
<1>1. /\ Parent[b] = tip /\ ConnectBlock(coins, b).ok /\ coins' = ConnectBlock(coins, b).view
      /\ tip' = b /\ PoolIs(q) /\ b \in Block
  BY DEF LedgerConnectTip
<1>2. WellKept(Pool) /\ Standing(Pool, coins, h) /\ coins \in View
  BY DEF PoolInv, CoinsInv
<1>3. Height(b) = h /\ h \in Nat
  BY <1>1, HeightLemma
<1>4. /\ WellKept(q) /\ q.txs \subseteq Pool.txs /\ \A i \in 1 .. n : Vtx[b][i] \notin q.txs
      /\ \A x \in q.txs : \A o \in Inputs[x] :
            /\ \A i \in 1 .. n : o \notin Inputs[Vtx[b][i]]
            /\ o[1] \in Pool.txs => o[1] \in q.txs \/ \E i \in 1 .. n : o[1] = Vtx[b][i]
  BY <1>1, <1>2, RemoveForBlockFacts
<1> HIDE DEF q, h
<1>5. Pool' = q
  BY <1>1, <1>4, PoolAfter DEF WellKept
<1>6. ASSUME NEW x \in q.txs, NEW o \in Inputs[x]
      PROVE  /\ o[2] \in Outs[o[1]]
             /\ \/ o[1] \in q.txs
                \/ /\ o[2] \in coins'[o[1]].avail
                   /\ coins'[o[1]].base \/ coins'[o[1]].stake => h + 1 >= coins'[o[1]].height + Maturity
  <2> DEFINE p == o[1]
             m == o[2]
             c == ConnectBlock(coins, b).view[p]
  <2>1. x \in Pool.txs /\ x \in Tx /\ p \in Tx /\ o = <<p, m>>
    BY <1>2, <1>4, OutpointFacts DEF WellKept, PoolState
  <2>2. m \in Outs[p]
    BY <1>2, <2>1 DEF Standing
  <2>3. p \in Pool.txs \/ (/\ m \in coins[p].avail
                           /\ coins[p].base \/ coins[p].stake => h >= coins[p].height + Maturity)
    BY <1>2, <2>1 DEF Standing
  <2>4. \A i \in 1 .. n : <<p, m>> \notin Inputs[Vtx[b][i]]
    BY <1>4, <2>1
  <2> HIDE DEF p, m
  <2>5. /\ (\A i \in 1 .. n : p # Vtx[b][i]) /\ m \in coins[p].avail =>
              /\ m \in c.avail /\ c.height = coins[p].height
              /\ c.base = coins[p].base /\ c.stake = coins[p].stake
        /\ \A k \in 1 .. n : p = Vtx[b][k] =>
              /\ m \in c.avail
              /\ c.base = (Kind[p] = "coinbase") /\ c.stake = (Kind[p] = "coinstake")
    BY <1>1, <1>2, <2>1, <2>2, <2>4, OutputsOfBlock
  <2>6. c = coins'[p]
    BY <1>1
  <2> HIDE DEF c
  <2>7. CASE p \in q.txs
    BY <2>2, <2>7 DEF p, m
  <2>8. ASSUME NEW k \in 1 .. n, p = Vtx[b][k]
        PROVE  m \in c.avail /\ ~c.base /\ ~c.stake
    <3>1. p \in Contents(b)
      <4>1. Vtx[b] \in Seq(Tx) BY <1>1, BlockAssumption
      <4>2. DOMAIN Vtx[b] = 1 .. n BY <4>1
      <4> QED BY <2>8, <4>2 DEF Contents
    <3>2. coins[p].avail = {} BY <1>1, <1>2, <3>1, ConnectSpendsAll
    <3>3. p \in Pool.txs BY <2>3, <3>2
    <3>4. Kind[p] \in {"normal", "zerocoinspend"} BY <1>2, <3>3 DEF WellKept
    <3>5. /\ m \in c.avail
          /\ c.base = (Kind[p] = "coinbase") /\ c.stake = (Kind[p] = "coinstake")
      BY <2>5, <2>8
    <3> QED BY <3>4, <3>5
  <2>9. ASSUME p \notin q.txs, \A k \in 1 .. n : p # Vtx[b][k]
        PROVE  m \in c.avail /\ (c.base \/ c.stake => h + 1 >= c.height + Maturity)
    <3>1. p \notin Pool.txs BY <1>4, <2>9 DEF p
    <3>2. m \in coins[p].avail /\ (coins[p].base \/ coins[p].stake => h >= coins[p].height + Maturity)
      BY <2>3, <3>1
    <3>3. /\ m \in c.avail /\ c.height = coins[p].height
          /\ c.base = coins[p].base /\ c.stake = coins[p].stake
      BY <2>5, <2>9, <3>2
    <3>4. coins[p].height + Maturity \in Nat
      BY <1>2, <2>1, MaturityAssumption DEF View, Coin
    <3>5. h >= coins[p].height + Maturity => h + 1 >= coins[p].height + Maturity
      BY <1>3, <3>4
    <3> QED BY <3>2, <3>3, <3>5
  <2> QED BY <2>2, <2>6, <2>7, <2>8, <2>9 DEF p, m
<1>7. Standing(q, coins', h + 1)
  BY <1>6 DEF Standing
<1>8. SpendsNew(q, b)
  <2> SUFFICES ASSUME NEW t \in q.txs, Kind[t] = "zerocoinspend", InChain(t, b) PROVE FALSE
    BY DEF SpendsNew
  <2>1. t \in Pool.txs /\ ~InChain(t, tip) BY <1>4 DEF PoolInv, SpendsNew
  <2>2. t \in Contents(b)
    <3>1. Path[b] = Path[tip] \cup {b} BY <1>1, BlockAssumption
    <3> QED BY <2>1, <3>1 DEF InChain
  <2>3. PICK i \in 1 .. n : t = Vtx[b][i]
    <3>1. Vtx[b] \in Seq(Tx) BY <1>1, BlockAssumption
    <3>2. DOMAIN Vtx[b] = 1 .. n BY <3>1
    <3> QED BY <2>2, <3>2 DEF Contents
  <2> QED BY <1>4, <2>3
<1>9. SpendsNew(Pool, tip)'
  BY <1>1, <1>5, <1>8 DEF SpendsNew, InChain
<1> QED BY <1>1, <1>3, <1>4, <1>5, <1>7, <1>9 DEF PoolInv

(* A block that is taken off goes back into the pool as far as it may, and *)
(* what then does not stand goes.                                          *)
LEMMA DisconnectTipPool ==
    ASSUME CoinsInv, PoolInv, LedgerDisconnectTip
    PROVE  PoolInv'
<1> DEFINE cs == DisconnectBlock(tip).view
           h == Height(tip)
           r == Resurrect(Pool, cs, h - 1, tip)
           q == removeCoinbaseSpends(r, cs, h)
<1>1. tip # Genesis /\ tip \in Block /\ coins' = cs /\ PoolIs(q) /\ tip' = Parent[tip]
  BY DEF LedgerDisconnectTip, CoinsInv
<1>2. cs \in View /\ Made(cs) /\ \A p \in Tx : cs[p].avail = {} \/ coins[p].avail \subseteq cs[p].avail
  BY <1>1, DisconnectAvail
<1>3. WellKept(Pool) /\ Standing(Pool, coins, h + 1)
  BY DEF PoolInv
<1>4. h \in Nat /\ Height(Parent[tip]) + 1 = h
  BY <1>1, HeightLemma
<1> HIDE DEF cs, h
<1>5. Passable(Pool, cs)
  <2> SUFFICES ASSUME NEW t \in Pool.txs, NEW o \in Inputs[t]
               PROVE  /\ o[2] \in Outs[o[1]]
                      /\ o[1] \in Pool.txs \/ cs[o[1]].avail = {} \/ o[2] \in cs[o[1]].avail
    BY DEF Passable
  <2>1. o[2] \in Outs[o[1]] /\ (o[1] \in Pool.txs \/ o[2] \in coins[o[1]].avail)
    BY <1>3 DEF Standing
  <2>2. o[1] \in Tx BY <1>3, OutpointFacts DEF WellKept, PoolState
  <2> QED BY <1>2, <2>1, <2>2
<1>6. WellKept(r) /\ Passable(r, cs)
  BY <1>1, <1>2, <1>3, <1>5, ResurrectGives
<1> HIDE DEF r
<1>7. WellKept(q) /\ Standing(q, cs, h) /\ \A t \in q.txs : Kind[t] # "zerocoinspend"
  BY <1>2, <1>4, <1>6, PrematureGone
<1> HIDE DEF q
<1>8. Pool' = q
  BY <1>1, <1>7, PoolAfter DEF WellKept
<1>9. Height(tip)' = Height(Parent[tip])
  BY <1>1 DEF Height
<1>10. SpendsNew(Pool, tip)'
  BY <1>7, <1>8 DEF SpendsNew
<1> QED BY <1>1, <1>4, <1>7, <1>8, <1>9, <1>10 DEF PoolInv

(* An accepted transaction joins the pool. *)
LEMMA AcceptPool ==
    ASSUME CoinsInv, PoolInv, NEW t \in Tx, Acceptable(Pool, coins, Height(tip), t),
           PoolIs(addUnchecked(Pool, t)), UNCHANGED chainVars
    PROVE  PoolInv'
<1> DEFINE q == addUnchecked(Pool, t)
           h == Height(tip)
<1>1. coins \in View /\ Made(coins)
  BY CoinsMade
<1>2. WellKept(q) /\ Standing(q, coins, h + 1)
  BY <1>1, addStanding DEF PoolInv
<1> HIDE DEF q
<1>3. Pool' = q
  BY <1>2, PoolAfter DEF q, WellKept
<1>4. coins' = coins /\ Height(tip)' = h
  BY DEF chainVars, Height
<1>5. SpendsNew(q, tip)
  <2>1. q.txs = Pool.txs \cup {t} BY DEF q, addUnchecked
  <2>2. Kind[t] = "zerocoinspend" => ~InChain(t, tip) BY DEF Acceptable
  <2> QED BY <2>1, <2>2 DEF PoolInv, SpendsNew
<1>6. SpendsNew(Pool, tip)'
  BY <1>3, <1>5 DEF SpendsNew, InChain, chainVars
<1> QED BY <1>2, <1>3, <1>4, <1>6 DEF PoolInv

(* The first pool is empty. *)
LEMMA PoolStart ==
    ASSUME mapTx = {}, mapNextTx = NoSpender
    PROVE  PoolInv
<1>1. Pool = [txs |-> {}, next |-> NoSpender] BY DEF Pool
<1>2. NoSpender \in [Outpoint -> Tx \cup {None}] /\ \A o \in Outpoint : NoSpender[o] = None
  BY DEF NoSpender
<1>3. Pool \in PoolState /\ Pool.txs = {} /\ Pool.next = NoSpender
  BY <1>1, <1>2 DEF PoolState
<1> QED BY <1>2, <1>3 DEF PoolInv, WellKept, Standing, SpendsNew

(* Every step keeps the invariant of the pool. *)
LEMMA PoolStep == CoinsInv /\ PoolInv /\ [LedgerNext]_ledgerVars => PoolInv'
<1> SUFFICES ASSUME CoinsInv, PoolInv, [LedgerNext]_ledgerVars PROVE PoolInv'
  OBVIOUS
<1>1. CASE UNCHANGED chainVars /\ UNCHANGED poolVars
  BY <1>1 DEF chainVars, poolVars, PoolInv, Pool, Height, SpendsNew, InChain
<1>2. ASSUME NEW b \in Block \ {Genesis}, LedgerConnectTip(b) PROVE PoolInv'
  BY <1>2, ConnectTipPool
<1>3. CASE LedgerDisconnectTip
  BY <1>3, DisconnectTipPool
<1>4. CASE ClearPool
  <2>1. mapTx' = {} /\ mapNextTx' = NoSpender BY <1>4 DEF ClearPool, PoolIs
  <2>2. Pool' = [txs |-> {}, next |-> NoSpender] BY <2>1 DEF Pool
  <2>3. NoSpender \in [Outpoint -> Tx \cup {None}] /\ \A o \in Outpoint : NoSpender[o] = None
    BY DEF NoSpender
  <2>4. Pool' \in PoolState /\ Pool'.txs = {} /\ Pool'.next = NoSpender
    BY <2>2, <2>3 DEF PoolState
  <2> QED BY <2>3, <2>4 DEF PoolInv, WellKept, Standing, SpendsNew
<1>5. ASSUME NEW t \in Tx, AcceptOwn(t) \/ ReceiveTx(t) \/ OrphanAccepted(t) PROVE PoolInv'
  <2>1. /\ Acceptable(Pool, coins, Height(tip), t) /\ PoolIs(addUnchecked(Pool, t))
        /\ UNCHANGED chainVars
    BY <1>5 DEF AcceptOwn, ReceiveTx, OrphanAccepted
  <2> QED BY <2>1, AcceptPool
<1>6. ASSUME NEW t \in Tx, OrphanRefused(t) \/ OrphanWaits(t) PROVE PoolInv'
  <2>1. UNCHANGED chainVars /\ UNCHANGED poolVars BY <1>6 DEF OrphanRefused, OrphanWaits
  <2> QED BY <1>1, <2>1
<1>7. ASSUME NEW t \in Tx, NEW p \in Peer, ReceiveOrphan(t, p) PROVE PoolInv'
  <2>1. UNCHANGED chainVars /\ UNCHANGED poolVars BY <1>7 DEF ReceiveOrphan
  <2> QED BY <1>1, <2>1
<1>8. CASE NextWork
  <2>1. UNCHANGED chainVars /\ UNCHANGED poolVars BY <1>8 DEF NextWork
  <2> QED BY <1>1, <2>1
<1>9. ASSUME NEW p \in Peer, EraseOrphansFor(p) PROVE PoolInv'
  <2>1. UNCHANGED chainVars /\ UNCHANGED poolVars BY <1>9 DEF EraseOrphansFor
  <2> QED BY <1>1, <2>1
<1>10. CASE UNCHANGED ledgerVars
  <2>1. UNCHANGED chainVars /\ UNCHANGED poolVars BY <1>10 DEF ledgerVars
  <2> QED BY <1>1, <2>1
<1> QED BY <1>2, <1>3, <1>4, <1>5, <1>6, <1>7, <1>8, <1>9, <1>10 DEF LedgerNext

(* Every pool transaction but a zerocoin spend could be in the next block,  *)
(* mapNextTx holds their inputs and no others, and no zerocoin spend of the *)
(* pool is in the active chain: through blocks that come and go, and        *)
(* transactions that follow, conflict with or depend on each other in any   *)
(* number.  CTxMemPool::check asserts more, and fails at a zerocoin spend.  *)
THEOREM PoolCorrect == LedgerSpec => []PoolStands
<1>1. LedgerInit => CoinsInv /\ PoolInv
  BY CoinsInit, PoolStart DEF LedgerInit
<1>2. CoinsInv /\ PoolInv /\ [LedgerNext]_ledgerVars => CoinsInv' /\ PoolInv'
  BY CoinsStep, PoolStep
<1>3. CoinsInv /\ PoolInv => PoolStands
  BY PoolInvStands
<1> QED BY <1>1, <1>2, <1>3, PTL DEF LedgerSpec

=============================================================================
