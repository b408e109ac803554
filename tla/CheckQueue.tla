----------------------------- MODULE CheckQueue -----------------------------
(***************************************************************************)
(* CCheckQueue (checkqueue.h): the script checks of a block run on worker  *)
(* threads; ConnectBlock, the master, adds them transaction by transaction *)
(* and joins the workers in Wait for the verdict.  Its CCheckQueueControl  *)
(* asserts that the queue is idle before, and waits in its destructor when *)
(* the block is refused early or an exception passes.  Shutdown interrupts *)
(* every thread that sleeps in a condition variable.                       *)
(*                                                                         *)
(* A critical section of the mutex is one step.  Which checks a batch      *)
(* takes off the stack is left open.  fQuit is never set and left out; of  *)
(* the masters cs_main admits one at a time.                               *)
(***************************************************************************)
EXTENDS Integers, FiniteSets

CONSTANTS
    Worker,      \* threads in Thread()
    Master,      \* the thread in ConnectBlock
    Check,       \* CScriptChecks of a block
    Valid,       \* those that return true
    BatchSize    \* nBatchSize

ASSUME ThreadAssumption == IsFiniteSet(Worker) /\ Master \notin Worker
ASSUME CheckAssumption  == IsFiniteSet(Check) /\ Valid \subseteq Check
ASSUME BatchAssumption  == BatchSize \in Nat \ {0}

Thread == Worker \cup {Master}

VARIABLES
    queue, nTodo, nIdle, nTotal, fAllOk,
    pc,          \* where a thread is in Loop
    batch,       \* vChecks of a thread, empty outside of a batch
    left,        \* those of them still to run
    fOk,
    stage,       \* what ConnectBlock does with its control
    added,       \* history: the checks of this block
    verdict,     \* history: what Wait returned
    pending,     \* threads with an interruption requested
    shutdown     \* interrupt_all has been called

counters == <<nTodo, nIdle, nTotal>>
own      == <<batch, left, fOk>>
block    == <<stage, added, verdict>>
vars == <<queue, counters, fAllOk, pc, own, block, pending, shutdown>>

Outstanding == queue \cup UNION {batch[t] : t \in Thread}
Busy        == {t \in Thread : pc[t] = "working"}

TypeOK ==
    /\ queue \subseteq Check /\ added \subseteq Check
    /\ nTodo \in Nat /\ nIdle \in Nat /\ nTotal \in Nat
    /\ fAllOk \in BOOLEAN /\ fOk \in [Thread -> BOOLEAN]
    /\ pc \in [Thread -> {"out", "enter", "sleeping", "woken", "working", "gone"}]
    /\ batch \in [Thread -> SUBSET Check]
    /\ left \in [Thread -> SUBSET Check]
    /\ stage \in {"out", "adding", "waiting", "destroying", "unwinding",
                  "terminated", "aborted"}
    /\ verdict \in {"none", "valid", "invalid"}
    /\ pending \subseteq Thread /\ shutdown \in BOOLEAN

-----------------------------------------------------------------------------
Stopped == stage \in {"terminated", "aborted"}
InWait  == stage \in {"waiting", "destroying", "unwinding"}

IsIdle == nTotal = nIdle /\ nTodo = 0 /\ fAllOk

(* How many checks to take: the share of this thread, at least one. *)
BatchCount(total, idle) ==
    LET share == Cardinality(queue) \div (total + idle + 1) IN
    IF share < 1 THEN 1 ELSE IF share > BatchSize THEN BatchSize ELSE share

(* The master is done when the queue is empty and no batch is under way.   *)
DoneWhenEmpty(t, todo) == queue = {} /\ t = Master   \* mutant: without nTodo == 0
Done(t, todo) == queue = {} /\ t = Master /\ todo = 0

AllOkKept(ok) == ok      \* mutant: the status is not reset
AllOkAfter(ok) == TRUE

(* The end of Wait: fAllOk is reset for the next block. *)
Leave(t, pcs, todo, ok, total, idle) ==
    /\ Done(t, todo)
    /\ nTotal' = total - 1 /\ nIdle' = idle /\ nTodo' = todo
    /\ fAllOk' = AllOkAfter(ok)
    /\ pc' = [pcs EXCEPT ![t] = "out"]
    /\ stage' = "out"
    /\ verdict' = IF stage # "waiting" THEN "none" ELSE IF ok THEN "valid" ELSE "invalid"
    /\ batch' = [batch EXCEPT ![t] = {}]
    /\ UNCHANGED <<queue, left, fOk, added, pending, shutdown>>

MustWait(t, todo) == queue = {} /\ ~Done(t, todo)

Sleep(t, pcs, todo, ok, total, idle) ==
    /\ MustWait(t, todo) /\ t \notin pending
    /\ nTotal' = total /\ nIdle' = idle + 1 /\ nTodo' = todo
    /\ fAllOk' = ok
    /\ pc' = [pcs EXCEPT ![t] = "sleeping"]
    /\ batch' = [batch EXCEPT ![t] = {}]
    /\ UNCHANGED <<queue, left, fOk, block, pending, shutdown>>

(* thread_interrupted leaves Loop: a worker ends.  Wait runs once more in  *)
(* the control's destructor, and a destructor that throws ends the process.*)
Throw(t, pcs) ==
    /\ pending' = pending \ {t}
    /\ pc' = [pcs EXCEPT ![t] =
                  IF t = Master /\ stage = "waiting" THEN "enter" ELSE "gone"]
    /\ stage' = IF t # Master THEN stage
                ELSE IF stage = "waiting" THEN "unwinding" ELSE "terminated"
    /\ batch' = [batch EXCEPT ![t] = {}]
    /\ UNCHANGED <<queue, left, fOk, added, verdict, shutdown>>

(* cond.wait throws at once when the interruption came before. *)
ThrowAtWait(t, pcs, todo, ok, total, idle) ==
    /\ MustWait(t, todo) /\ t \in pending
    /\ nTotal' = total /\ nIdle' = idle + 1 /\ nTodo' = todo
    /\ fAllOk' = ok
    /\ Throw(t, pcs)

Take(t, pcs, todo, ok, total, idle) ==
    \E S \in SUBSET queue :
        /\ queue # {} /\ Cardinality(S) = BatchCount(total, idle)
        /\ queue' = queue \ S
        /\ batch' = [batch EXCEPT ![t] = S]
        /\ left' = [left EXCEPT ![t] = S]
        /\ fOk' = [fOk EXCEPT ![t] = ok]
        /\ nTotal' = total /\ nIdle' = idle /\ nTodo' = todo
        /\ fAllOk' = ok
        /\ pc' = [pcs EXCEPT ![t] = "working"]
        /\ UNCHANGED <<block, pending, shutdown>>

(* From "logically, the do loop starts here" to the end of the critical    *)
(* section or the wait in it.                                              *)
Proceed(t, pcs, todo, ok, total, idle) ==
    \/ Leave(t, pcs, todo, ok, total, idle)
    \/ Sleep(t, pcs, todo, ok, total, idle)
    \/ ThrowAtWait(t, pcs, todo, ok, total, idle)
    \/ Take(t, pcs, todo, ok, total, idle)

Enter(t) ==
    /\ pc[t] = "enter"
    /\ Proceed(t, pc, nTodo, fAllOk, nTotal + 1, nIdle)

Resume(t) ==
    /\ pc[t] = "woken" /\ t \notin pending
    /\ Proceed(t, pc, nTodo, fAllOk, nTotal, nIdle - 1)

(* The interruption point after the wake-up is before nIdle--. *)
ThrowAwake(t) ==
    /\ pc[t] = "woken" /\ t \in pending
    /\ Throw(t, pc)
    /\ UNCHANGED <<counters, fAllOk>>

RunCheck(t) ==
    /\ pc[t] = "working"
    /\ \E c \in left[t] :
           /\ left' = [left EXCEPT ![t] = @ \ {c}]
           /\ fOk' = [fOk EXCEPT ![t] = @ /\ c \in Valid]
    /\ UNCHANGED <<queue, counters, fAllOk, pc, batch, block, pending, shutdown>>

(* condMaster.notify_one() when a worker has finished the last check. *)
NotifyNever(t, todo) == pc            \* mutant: no notification
NotifyMaster(t, todo) ==
    IF todo = 0 /\ t # Master /\ pc[Master] = "sleeping"
    THEN [pc EXCEPT ![Master] = "woken"] ELSE pc

TodoAfter(t) == nTodo - Cardinality(batch[t])
AllOkFrom(t) == fOk[t]                \* mutant: = instead of &=
AllOkWith(t) == fAllOk /\ fOk[t]
FinishBatch(t) ==
    /\ pc[t] = "working" /\ left[t] = {}
    /\ Proceed(t, NotifyMaster(t, TodoAfter(t)), TodoAfter(t), AllOkWith(t), nTotal, nIdle)

(* A condition variable may wake without a notification. *)
WakeUp(t) ==
    /\ pc[t] = "sleeping"
    /\ pc' = [pc EXCEPT ![t] = "woken"]
    /\ UNCHANGED <<queue, counters, fAllOk, own, block, pending, shutdown>>

-----------------------------------------------------------------------------
(* The constructor of CCheckQueueControl. *)
BeginBlock ==
    /\ stage = "out"
    /\ stage' = IF IsIdle THEN "adding" ELSE "aborted"
    /\ added' = {} /\ verdict' = "none"
    /\ UNCHANGED <<queue, counters, fAllOk, pc, own, pending, shutdown>>

Sleepers == {w \in Worker : pc[w] = "sleeping"}

(* notify_one wakes one sleeper if there is any, notify_all all of them. *)
Notified(S, W) ==
    IF Cardinality(S) > 1 THEN W = Sleepers
    ELSE W \subseteq Sleepers /\ Cardinality(W) <= 1 /\ (W = {} => Sleepers = {})

Add(S) ==
    /\ stage = "adding"
    /\ queue' = queue \cup S /\ added' = added \cup S
    /\ nTodo' = nTodo + Cardinality(S)
    /\ \E W \in SUBSET Worker :
           /\ Notified(S, W)
           /\ pc' = [t \in Thread |-> IF t \in W THEN "woken" ELSE pc[t]]
    /\ UNCHANGED <<nIdle, nTotal, fAllOk, own, stage, verdict, pending, shutdown>>

(* control.Wait(), or the destructor of a control whose block is refused. *)
CallWait ==
    /\ stage = "adding"
    /\ stage' \in {"waiting", "destroying"}
    /\ pc' = [pc EXCEPT ![Master] = "enter"]
    /\ UNCHANGED <<queue, counters, fAllOk, own, added, verdict, pending, shutdown>>

(* interrupt_all() at shutdown: the master is in the group, unless a block *)
(* is connected by another thread, such as one of the RPC server's.        *)
InterruptAll ==
    /\ ~shutdown /\ shutdown' = TRUE
    /\ pending' \in {Worker, Thread}
    /\ pc' = [t \in Thread |-> IF t \in pending' /\ pc[t] = "sleeping"
                               THEN "woken" ELSE pc[t]]
    /\ UNCHANGED <<queue, counters, fAllOk, own, block>>

-----------------------------------------------------------------------------
Init ==
    /\ queue = {} /\ nTodo = 0 /\ nIdle = 0 /\ nTotal = 0 /\ fAllOk = TRUE
    /\ pc = [t \in Thread |-> IF t = Master THEN "out" ELSE "enter"]
    /\ batch = [t \in Thread |-> {}] /\ left = [t \in Thread |-> {}]
    /\ fOk = [t \in Thread |-> TRUE]
    /\ stage = "out" /\ added = {} /\ verdict = "none"
    /\ pending = {} /\ shutdown = FALSE

InLoop(t) ==
    ~Stopped /\ (Enter(t) \/ Resume(t) \/ ThrowAwake(t) \/ RunCheck(t) \/ FinishBatch(t))

Environment ==
    \/ BeginBlock
    \/ \E S \in SUBSET (Check \ added) \ {{}} : Add(S)
    \/ CallWait
    \/ InterruptAll

Next ==
    \/ \E t \in Thread : InLoop(t) \/ (~Stopped /\ WakeUp(t))
    \/ ~Stopped /\ Environment

Spec == Init /\ [][Next]_vars

(* Threads that can run do run; a wake-up without a notification, a block  *)
(* and an interruption need never come.                                    *)
FairSpec == Spec /\ \A t \in Thread : WF_vars(InLoop(t))

-----------------------------------------------------------------------------
(* nTodo counts the checks in the queue and in the threads' batches, each  *)
(* once, whichever thread finishes, is interrupted or adds in between.     *)
TodoIsOutstanding ==
    /\ nTodo = Cardinality(Outstanding)
    /\ \A t, u \in Thread : batch[t] \cap queue = {} /\ (t # u => batch[t] \cap batch[u] = {})

(* The threads that are not idle are the ones that run a batch: also after *)
(* an interruption, which leaves a thread counted in nIdle and in nTotal.  *)
BusyIsNotIdle == nTotal - nIdle = Cardinality(Busy)

(* The assertion in CCheckQueueControl's constructor, that the queue is    *)
(* idle when ConnectBlock starts on a block, holds every time, also when   *)
(* the last block was refused half way or its Wait was interrupted.        *)
AssertHolds == stage # "aborted"

(* control.Wait() returns true just when every check of the block is       *)
(* valid, although batches stop at a failure and fAllOk is shared.         *)
VerdictIsConjunction ==
    verdict # "none" => (verdict = "valid" <=> added \subseteq Valid)

(* "guarantees the passed queue is finished before continuing": no thread  *)
(* holds a check, which points into the block, when ConnectBlock is over.  *)
FinishedBeforeReturn == stage = "out" => Outstanding = {}

(* No wake-up is lost: a Wait ends, with workers interrupted or not yet    *)
(* started, whatever thread notify_one woke.                               *)
WaitEnds == []<>~InWait
=============================================================================
