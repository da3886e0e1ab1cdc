------------------------------ MODULE TwoPLExecutor ------------------------------
(***************************************************************************)
(* The threads of protocol/TwoPL/TwoPLExecutor.h and the queues between    *)
(* them.  A transaction is in one place at a time and moves                *)
(*                                                                         *)
(*   "generate"      what the generator has still to push                  *)
(*   "execute"       _ready_execute_queue                                  *)
(*   "execute_thread"  popped by the polling thread of execute_thread      *)
(*   "execute_tp"    the task queue of _execute_tp                         *)
(*   w \in Callers   the task of a thread of _execute_tp                   *)
(*   "commit"        _ready_commit_queue                                   *)
(*   "main_thread"   popped by the polling thread of main_thread           *)
(*   "commit_tp"     the task queue of _commit_tp                          *)
(*   c \in Committers  the task of a thread of _commit_tp                  *)
(*   "committed"                                                           *)
(*                                                                         *)
(* or, refused a lock, from w back to "execute".  The generator is         *)
(* generate_workload_thread of benchmark/YCSB/YWorkload.h.  A push or pop  *)
(* of a SafeQueue, an enqueue and a take of a ThreadPool happen under a    *)
(* mutex and are one step.  What execute() returns is left open here;      *)
(* module TwoPL composes the threads with the transactions they run.       *)
(***************************************************************************)
EXTENDS Counter, Functions, FiniteSets

CONSTANTS Arrival,     \* the transactions in the order of generation
          Committers   \* the threads of _commit_tp; those of _execute_tp are Callers

Stages == {"generate", "execute", "execute_thread", "execute_tp", "commit",
           "main_thread", "commit_tp", "committed"}

Places == Stages \cup Callers \cup Committers

ASSUME ExecutorAssumption ==
    /\ Arrival \in Seq(Txns) /\ IsInjective(Arrival) /\ Range(Arrival) = Txns
    /\ Stages \cap (Callers \cup Committers) = {}
    /\ Callers \cap Committers = {}

VARIABLES
    queue,           \* queue[p]: the transactions in place p, the oldest first
    worker,          \* what each thread of _execute_tp is about to do
    readyOrder,      \* the transactions in the order they became ready
    startOrder       \* the transactions in the order their commits started

executorVars == <<counterVars, txn_id, queue, worker, readyOrder, startOrder>>

ExecutorTypeOK ==
    /\ CounterTypeOK
    /\ txn_id \in [Txns -> TxnId]
    /\ queue \in [Places -> Seq(Txns)]
    /\ worker \in [Callers -> {"idle", "draw", "load", "run"}]
    /\ readyOrder \in Seq(Txns) /\ startOrder \in Seq(Txns)

ExecutorInit ==
    /\ reset_counter
    /\ txn_id = [t \in Txns |-> NoId]
    /\ queue = [p \in Places |-> IF p = "generate" THEN Arrival ELSE <<>>]
    /\ worker = [w \in Callers |-> "idle"]
    /\ readyOrder = <<>> /\ startOrder = <<>>

(* The transaction a place gives away next: the only one of a thread.      *)
Oldest(p) == Head(queue[p])

(* Mutant: the front is read and not popped. *)
MovePeeked(p, q) ==
    /\ queue[p] # <<>>
    /\ queue' = [queue EXCEPT ![q] = Append(@, Oldest(p))]

(* pop, then push: a queue found empty gives nothing. *)
Move(p, q) ==
    /\ queue[p] # <<>>
    /\ queue' = [queue EXCEPT ![p] = Tail(@), ![q] = Append(@, Oldest(p))]

(* Mutant: a thread takes a transaction before it is done with the last.   *)
TakeEarly(p, thread) == Move(p, thread)

(* A thread takes a transaction only when it is done with the last.        *)
Take(p, thread) == queue[thread] = <<>> /\ Move(p, thread)

-----------------------------------------------------------------------------
idVars == <<counterVars, txn_id>>
history == <<readyOrder, startOrder>>

(* generate_workload_thread: next_transaction and insert_queue. *)
Generate == Move("generate", "execute") /\ UNCHANGED <<idVars, worker, history>>

(* Mutant: what pop returns is not tested, and a blank copy is enqueued.   *)
PopUntested ==
    /\ queue["execute_thread"] = <<>>
    /\ \/ Move("execute", "execute_thread")
       \/ /\ queue["execute"] = <<>>
          /\ queue' = [queue EXCEPT !["execute_thread"] = <<NoId>>]
    /\ UNCHANGED <<idVars, worker, history>>

(* The loop of execute_thread: pop, then enqueue to the pool. *)
PopExecute ==
    Take("execute", "execute_thread") /\ UNCHANGED <<idVars, worker, history>>

EnqueueExecute ==
    Move("execute_thread", "execute_tp") /\ UNCHANGED <<idVars, worker, history>>

(* Mutant: a transaction draws an identifier every time it is executed. *)
TakeAndRedraw(w) ==
    /\ Take("execute_tp", w)
    /\ worker' = [worker EXCEPT ![w] = "draw"]
    /\ UNCHANGED <<idVars, history>>

(* The task of a thread of _execute_tp: a transaction that has no          *)
(* identifier is given one first.                                          *)
TakeExecuteTask(w) ==
    /\ Take("execute_tp", w)
    /\ worker' = [worker EXCEPT ![w] =
                     IF txn_id[Oldest("execute_tp")] = NoId THEN "draw" ELSE "run"]
    /\ UNCHANGED <<idVars, history>>

BeginDraw(w) ==
    /\ worker[w] = "draw"
    /\ FetchAdd(w)
    /\ worker' = [worker EXCEPT ![w] = "load"]
    /\ UNCHANGED <<txn_id, queue, history>>

EndDraw(w) ==
    /\ worker[w] = "load"
    /\ LoadId(w)
    /\ txn_id' = [txn_id EXCEPT ![Oldest(w)] = counter]
    /\ worker' = [worker EXCEPT ![w] = "run"]
    /\ UNCHANGED <<queue, history>>

Finish(w) ==
    /\ worker[w] = "run"
    /\ worker' = [worker EXCEPT ![w] = "idle"]

(* execute() returns READY_TO_COMMIT. *)
Ready(w) ==
    /\ Finish(w)
    /\ Move(w, "commit")
    /\ readyOrder' = Append(readyOrder, Oldest(w))
    /\ UNCHANGED <<idVars, startOrder>>

(* Mutant: a refused transaction is put before those that wait. *)
ReexecuteFirst(w) ==
    /\ Finish(w)
    /\ queue[w] # <<>>
    /\ queue' = [queue EXCEPT ![w] = Tail(@), !["execute"] = <<Oldest(w)>> \o @]
    /\ UNCHANGED <<idVars, history>>

(* execute() returns ABORT. *)
Reexecute(w) ==
    /\ Finish(w)
    /\ Move(w, "execute")
    /\ UNCHANGED <<idVars, history>>

-----------------------------------------------------------------------------
(* Mutant: the queue is popped at its back. *)
PopCommitBack ==
    LET s == queue["commit"] IN
    /\ queue["main_thread"] = <<>> /\ s # <<>>
    /\ queue' = [queue EXCEPT !["commit"] = SubSeq(s, 1, Len(s) - 1),
                              !["main_thread"] = <<s[Len(s)]>>]
    /\ UNCHANGED <<idVars, worker, history>>

(* The loop of main_thread. *)
PopCommit == Take("commit", "main_thread") /\ UNCHANGED <<idVars, worker, history>>

EnqueueCommit ==
    Move("main_thread", "commit_tp") /\ UNCHANGED <<idVars, worker, history>>

(* The task of a thread of _commit_tp: commit_txn always returns true.     *)
TakeCommitTask(c) ==
    /\ Take("commit_tp", c)
    /\ startOrder' = Append(startOrder, Oldest("commit_tp"))
    /\ UNCHANGED <<idVars, worker, readyOrder>>

CommitReturns(c) == Move(c, "committed") /\ UNCHANGED <<idVars, worker, history>>

-----------------------------------------------------------------------------
ExecuteThread == PopExecute \/ EnqueueExecute

MainThread == PopCommit \/ EnqueueCommit

ExecuteWorker(w) ==
    TakeExecuteTask(w) \/ BeginDraw(w) \/ EndDraw(w) \/ Ready(w) \/ Reexecute(w)

CommitWorker(c) == TakeCommitTask(c) \/ CommitReturns(c)

ExecutorNext ==
    \/ Generate \/ ExecuteThread \/ MainThread
    \/ \E w \in Callers : ExecuteWorker(w)
    \/ \E c \in Committers : CommitWorker(c)

ExecutorSpec == ExecutorInit /\ [][ExecutorNext]_executorVars

(* The operating system schedules every thread for ever; both polling      *)
(* threads are endless loops.                                              *)
FairExecutorSpec ==
    /\ ExecutorSpec
    /\ WF_executorVars(Generate)
    /\ WF_executorVars(ExecuteThread)
    /\ WF_executorVars(MainThread)
    /\ \A w \in Callers : WF_executorVars(ExecuteWorker(w))
    /\ \A c \in Committers : WF_executorVars(CommitWorker(c))

-----------------------------------------------------------------------------
(* Properties. *)

In(t, p) == t \in Range(queue[p])

(* A transaction is copied at every push, pop and enqueue, yet at any time *)
(* exactly one copy is to be processed: none is lost between the queues    *)
(* and the pools, none is executed by two workers, none committed twice.   *)
EachInOnePlace ==
    /\ \A p \in Places : IsInjective(queue[p])
    /\ \A t \in Txns : \E p \in Places : \A q \in Places : In(t, q) <=> q = p

(* Between two pools with several threads each, the commits still start in *)
(* the order in which the transactions became ready: one thread polls the  *)
(* queue and the pool's tasks are taken in order.                          *)
CommitsStartInReadyOrder ==
    readyOrder = startOrder \o (queue["commit_tp"]
                     \o (queue["main_thread"] \o queue["commit"]))

(* Why, as an inductive invariant: a thread holds at most one transaction, *)
(* a worker exactly while it is not idle, and a worker is in a call of the *)
(* counter exactly when it is about to load.                               *)
OneAtATime ==
    /\ \A p \in {"execute_thread", "main_thread"} \cup Callers \cup Committers :
          Len(queue[p]) <= 1
    /\ \A w \in Callers : /\ worker[w] = "idle" <=> queue[w] = <<>>
                          /\ worker[w] = "load" <=> drawing[w] # 0

(* A transaction draws one identifier, however often it is re-executed,    *)
(* and has it before its locks are asked for.                              *)
Named(t) ==
    \/ txn_id[t] # NoId
    \/ \E w \in Callers : worker[w] = "load" /\ In(t, w)

OneIdPerTxn == Start + Cardinality(Txns) < NoId =>
    /\ increments = Cardinality({t \in Txns : Named(t)})
    /\ \A t \in Txns, w \in Callers :
          worker[w] = "run" /\ In(t, w) => txn_id[t] # NoId

(* A transaction that is refused finitely often is committed in the end,   *)
(* even if others are refused for ever and keep refilling the queue.       *)
EveryTxnCommits == \A t \in Txns :
    <>[][\A w \in Callers : Reexecute(w) => Oldest(w) # t]_executorVars
        => <>In(t, "committed")

(* generate_unique_id names transactions; its name says that two of them   *)
(* have different identifiers.                                             *)
UniqueTxnIds == Start + Cardinality(Txns) < NoId =>
    \A t, u \in Txns : t # u /\ txn_id[t] # NoId => txn_id[t] # txn_id[u]

=================================================================================
