------------------------------- MODULE ThreadPool -------------------------------
(***************************************************************************)
(* utils/ThreadPool.h.  The workers share a task queue under queue_mutex   *)
(* and wait on a condition variable for a task or for stop.  A passage of  *)
(* the mutex is one step: nobody else can be inside.  The notifications    *)
(* come after the mutex is released, in a step of their own, and other     *)
(* threads run in between; a notification nobody waits for has no effect.  *)
(* A waiting worker may also wake by itself, as the standard allows.       *)
(***************************************************************************)
EXTENDS Naturals, Sequences, Functions

CONSTANTS Workers,      \* the threads of the pool
          Enqueuers,    \* the threads that call enqueue
          Tasks,        \* the tasks they may submit, each at most once
          NoTask

ASSUME PoolAssumption == NoTask \notin Tasks /\ Workers # {}

VARIABLES
    tasks,       \* the task queue
    stop,
    worker,      \* worker[w]: "check" the wait's condition, "wait", "run" or "exited"
    running,     \* running[w]: the task a worker runs
    enqueuer,    \* enqueuer[e]: "idle", or "notify" between the mutex and notify_one
    destructor,  \* "none", "notify", "join" or "done"
    accepted,    \* the tasks enqueued, in order
    refused,     \* the tasks whose enqueue threw
    started,     \* the tasks taken by a worker, in order
    finished     \* the tasks that have run

vars == <<tasks, stop, worker, running, enqueuer, destructor, accepted, refused,
          started, finished>>

TypeOK ==
    /\ tasks \in Seq(Tasks) /\ accepted \in Seq(Tasks) /\ started \in Seq(Tasks)
    /\ stop \in BOOLEAN
    /\ worker \in [Workers -> {"check", "wait", "run", "exited"}]
    /\ running \in [Workers -> Tasks \cup {NoTask}]
    /\ enqueuer \in [Enqueuers -> {"idle", "notify"}]
    /\ destructor \in {"none", "notify", "join", "done"}
    /\ refused \subseteq Tasks /\ finished \subseteq Tasks

Init ==
    /\ tasks = <<>> /\ accepted = <<>> /\ started = <<>>
    /\ stop = FALSE
    /\ worker = [w \in Workers |-> "check"]
    /\ running = [w \in Workers |-> NoTask]
    /\ enqueuer = [e \in Enqueuers |-> "idle"]
    /\ destructor = "none"
    /\ refused = {} /\ finished = {}

Submitted == Range(accepted) \cup refused

-----------------------------------------------------------------------------
(* A worker, with the mutex: the condition of the wait, and what follows.  *)

Wait(w) ==
    /\ worker[w] = "check"
    /\ ~stop /\ tasks = <<>>
    /\ worker' = [worker EXCEPT ![w] = "wait"]
    /\ UNCHANGED <<tasks, stop, running, enqueuer, destructor, accepted, refused,
                   started, finished>>

(* Mutant: a worker leaves as soon as the pool is stopped. *)
ExitAtOnce(w) ==
    /\ worker[w] = "check"
    /\ stop
    /\ worker' = [worker EXCEPT ![w] = "exited"]
    /\ UNCHANGED <<tasks, stop, running, enqueuer, destructor, accepted, refused,
                   started, finished>>

Exit(w) ==
    /\ worker[w] = "check"
    /\ stop /\ tasks = <<>>
    /\ worker' = [worker EXCEPT ![w] = "exited"]
    /\ UNCHANGED <<tasks, stop, running, enqueuer, destructor, accepted, refused,
                   started, finished>>

(* Mutant: the front is popped before it is read. *)
TakeAfterPop(w) ==
    /\ worker[w] = "check"
    /\ tasks # <<>>
    /\ LET x == IF Len(tasks) > 1 THEN tasks[2] ELSE NoTask
       IN  running' = [running EXCEPT ![w] = x] /\ started' = Append(started, x)
    /\ worker' = [worker EXCEPT ![w] = "run"]
    /\ tasks' = Tail(tasks)
    /\ UNCHANGED <<stop, enqueuer, destructor, accepted, refused, finished>>

TakeTask(w) ==
    /\ worker[w] = "check"
    /\ tasks # <<>>
    /\ worker' = [worker EXCEPT ![w] = "run"]
    /\ running' = [running EXCEPT ![w] = Head(tasks)]
    /\ started' = Append(started, Head(tasks))
    /\ tasks' = Tail(tasks)
    /\ UNCHANGED <<stop, enqueuer, destructor, accepted, refused, finished>>

TaskReturns(w) ==
    /\ worker[w] = "run"
    /\ worker' = [worker EXCEPT ![w] = "check"]
    /\ running' = [running EXCEPT ![w] = NoTask]
    /\ finished' = finished \cup {running[w]}
    /\ UNCHANGED <<tasks, stop, enqueuer, destructor, accepted, refused, started>>

WakesByItself(w) ==
    /\ worker[w] = "wait"
    /\ worker' = [worker EXCEPT ![w] = "check"]
    /\ UNCHANGED <<tasks, stop, running, enqueuer, destructor, accepted, refused,
                   started, finished>>

-----------------------------------------------------------------------------
(* enqueue; the pool still exists.                                         *)

(* Mutant: no notification. *)
enqueueSilently(e, x) ==
    /\ enqueuer[e] = "idle" /\ destructor # "done"
    /\ x \notin Submitted
    /\ ~stop
    /\ tasks' = Append(tasks, x)
    /\ accepted' = Append(accepted, x)
    /\ UNCHANGED <<stop, worker, running, enqueuer, destructor, refused, started, finished>>

(* Mutant: a stopped pool accepts tasks. *)
enqueueUnchecked(e, x) ==
    /\ enqueuer[e] = "idle" /\ destructor # "done"
    /\ x \notin Submitted
    /\ tasks' = Append(tasks, x)
    /\ accepted' = Append(accepted, x)
    /\ enqueuer' = [enqueuer EXCEPT ![e] = "notify"]
    /\ UNCHANGED <<stop, worker, running, destructor, refused, started, finished>>

enqueue(e, x) ==
    /\ enqueuer[e] = "idle" /\ destructor # "done"
    /\ x \notin Submitted
    /\ ~stop
    /\ tasks' = Append(tasks, x)
    /\ accepted' = Append(accepted, x)
    /\ enqueuer' = [enqueuer EXCEPT ![e] = "notify"]
    /\ UNCHANGED <<stop, worker, running, destructor, refused, started, finished>>

enqueueThrows(e, x) ==
    /\ enqueuer[e] = "idle" /\ destructor # "done"
    /\ x \notin Submitted
    /\ stop
    /\ refused' = refused \cup {x}
    /\ UNCHANGED <<tasks, stop, worker, running, enqueuer, destructor, accepted,
                   started, finished>>

Waiting == {w \in Workers : worker[w] = "wait"}

NotifyOne(e) ==
    /\ enqueuer[e] = "notify"
    /\ IF Waiting = {}
       THEN UNCHANGED worker
       ELSE \E w \in Waiting : worker' = [worker EXCEPT ![w] = "check"]
    /\ enqueuer' = [enqueuer EXCEPT ![e] = "idle"]
    /\ UNCHANGED <<tasks, stop, running, destructor, accepted, refused, started, finished>>

-----------------------------------------------------------------------------
(* ~ThreadPool, called once, possibly between an enqueue's two steps.      *)

SetStop ==
    /\ destructor = "none"
    /\ stop' = TRUE
    /\ destructor' = "notify"
    /\ UNCHANGED <<tasks, worker, running, enqueuer, accepted, refused, started, finished>>

(* Mutant: notify_one in the destructor. *)
NotifyOneOfAll ==
    /\ destructor = "notify"
    /\ IF Waiting = {}
       THEN UNCHANGED worker
       ELSE \E w \in Waiting : worker' = [worker EXCEPT ![w] = "check"]
    /\ destructor' = "join"
    /\ UNCHANGED <<tasks, stop, running, enqueuer, accepted, refused, started, finished>>

NotifyAll ==
    /\ destructor = "notify"
    /\ worker' = [w \in Workers |-> IF worker[w] = "wait" THEN "check" ELSE worker[w]]
    /\ destructor' = "join"
    /\ UNCHANGED <<tasks, stop, running, enqueuer, accepted, refused, started, finished>>

JoinAll ==
    /\ destructor = "join"
    /\ \A w \in Workers : worker[w] = "exited"
    /\ destructor' = "done"
    /\ UNCHANGED <<tasks, stop, worker, running, enqueuer, accepted, refused, started,
                   finished>>

-----------------------------------------------------------------------------
WorkerStep(w) == Wait(w) \/ Exit(w) \/ TakeTask(w) \/ TaskReturns(w)

DestructorStep == NotifyAll \/ JoinAll

Next ==
    \/ \E w \in Workers : WorkerStep(w) \/ WakesByItself(w)
    \/ \E e \in Enqueuers : NotifyOne(e) \/ \E x \in Tasks : enqueue(e, x)
                                              \/ enqueueThrows(e, x)
    \/ SetStop \/ DestructorStep

Spec == Init /\ [][Next]_vars

(* Threads are scheduled for ever and tasks return.  Nothing obliges       *)
(* anyone to enqueue or to destroy the pool, nor a worker to wake without  *)
(* being notified.                                                         *)
FairSpec ==
    /\ Spec
    /\ \A w \in Workers : WF_vars(WorkerStep(w))
    /\ \A e \in Enqueuers : WF_vars(NotifyOne(e))
    /\ WF_vars(DestructorStep)

-----------------------------------------------------------------------------
(* Properties. *)

(* No wake-up is lost: while a task is queued somebody is on the way to    *)
(* it, a worker that will look at the queue or a notification still to be  *)
(* sent; and once the pool is stopped every waiting worker will be told.   *)
NoLostWakeup ==
    /\ tasks # <<>> => \/ \E w \in Workers : worker[w] \in {"check", "run"}
                       \/ \E e \in Enqueuers : enqueuer[e] = "notify"
                       \/ destructor = "notify"
    /\ stop /\ Waiting # {} => destructor = "notify"

(* Tasks start in the order in which they were accepted, each once.        *)
StartedInOrder == accepted = started \o tasks

(* The destructor returns only when every task that was accepted has run,  *)
(* and no task is accepted that the workers could leave behind.            *)
JoinDrains == destructor = "done" => finished = Range(accepted)

(* Why, as an inductive invariant: a worker only leaves a stopped and empty *)
(* pool, and what was started is running or finished.                       *)
WorkersInv ==
    /\ NoLostWakeup
    /\ StartedInOrder
    /\ stop <=> destructor # "none"
    /\ \A w \in Workers :
          /\ worker[w] = "exited" => stop /\ tasks = <<>>
          /\ destructor = "done" => worker[w] = "exited"
          /\ worker[w] = "run" => running[w] \in Range(started)
    /\ Range(started) \subseteq
          finished \cup {running[w] : w \in {v \in Workers : worker[v] = "run"}}
    /\ finished \subseteq Range(started)

PoolInv == TypeOK /\ WorkersInv

(* A task whose enqueue succeeded is run, whether the pool is stopped or   *)
(* not.                                                                    *)
AcceptedRuns == \A x \in Tasks :
    (x \in Range(accepted)) ~> (x \in finished)

(* A destructor that has begun returns.                                    *)
DestructorReturns == stop ~> destructor = "done"

=================================================================================
