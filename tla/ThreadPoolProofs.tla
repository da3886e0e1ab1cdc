---------------------------- MODULE ThreadPoolProofs ----------------------------
(* Theorems about ThreadPool, for any number of workers, enqueuing threads  *)
(* and tasks.                                                               *)
EXTENDS ThreadPool, SequenceTheorems, TLAPS

-----------------------------------------------------------------------------
(* The task queue and its history.                                          *)

LEMMA ItemsOfAppend ==
    ASSUME NEW S, NEW s \in Seq(S), NEW x \in S
    PROVE  /\ Append(s, x) \in Seq(S)
           /\ Range(Append(s, x)) = Range(s) \cup {x}
<1>1. /\ Append(s, x) \in Seq(S)
      /\ DOMAIN s = 1 .. Len(s) /\ Len(s) \in Nat
      /\ DOMAIN Append(s, x) = 1 .. Len(s) + 1
      /\ \A i \in 1 .. Len(s) : Append(s, x)[i] = s[i]
      /\ Append(s, x)[Len(s) + 1] = x
  OBVIOUS
<1>2. \A i : i \in 1 .. Len(s) + 1 <=> i \in 1 .. Len(s) \/ i = Len(s) + 1
  BY <1>1
<1> QED
  BY <1>1, <1>2 DEF Range

(* What is accepted at the end of the queue is the end of the history.      *)
LEMMA AppendToQueue ==
    ASSUME NEW S, NEW p \in Seq(S), NEW s \in Seq(S), NEW x \in S
    PROVE  Append(p \o s, x) = p \o Append(s, x)
OBVIOUS

(* What is taken from the head of the queue is the next of the history.     *)
LEMMA TakeFromQueue ==
    ASSUME NEW S, NEW p \in Seq(S), NEW s \in Seq(S), s # <<>>
    PROVE  /\ Head(s) \in S /\ Tail(s) \in Seq(S)
           /\ Append(p, Head(s)) \o Tail(s) = p \o s
<1>1. /\ Head(s) \in S /\ Tail(s) \in Seq(S) /\ Len(s) \in Nat \ {0}
      /\ Len(Tail(s)) = Len(s) - 1
      /\ \A i \in 1 .. Len(s) - 1 : Tail(s)[i] = s[i + 1]
      /\ Head(s) = s[1]
  BY HeadTailProperties, EmptySeq
<1>2. Append(p, Head(s)) \in Seq(S) /\ Len(Append(p, Head(s))) = Len(p) + 1
  BY <1>1
<1>3. /\ Append(p, Head(s)) \o Tail(s) \in Seq(S)
      /\ p \o s \in Seq(S)
      /\ Len(Append(p, Head(s)) \o Tail(s)) = Len(p) + Len(s)
      /\ Len(p \o s) = Len(p) + Len(s)
  BY <1>1, <1>2, ConcatProperties
<1>4. ASSUME NEW i \in 1 .. Len(p) + Len(s)
      PROVE  (Append(p, Head(s)) \o Tail(s))[i] = (p \o s)[i]
  <2>1. (p \o s)[i] = IF i <= Len(p) THEN p[i] ELSE s[i - Len(p)]
    BY ConcatProperties
  <2>2. (Append(p, Head(s)) \o Tail(s))[i] =
           IF i <= Len(p) + 1 THEN Append(p, Head(s))[i] ELSE Tail(s)[i - (Len(p) + 1)]
    BY <1>1, <1>2, ConcatProperties
  <2>3. CASE i <= Len(p)
    BY <2>1, <2>2, <2>3
  <2>4. CASE i = Len(p) + 1
    BY <1>1, <2>1, <2>2, <2>4
  <2>5. CASE i > Len(p) + 1
    BY <1>1, <2>1, <2>2, <2>5
  <2> QED
    BY <2>3, <2>4, <2>5
<1> QED
  BY <1>1, <1>3, <1>4, SeqEqual

-----------------------------------------------------------------------------
LEMMA TypeStep ==
    ASSUME TypeOK, WorkersInv, [Next]_vars
    PROVE  TypeOK'
<1> USE DEF TypeOK
<1>1. CASE UNCHANGED vars
  BY <1>1 DEF vars
<1>2. ASSUME NEW w \in Workers, Wait(w) \/ Exit(w) \/ WakesByItself(w)
      PROVE  TypeOK'
  BY <1>2 DEF Wait, Exit, WakesByItself
<1>3. ASSUME NEW w \in Workers, TakeTask(w)
      PROVE  TypeOK'
  <2>1. Head(tasks) \in Tasks /\ Tail(tasks) \in Seq(Tasks)
    BY <1>3, TakeFromQueue DEF TakeTask
  <2> QED
    BY <1>3, <2>1, ItemsOfAppend DEF TakeTask
<1>4. ASSUME NEW w \in Workers, TaskReturns(w)
      PROVE  TypeOK'
  <2>1. running[w] \in Range(started)
    BY <1>4 DEF TaskReturns, WorkersInv
  <2>2. Range(started) \subseteq Tasks
    BY DEF Range
  <2> QED
    BY <1>4, <2>1, <2>2 DEF TaskReturns
<1>5. ASSUME NEW e \in Enqueuers, NEW x \in Tasks, enqueue(e, x) \/ enqueueThrows(e, x)
      PROVE  TypeOK'
  <2>1. CASE enqueue(e, x)
    <3>1. Append(tasks, x) \in Seq(Tasks) /\ Append(accepted, x) \in Seq(Tasks)
      BY ItemsOfAppend
    <3> QED
      BY <2>1, <3>1 DEF enqueue
  <2>2. CASE enqueueThrows(e, x)
    BY <2>2 DEF enqueueThrows
  <2> QED
    BY <1>5, <2>1, <2>2
<1>6. ASSUME NEW e \in Enqueuers, NotifyOne(e)
      PROVE  TypeOK'
  <2>1. worker' \in [Workers -> {"check", "wait", "run", "exited"}]
    <3>1. CASE Waiting = {}
      BY <1>6, <3>1 DEF NotifyOne
    <3>2. CASE Waiting # {}
      BY <1>6, <3>2 DEF NotifyOne, Waiting
    <3> QED
      BY <3>1, <3>2
  <2> QED
    BY <1>6, <2>1 DEF NotifyOne
<1>7. CASE SetStop \/ DestructorStep
  BY <1>7 DEF SetStop, DestructorStep, NotifyAll, JoinAll
<1> QED
  BY <1>1, <1>2, <1>3, <1>4, <1>5, <1>6, <1>7 DEF Next, WorkerStep

LEMMA PoolStep ==
    ASSUME TypeOK, WorkersInv, [Next]_vars
    PROVE  WorkersInv'
<1> USE DEF TypeOK, WorkersInv, NoLostWakeup, StartedInOrder, Waiting
<1>1. CASE UNCHANGED vars
  BY <1>1 DEF vars
<1>2. ASSUME NEW w \in Workers, Wait(w) \/ Exit(w) \/ WakesByItself(w)
      PROVE  WorkersInv'
  BY <1>2 DEF Wait, Exit, WakesByItself
<1>3. ASSUME NEW w \in Workers, TakeTask(w)
      PROVE  WorkersInv'
  <2>1. /\ accepted' = started' \o tasks'
        /\ Range(started') = Range(started) \cup {Head(tasks)}
    BY <1>3, TakeFromQueue, ItemsOfAppend DEF TakeTask
  <2>2. /\ running' = [running EXCEPT ![w] = Head(tasks)]
        /\ worker' = [worker EXCEPT ![w] = "run"] /\ worker[w] = "check"
        /\ tasks # <<>>
        /\ UNCHANGED <<stop, enqueuer, destructor, finished>>
    BY <1>3 DEF TakeTask
  <2>3. {running'[v] : v \in {u \in Workers : worker'[u] = "run"}} =
          {running[v] : v \in {u \in Workers : worker[u] = "run"}} \cup {Head(tasks)}
    BY <2>2
  <2>4. NoLostWakeup'
    BY <2>2
  <2> QED
    BY <2>1, <2>2, <2>3, <2>4
<1>4. ASSUME NEW w \in Workers, TaskReturns(w)
      PROVE  WorkersInv'
  <2>1. /\ running' = [running EXCEPT ![w] = NoTask]
        /\ worker' = [worker EXCEPT ![w] = "check"] /\ worker[w] = "run"
        /\ finished' = finished \cup {running[w]}
        /\ UNCHANGED <<stop, tasks, started, accepted, enqueuer, destructor>>
    BY <1>4 DEF TaskReturns
  <2>2. {running[v] : v \in {u \in Workers : worker[u] = "run"}} \subseteq
          {running'[v] : v \in {u \in Workers : worker'[u] = "run"}} \cup {running[w]}
    BY <2>1
  <2> QED
    BY <2>1, <2>2
<1>5. ASSUME NEW e \in Enqueuers, NEW x \in Tasks, enqueue(e, x)
      PROVE  WorkersInv'
  <2>1. /\ tasks' = Append(tasks, x) /\ accepted' = Append(accepted, x)
        /\ enqueuer' = [enqueuer EXCEPT ![e] = "notify"] /\ ~stop
        /\ UNCHANGED <<stop, worker, running, destructor, started, finished>>
    BY <1>5 DEF enqueue
  <2>2. accepted' = started' \o tasks'
    <3>1. Append(started \o tasks, x) = started \o Append(tasks, x)
      BY AppendToQueue
    <3> QED
      BY <2>1, <3>1
  <2>3. NoLostWakeup'
    BY <2>1
  <2>4. \A w \in Workers : worker[w] # "exited"
    BY <2>1
  <2> QED
    BY <2>1, <2>2, <2>3, <2>4
<1>6. ASSUME NEW e \in Enqueuers, NEW x \in Tasks, enqueueThrows(e, x)
      PROVE  WorkersInv'
  BY <1>6 DEF enqueueThrows
<1>7. ASSUME NEW e \in Enqueuers, NotifyOne(e)
      PROVE  WorkersInv'
  <2>1. CASE Waiting = {}
    <3>1. tasks # <<>> => \A w \in Workers : worker[w] \in {"check", "run"}
      BY <2>1
    <3> QED
      BY <1>7, <2>1, <3>1, PoolAssumption DEF NotifyOne
  <2>2. CASE Waiting # {}
    <3>1. PICK w \in Workers : /\ worker[w] = "wait"
                               /\ worker' = [worker EXCEPT ![w] = "check"]
      BY <1>7, <2>2 DEF NotifyOne
    <3>2. /\ enqueuer' = [enqueuer EXCEPT ![e] = "idle"]
          /\ UNCHANGED <<tasks, stop, running, destructor, accepted, started, finished>>
      BY <1>7 DEF NotifyOne
    <3>3. NoLostWakeup'
      BY <3>1, <3>2
    <3>4. \A v \in Workers : worker'[v] = "run" <=> worker[v] = "run"
      BY <3>1
    <3> QED
      BY <3>1, <3>2, <3>3, <3>4
  <2> QED
    BY <2>1, <2>2
<1>8. CASE SetStop
  BY <1>8 DEF SetStop
<1>9. CASE NotifyAll
  <2>1. /\ \A w \in Workers : worker'[w] # "wait"
        /\ \A w \in Workers : worker[w] = "run" <=> worker'[w] = "run"
        /\ \A w \in Workers : worker'[w] = "exited" => worker[w] = "exited"
    BY <1>9 DEF NotifyAll
  <2>2. tasks # <<>> => \E w \in Workers : worker'[w] \in {"check", "run"}
    BY <1>9, <2>1, PoolAssumption DEF NotifyAll
  <2>3. NoLostWakeup'
    BY <1>9, <2>1, <2>2 DEF NotifyAll
  <2> QED
    BY <1>9, <2>1, <2>3 DEF NotifyAll
<1>10. CASE JoinAll
  BY <1>10 DEF JoinAll
<1> QED
  BY <1>1, <1>2, <1>3, <1>4, <1>5, <1>6, <1>7, <1>8, <1>9, <1>10
  DEF Next, WorkerStep, DestructorStep

LEMMA PoolInit == Init => PoolInv
<1> SUFFICES ASSUME Init PROVE PoolInv
  OBVIOUS
<1>1. TypeOK
  BY EmptySeq DEF Init, TypeOK
<1>2. Range(started) = {}
  BY DEF Init, Range
<1>3. accepted = started \o tasks
  BY ConcatEmptySeq, EmptySeq DEF Init
<1> QED
  BY <1>1, <1>2, <1>3 DEF Init, PoolInv, WorkersInv, NoLostWakeup, StartedInOrder, Waiting

(* The pool's invariant, for any number of threads and tasks.               *)
THEOREM PoolInvCorrect == Spec => []PoolInv
<1>1. PoolInv /\ [Next]_vars => PoolInv'
  BY TypeStep, PoolStep DEF PoolInv
<1> QED
  BY <1>1, PoolInit, PTL DEF Spec

(* The state is well typed: a worker runs a task or nothing, and only tasks *)
(* that were submitted are queued, started, refused or finished.            *)
THEOREM PoolTypeCorrect == Spec => []TypeOK
<1>1. PoolInv => TypeOK
  BY DEF PoolInv
<1> QED
  BY <1>1, PoolInvCorrect, PTL

(* No task waits in the queue with every worker asleep and nobody left to   *)
(* wake one, although notifications are sent without the mutex.             *)
THEOREM NoLostWakeupCorrect == Spec => []NoLostWakeup
<1>1. PoolInv => NoLostWakeup
  BY DEF PoolInv, WorkersInv
<1> QED
  BY <1>1, PoolInvCorrect, PTL

(* Tasks start in the order of the enqueues, each once.                     *)
THEOREM StartedInOrderCorrect == Spec => []StartedInOrder
<1>1. PoolInv => StartedInOrder
  BY DEF PoolInv, WorkersInv
<1> QED
  BY <1>1, PoolInvCorrect, PTL

(* A destroyed pool has run every task it accepted.                         *)
THEOREM JoinDrainsCorrect == Spec => []JoinDrains
<1>1. ASSUME PoolInv, destructor = "done"
      PROVE  finished = Range(accepted)
  <2>1. tasks = <<>> /\ \A w \in Workers : worker[w] # "run"
    BY <1>1, PoolAssumption DEF PoolInv, WorkersInv
  <2>2. accepted = started
    BY <1>1, <2>1, ConcatEmptySeq DEF PoolInv, WorkersInv, StartedInOrder, TypeOK
  <2> QED
    BY <1>1, <2>1, <2>2 DEF PoolInv, WorkersInv
<1> QED
  BY <1>1, PoolInvCorrect, PTL DEF JoinDrains

=================================================================================
