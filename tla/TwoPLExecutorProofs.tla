-------------------------- MODULE TwoPLExecutorProofs --------------------------
(* Theorems about TwoPLExecutor and the Counter it draws from, for any      *)
(* transactions, in any order of arrival, and any threads.                  *)
EXTENDS TwoPLExecutor, DataLemmas

LEMMA PlacesLemma ==
    /\ \A s \in Stages : s \in Places
    /\ \A w \in Callers : w \in Places /\ w \notin Stages /\ w \notin Committers
    /\ \A c \in Committers : c \in Places /\ c \notin Stages /\ c \notin Callers
BY ExecutorAssumption DEF Places

-----------------------------------------------------------------------------
(* The movement of a transaction from one place to another.                 *)

LEMMA MoveLemma ==
    ASSUME queue \in [Places -> Seq(Txns)], EachInOnePlace,
           NEW p \in Places, NEW q \in Places, p # q, Move(p, q)
    PROVE  /\ Oldest(p) \in Txns /\ In(Oldest(p), p) /\ ~In(Oldest(p), q)
           /\ queue' \in [Places -> Seq(Txns)]
           /\ queue'[p] = Tail(queue[p])
           /\ queue'[q] = Append(queue[q], Oldest(p))
           /\ \A r \in Places \ {p, q} : queue'[r] = queue[r]
           /\ \A t \in Txns, r \in Places :
                 In(t, r)' <=> IF t = Oldest(p) THEN r = q ELSE In(t, r)
           /\ EachInOnePlace'
<1> DEFINE x == Oldest(p)
<1>1. queue[p] \in Seq(Txns) /\ queue[p] # <<>> /\ queue[q] \in Seq(Txns)
  BY DEF Move
<1>2. /\ x \in Txns /\ x \in Range(queue[p])
      /\ Tail(queue[p]) \in Seq(Txns)
      /\ IsInjective(Tail(queue[p]))
      /\ Range(Tail(queue[p])) = Range(queue[p]) \ {x}
  BY <1>1, WalkItems DEF Oldest, EachInOnePlace
<1>3. \A r \in Places : In(x, r) <=> r = p
  BY <1>2 DEF EachInOnePlace, In
<1>4. /\ Append(queue[q], x) \in Seq(Txns)
      /\ Range(Append(queue[q], x)) = Range(queue[q]) \cup {x}
      /\ IsInjective(Append(queue[q], x))
  <2>1. IsInjective(queue[q]) /\ x \notin Range(queue[q])
    BY <1>3 DEF EachInOnePlace, In
  <2> QED
    BY <1>1, <1>2, <2>1, AppendItems
<1>5. queue' = [queue EXCEPT ![p] = Tail(queue[p]), ![q] = Append(queue[q], x)]
  BY DEF Move
<1>6. /\ queue' \in [Places -> Seq(Txns)]
      /\ queue'[p] = Tail(queue[p])
      /\ queue'[q] = Append(queue[q], x)
      /\ \A r \in Places \ {p, q} : queue'[r] = queue[r]
  BY <1>2, <1>4, <1>5
<1>7. ASSUME NEW t \in Txns, NEW r \in Places
      PROVE  In(t, r)' <=> IF t = x THEN r = q ELSE In(t, r)
  <2>1. CASE r = p
    BY <1>2, <1>6, <2>1 DEF In
  <2>2. CASE r = q
    BY <1>4, <1>6, <2>2 DEF In
  <2>3. CASE r # p /\ r # q
    BY <1>3, <1>6, <2>3 DEF In
  <2> QED
    BY <2>1, <2>2, <2>3
<1>8. \A r \in Places : IsInjective(queue'[r])
  BY <1>2, <1>4, <1>6 DEF EachInOnePlace
<1>9. ASSUME NEW t \in Txns
      PROVE  \E r \in Places : \A s \in Places : In(t, s)' <=> s = r
  <2>1. CASE t = x
    BY <1>7, <2>1
  <2>2. CASE t # x
    <3>1. PICK r \in Places : \A s \in Places : In(t, s) <=> s = r
      BY DEF EachInOnePlace
    <3> QED
      BY <1>7, <2>2, <3>1
  <2> QED
    BY <2>1, <2>2
<1>10. EachInOnePlace'
  BY <1>8, <1>9 DEF EachInOnePlace
<1> QED
  BY <1>2, <1>3, <1>6, <1>7, <1>10

(* Which movement each action is. *)
LEMMA ActionMoves ==
    /\ Generate => Move("generate", "execute")
    /\ PopExecute => Move("execute", "execute_thread") /\ queue["execute_thread"] = <<>>
    /\ EnqueueExecute => Move("execute_thread", "execute_tp")
    /\ PopCommit => Move("commit", "main_thread") /\ queue["main_thread"] = <<>>
    /\ EnqueueCommit => Move("main_thread", "commit_tp")
    /\ \A w \in Callers :
          /\ TakeExecuteTask(w) => Move("execute_tp", w) /\ queue[w] = <<>>
          /\ BeginDraw(w) \/ EndDraw(w) => UNCHANGED queue
          /\ Ready(w) => Move(w, "commit")
          /\ Reexecute(w) => Move(w, "execute")
    /\ \A c \in Committers :
          /\ TakeCommitTask(c) => Move("commit_tp", c) /\ queue[c] = <<>>
          /\ CommitReturns(c) => Move(c, "committed")
BY DEF Generate, PopExecute, EnqueueExecute, PopCommit, EnqueueCommit, Take,
       TakeExecuteTask, BeginDraw, EndDraw, Ready, Reexecute, TakeCommitTask,
       CommitReturns

LEMMA StepMoves ==
    ASSUME [ExecutorNext]_executorVars
    PROVE  \/ UNCHANGED queue
           \/ \E p, q \in Places : p # q /\ Move(p, q)
<1>1. CASE UNCHANGED executorVars
  BY <1>1 DEF executorVars
<1>2. CASE Generate \/ ExecuteThread \/ MainThread
  BY <1>2, ActionMoves, PlacesLemma DEF ExecuteThread, MainThread, Stages
<1>3. ASSUME NEW w \in Callers, ExecuteWorker(w)
      PROVE  \/ UNCHANGED queue
             \/ \E p, q \in Places : p # q /\ Move(p, q)
  BY <1>3, ActionMoves, PlacesLemma DEF ExecuteWorker, Stages
<1>4. ASSUME NEW c \in Committers, CommitWorker(c)
      PROVE  \E p, q \in Places : p # q /\ Move(p, q)
  BY <1>4, ActionMoves, PlacesLemma DEF CommitWorker, Stages
<1> QED
  BY <1>1, <1>2, <1>3, <1>4 DEF ExecutorNext

LEMMA PlaceStep ==
    ASSUME queue \in [Places -> Seq(Txns)], EachInOnePlace,
           [ExecutorNext]_executorVars
    PROVE  queue' \in [Places -> Seq(Txns)] /\ EachInOnePlace'
<1>1. CASE UNCHANGED queue
  BY <1>1 DEF EachInOnePlace, In
<1> QED
  BY <1>1, StepMoves, MoveLemma


-----------------------------------------------------------------------------
(* The types, and the calls of the counter. *)

(* The identifier after n increments, for n < IdLimit. *)
IdAfter(n) == IF Start + n < IdLimit THEN Start + n ELSE Start + n - IdLimit

(* A call returns the identifier of the increments made until its load. *)
CounterInv ==
    /\ \A w \in Callers : drawing[w] <= increments
    /\ \A i \in 1 .. Len(drawn) :
          drawn[i].from <= drawn[i].to /\ drawn[i].to <= increments
    /\ NotWrapped => /\ counter = IdAfter(increments)
                     /\ \A i \in 1 .. Len(drawn) : drawn[i].id = IdAfter(drawn[i].to)

LEMMA FetchAddStep ==
    ASSUME CounterTypeOK, CounterInv, NEW w \in Callers, FetchAdd(w)
    PROVE  CounterTypeOK' /\ CounterInv'
<1> USE CounterAssumption, IdAssumption DEF TxnId
<1>1. CounterTypeOK'
  BY DEF CounterTypeOK, FetchAdd
<1>2. (\A v \in Callers : drawing[v] <= increments)'
  BY DEF CounterTypeOK, CounterInv, FetchAdd
<1>3. \A i \in 1 .. Len(drawn) : drawn[i] \in Draw
  BY DEF CounterTypeOK
<1>4. (\A i \in 1 .. Len(drawn) :
          drawn[i].from <= drawn[i].to /\ drawn[i].to <= increments)'
  BY <1>3 DEF CounterTypeOK, CounterInv, FetchAdd, Draw
<1>5. (NotWrapped => /\ counter = IdAfter(increments)
                     /\ \A i \in 1 .. Len(drawn) : drawn[i].id = IdAfter(drawn[i].to))'
  BY DEF CounterTypeOK, CounterInv, FetchAdd, NotWrapped, IdAfter
<1> QED
  BY <1>1, <1>2, <1>4, <1>5 DEF CounterInv

LEMMA LoadIdStep ==
    ASSUME CounterTypeOK, CounterInv, NEW w \in Callers, LoadId(w)
    PROVE  CounterTypeOK' /\ CounterInv'
<1> DEFINE d == [by |-> w, from |-> drawing[w], to |-> increments, id |-> counter]
<1>1. drawing[w] \in Nat \ {0} /\ increments \in Nat \ {0} /\ drawing[w] <= increments
  BY DEF CounterTypeOK, CounterInv, LoadId
<1>2. d \in Draw /\ d.from <= d.to /\ d.to = increments /\ d.id = counter
  BY <1>1 DEF CounterTypeOK, Draw
<1>3. drawn' = Append(drawn, d) /\ drawn \in Seq(Draw)
  BY DEF LoadId, CounterTypeOK
<1>4. CounterTypeOK'
  BY <1>2, <1>3 DEF CounterTypeOK, LoadId
<1>5. /\ Len(drawn') = Len(drawn) + 1 /\ Len(drawn) \in Nat
      /\ \A i \in 1 .. Len(drawn) : drawn'[i] = drawn[i]
      /\ drawn'[Len(drawn) + 1] = d
  BY <1>2, <1>3
<1>6. counter' = counter /\ increments' = increments
  BY DEF LoadId
<1>7. (\A v \in Callers : drawing[v] <= increments)'
  BY <1>1 DEF CounterTypeOK, CounterInv, LoadId
<1>8. (\A i \in 1 .. Len(drawn) :
          drawn[i].from <= drawn[i].to /\ drawn[i].to <= increments)'
  BY <1>1, <1>2, <1>5, <1>6 DEF CounterInv
<1>9. (NotWrapped => /\ counter = IdAfter(increments)
                     /\ \A i \in 1 .. Len(drawn) : drawn[i].id = IdAfter(drawn[i].to))'
  BY <1>2, <1>5, <1>6 DEF CounterInv, NotWrapped, IdAfter
<1> QED
  BY <1>4, <1>7, <1>8, <1>9 DEF CounterInv

(* Which part of the counter's state an action changes. *)
LEMMA CounterStep ==
    ASSUME CounterTypeOK, CounterInv, [ExecutorNext]_executorVars
    PROVE  CounterTypeOK' /\ CounterInv'
<1>1. CASE UNCHANGED counterVars
  BY <1>1 DEF counterVars, CounterTypeOK, CounterInv, NotWrapped
<1>2. CASE \E w \in Callers : FetchAdd(w) \/ LoadId(w)
  BY <1>2, FetchAddStep, LoadIdStep
<1>3. UNCHANGED counterVars \/ \E w \in Callers : FetchAdd(w) \/ LoadId(w)
  BY DEF executorVars, ExecutorNext, ExecuteThread, MainThread, ExecuteWorker,
         CommitWorker, Generate, PopExecute, EnqueueExecute, PopCommit, EnqueueCommit,
         TakeExecuteTask, BeginDraw, EndDraw, Ready, Reexecute, TakeCommitTask,
         CommitReturns, idVars
<1> QED
  BY <1>1, <1>2, <1>3

(* The properties that are proved together. *)
PlaceInv == ExecutorTypeOK /\ CounterInv /\ EachInOnePlace /\ OneAtATime

LEMMA ExecutorInitially == ExecutorInit => PlaceInv /\ CommitsStartInReadyOrder
<1> SUFFICES ASSUME ExecutorInit PROVE PlaceInv /\ CommitsStartInReadyOrder
  OBVIOUS
<1> USE DEF ExecutorInit, reset_counter
<1>1. CounterTypeOK /\ CounterInv
  BY CounterAssumption, IdAssumption DEF CounterTypeOK, CounterInv, NotWrapped, IdAfter,
     TxnId
<1>2. queue \in [Places -> Seq(Txns)]
  BY ExecutorAssumption
<1>3. ExecutorTypeOK
  BY <1>1, <1>2, IdAssumption DEF ExecutorTypeOK, TxnId, NoId
<1>4. /\ queue["generate"] = Arrival
      /\ \A p \in Places \ {"generate"} : queue[p] = <<>>
      /\ "generate" \in Places
  BY PlacesLemma DEF Stages
<1>5. \A t \in Txns, p \in Places : In(t, p) <=> p = "generate"
  BY <1>4, NoItems, ExecutorAssumption DEF In
<1>6. EachInOnePlace
  BY <1>4, <1>5, NoItems, ExecutorAssumption DEF EachInOnePlace
<1>7. OneAtATime
  BY <1>4, PlacesLemma DEF OneAtATime, Stages
<1>8. CommitsStartInReadyOrder
  <2>1. queue["commit"] = <<>> /\ queue["main_thread"] = <<>> /\ queue["commit_tp"] = <<>>
    BY <1>4, PlacesLemma DEF Stages
  <2>2. <<>> \in Seq(Txns) /\ <<>> \o <<>> = <<>>
    BY ConcatEmptySeq
  <2> QED
    BY <2>1, <2>2 DEF CommitsStartInReadyOrder
<1> QED
  BY <1>1, <1>3, <1>6, <1>7, <1>8 DEF PlaceInv


LEMMA ExecutorTypeStep ==
    ASSUME PlaceInv, [ExecutorNext]_executorVars
    PROVE  ExecutorTypeOK'
<1> USE DEF PlaceInv, ExecutorTypeOK
<1>1. CounterTypeOK' /\ queue' \in [Places -> Seq(Txns)]
  BY CounterStep, PlaceStep
<1>2. \A p \in Places : queue[p] # <<>> => Oldest(p) \in Txns
  BY WalkItems DEF Oldest
<1>3. CASE UNCHANGED <<txn_id, worker, history>>
  BY <1>1, <1>3 DEF history
<1>4. ASSUME NEW w \in Callers, ExecuteWorker(w)
      PROVE  ExecutorTypeOK'
  <2>1. CASE TakeExecuteTask(w)
    BY <1>1, <2>1 DEF TakeExecuteTask, history, idVars
  <2>2. CASE BeginDraw(w)
    BY <1>1, <2>2 DEF BeginDraw, history
  <2>3. CASE EndDraw(w)
    BY <1>1, <2>3 DEF EndDraw, history, CounterTypeOK
  <2>4. CASE Ready(w)
    <3>1. readyOrder' \in Seq(Txns)
      BY <1>2, <2>4, PlacesLemma DEF Ready, Move
    <3> QED
      BY <1>1, <2>4, <3>1 DEF Ready, Finish, idVars
  <2>5. CASE Reexecute(w)
    BY <1>1, <2>5 DEF Reexecute, Finish, history, idVars
  <2> QED
    BY <1>4, <2>1, <2>2, <2>3, <2>4, <2>5 DEF ExecuteWorker
<1>5. ASSUME NEW c \in Committers, TakeCommitTask(c)
      PROVE  ExecutorTypeOK'
  <2>1. startOrder' \in Seq(Txns)
    BY <1>2, <1>5, PlacesLemma DEF TakeCommitTask, Take, Move, Stages
  <2> QED
    BY <1>1, <1>5, <2>1 DEF TakeCommitTask, idVars
<1>6. \/ UNCHANGED <<txn_id, worker, history>>
      \/ \E w \in Callers : ExecuteWorker(w)
      \/ \E c \in Committers : TakeCommitTask(c)
  BY DEF executorVars, ExecutorNext, ExecuteThread, MainThread, CommitWorker, Generate,
         PopExecute, EnqueueExecute, PopCommit, EnqueueCommit, CommitReturns, idVars,
         history
<1> QED
  BY <1>3, <1>4, <1>5, <1>6

(* A thread is given a transaction only when it has none. *)
LEMMA MovedLengths ==
    ASSUME queue \in [Places -> Seq(Txns)], EachInOnePlace,
           NEW p \in Places, NEW q \in Places, p # q, Move(p, q)
    PROVE  /\ Len(queue'[p]) = Len(queue[p]) - 1
           /\ Len(queue[p]) \in Nat \ {0}
           /\ queue'[p] = <<>> <=> Len(queue[p]) = 1
           /\ Len(queue'[q]) = Len(queue[q]) + 1
           /\ queue'[q] # <<>>
<1>1. queue[p] \in Seq(Txns) /\ queue[p] # <<>> /\ queue[q] \in Seq(Txns)
  BY DEF Move
<1>2. queue'[p] = Tail(queue[p]) /\ queue'[q] = Append(queue[q], Oldest(p))
      /\ Oldest(p) \in Txns
  BY MoveLemma
<1> QED
  BY <1>1, <1>2, ItemLengths


Threads == {"execute_thread", "main_thread"} \cup Callers \cup Committers

LEMMA OnePerThread ==
    ASSUME PlaceInv, [ExecutorNext]_executorVars
    PROVE  \A p \in Threads : Len(queue'[p]) <= 1
<1> USE DEF PlaceInv, ExecutorTypeOK
<1>1. \A p \in Threads : p \in Places /\ Len(queue[p]) <= 1
  BY PlacesLemma DEF Threads, OneAtATime, Stages
<1>2. ASSUME NEW a \in Places, NEW b \in Places, a # b, Move(a, b),
             b \in Threads => queue[b] = <<>>
      PROVE  \A p \in Threads : Len(queue'[p]) <= 1
  <2>1. ASSUME NEW p \in Threads PROVE Len(queue'[p]) <= 1
    <3>1. CASE p = a
      BY <1>1, <1>2, <3>1, MovedLengths
    <3>2. CASE p = b
      BY <1>2, <2>1, <3>2, MovedLengths
    <3>3. CASE p # a /\ p # b
      BY <1>1, <1>2, <3>3, MoveLemma
    <3> QED
      BY <3>1, <3>2, <3>3
  <2> QED
    BY <2>1
<1>3. \/ UNCHANGED queue
      \/ \E a, b \in Places : /\ a # b /\ Move(a, b)
                              /\ b \in Threads => queue[b] = <<>>
  <2>1. CASE UNCHANGED executorVars
    BY <2>1 DEF executorVars
  <2>2. CASE Generate \/ ExecuteThread \/ MainThread
    BY <2>2, ActionMoves, PlacesLemma DEF ExecuteThread, MainThread, Stages, Threads
  <2>3. ASSUME NEW w \in Callers, ExecuteWorker(w)
        PROVE  \/ UNCHANGED queue
               \/ \E a, b \in Places : /\ a # b /\ Move(a, b)
                                       /\ b \in Threads => queue[b] = <<>>
    BY <2>3, ActionMoves, PlacesLemma DEF ExecuteWorker, Stages, Threads
  <2>4. ASSUME NEW c \in Committers, CommitWorker(c)
        PROVE  \E a, b \in Places : /\ a # b /\ Move(a, b)
                                    /\ b \in Threads => queue[b] = <<>>
    BY <2>4, ActionMoves, PlacesLemma DEF CommitWorker, Stages, Threads
  <2> QED
    BY <2>1, <2>2, <2>3, <2>4 DEF ExecutorNext
<1> QED
  BY <1>1, <1>2, <1>3

LEMMA WorkersStep ==
    ASSUME PlaceInv, [ExecutorNext]_executorVars
    PROVE  \A w \in Callers : /\ worker'[w] = "idle" <=> queue'[w] = <<>>
                              /\ worker'[w] = "load" <=> drawing'[w] # 0
<1> DEFINE Goal == \A w \in Callers : /\ worker'[w] = "idle" <=> queue'[w] = <<>>
                                      /\ worker'[w] = "load" <=> drawing'[w] # 0
<1> USE DEF PlaceInv, ExecutorTypeOK
<1>1. \A w \in Callers : /\ worker[w] = "idle" <=> queue[w] = <<>>
                         /\ worker[w] = "load" <=> drawing[w] # 0
                         /\ Len(queue[w]) <= 1
                         /\ drawing[w] \in Nat
  BY DEF OneAtATime, CounterTypeOK
<1>2. CASE UNCHANGED <<worker, drawing>> /\ \A w \in Callers : queue'[w] = queue[w]
  BY <1>1, <1>2
<1>3. CASE Generate \/ ExecuteThread \/ MainThread
  <2>1. PICK a, b \in Stages : a # b /\ Move(a, b)
    BY <1>3, ActionMoves DEF ExecuteThread, MainThread, Stages
  <2>2. a \in Places \ Callers /\ b \in Places \ Callers
    BY PlacesLemma
  <2>3. \A r \in Places \ {a, b} : queue'[r] = queue[r]
    BY <2>1, <2>2, MoveLemma
  <2>4. \A w \in Callers : queue'[w] = queue[w]
    BY <2>2, <2>3, PlacesLemma
  <2>5. UNCHANGED <<worker, drawing>>
    BY <1>3 DEF ExecuteThread, MainThread, Generate, PopExecute, EnqueueExecute,
       PopCommit, EnqueueCommit, idVars, counterVars
  <2> QED
    BY <1>2, <2>4, <2>5
<1>4. ASSUME NEW c \in Committers, CommitWorker(c)
      PROVE  Goal
  <2>1. PICK a, b \in Stages \cup Committers : a # b /\ Move(a, b)
    BY <1>4, ActionMoves, PlacesLemma DEF CommitWorker, Stages
  <2>2. a \in Places \ Callers /\ b \in Places \ Callers
    BY PlacesLemma
  <2>3. \A r \in Places \ {a, b} : queue'[r] = queue[r]
    BY <2>1, <2>2, MoveLemma
  <2>4. \A w \in Callers : queue'[w] = queue[w]
    BY <2>2, <2>3, PlacesLemma
  <2>5. UNCHANGED <<worker, drawing>>
    BY <1>4 DEF CommitWorker, TakeCommitTask, CommitReturns, idVars, counterVars
  <2> QED
    BY <1>2, <2>4, <2>5
<1>5. ASSUME NEW v \in Callers, TakeExecuteTask(v)
      PROVE  Goal
  <2>1. Move("execute_tp", v) /\ "execute_tp" \in Places \ Callers
    BY <1>5, ActionMoves, PlacesLemma DEF Stages
  <2>2. queue'[v] # <<>> /\ \A w \in Callers \ {v} : queue'[w] = queue[w]
    BY <2>1, MovedLengths, MoveLemma, PlacesLemma
  <2>3. /\ worker[v] = "idle" /\ worker'[v] \in {"draw", "run"}
        /\ \A w \in Callers \ {v} : worker'[w] = worker[w]
        /\ drawing' = drawing
    BY <1>1, <1>5 DEF TakeExecuteTask, Take, idVars, counterVars
  <2> QED
    BY <1>1, <2>2, <2>3
<1>6. ASSUME NEW v \in Callers, BeginDraw(v) \/ EndDraw(v)
      PROVE  Goal
  BY <1>1, <1>6 DEF BeginDraw, EndDraw, FetchAdd, LoadId, CounterTypeOK
<1>7. ASSUME NEW v \in Callers, Ready(v) \/ Reexecute(v)
      PROVE  Goal
  <2>1. PICK b \in {"commit", "execute"} : Move(v, b)
    BY <1>7, ActionMoves
  <2>2. b \in Places \ Callers
    BY PlacesLemma DEF Stages
  <2>3. v \in Places /\ v # b
    BY <2>2, PlacesLemma
  <2>4. /\ \A r \in Places \ {v, b} : queue'[r] = queue[r]
        /\ queue'[v] = <<>> <=> Len(queue[v]) = 1
        /\ Len(queue[v]) \in Nat \ {0}
    BY <2>1, <2>2, <2>3, MovedLengths, MoveLemma
  <2>5. queue'[v] = <<>> /\ \A w \in Callers \ {v} : queue'[w] = queue[w]
    <3>1. Len(queue[v]) <= 1
      BY DEF OneAtATime
    <3>2. Len(queue[v]) = 1
      <4> DEFINE n == Len(queue[v])
      <4>1. n <= 1 /\ n \in Nat \ {0}
        BY <2>4, <3>1
      <4> HIDE DEF n
      <4>2. n = 1
        BY <4>1
      <4> QED
        BY <4>2 DEF n
    <3> QED
      BY <2>2, <2>4, <3>2, PlacesLemma
  <2>6. /\ worker[v] = "run" /\ worker' = [worker EXCEPT ![v] = "idle"]
        /\ drawing' = drawing
    BY <1>7 DEF Ready, Reexecute, Finish, idVars, counterVars
  <2> QED
    BY <1>1, <2>5, <2>6
<1>8. CASE UNCHANGED executorVars
  BY <1>2, <1>8 DEF executorVars, counterVars
<1> QED
  BY <1>3, <1>4, <1>5, <1>6, <1>7, <1>8 DEF ExecutorNext, ExecuteWorker

LEMMA PlaceInvStep ==
    ASSUME PlaceInv, [ExecutorNext]_executorVars
    PROVE  PlaceInv'
<1>1. OneAtATime'
  BY OnePerThread, WorkersStep DEF OneAtATime, Threads
<1> QED
  BY <1>1, ExecutorTypeStep, CounterStep, PlaceStep DEF PlaceInv, ExecutorTypeOK


-----------------------------------------------------------------------------
(* The order of the commits. *)

LEMMA OrderStep ==
    ASSUME PlaceInv, CommitsStartInReadyOrder, [ExecutorNext]_executorVars
    PROVE  CommitsStartInReadyOrder'
<1> DEFINE S == startOrder   A == queue["commit_tp"]
           M == queue["main_thread"]   C == queue["commit"]
<1>1. /\ S \in Seq(Txns) /\ A \in Seq(Txns) /\ M \in Seq(Txns) /\ C \in Seq(Txns)
      /\ "commit_tp" \in Places /\ "main_thread" \in Places /\ "commit" \in Places
      /\ queue \in [Places -> Seq(Txns)] /\ EachInOnePlace
  BY PlacesLemma DEF PlaceInv, ExecutorTypeOK, Stages
<1>2. S \in Seq(Txns) /\ A \in Seq(Txns) /\ M \in Seq(Txns) /\ C \in Seq(Txns)
  BY <1>1
<1> HIDE DEF S, A, M, C
<1>3. InARow(Txns, S, A, M, C)
  BY <1>2, QueuesInARow
<1> USE DEF S, A, M, C
<1>4. CASE UNCHANGED <<S, A, M, C, readyOrder>>
  BY <1>4 DEF CommitsStartInReadyOrder
<1>5. ASSUME NEW a \in Places \ {"commit_tp", "main_thread", "commit"},
             NEW b \in Places \ {"commit_tp", "main_thread", "commit"},
             a # b, Move(a, b), UNCHANGED history
      PROVE  CommitsStartInReadyOrder'
  <2>1. \A r \in Places \ {a, b} : queue'[r] = queue[r]
    BY <1>1, <1>5, MoveLemma
  <2> QED
    BY <1>1, <1>4, <1>5, <2>1 DEF history
<1>6. ASSUME NEW w \in Callers, Ready(w)
      PROVE  CommitsStartInReadyOrder'
  <2> DEFINE x == Oldest(w)
  <2>1. Move(w, "commit") /\ w \in Places /\ w \notin Stages
    BY <1>6, ActionMoves, PlacesLemma
  <2>2. x \in Txns /\ UNCHANGED <<S, A, M>> /\ C' = Append(C, x)
    BY <1>1, <1>6, <2>1, MoveLemma DEF Ready, Stages
  <2>3. readyOrder' = Append(readyOrder, x)
    BY <1>6 DEF Ready
  <2> QED
    BY <1>3, <2>2, <2>3 DEF InARow, CommitsStartInReadyOrder
<1>7. CASE PopCommit
  <2>1. Move("commit", "main_thread") /\ C # <<>>
    BY <1>7, ActionMoves DEF Move
  <2>2. UNCHANGED history
    BY <1>7 DEF PopCommit
  <2>3. "commit" # "main_thread" /\ "commit_tp" # "commit" /\ "commit_tp" # "main_thread"
    OBVIOUS
  <2>4. /\ queue'["commit"] = Tail(C) /\ queue'["main_thread"] = Append(M, Oldest("commit"))
        /\ queue'["commit_tp"] = A
    BY <1>1, <2>1, <2>3, MoveLemma
  <2>5. /\ M' = Append(M, Head(C)) /\ C' = Tail(C) /\ UNCHANGED <<S, A, readyOrder>>
    BY <2>2, <2>4 DEF history, Oldest
  <2>6. M' \o C' = M \o C
    BY <1>3, <2>1, <2>5 DEF InARow
  <2> QED
    BY <2>5, <2>6 DEF CommitsStartInReadyOrder
<1>8. CASE EnqueueCommit
  <2>1. Move("main_thread", "commit_tp") /\ M # <<>>
    BY <1>8, ActionMoves DEF Move
  <2>2. UNCHANGED history
    BY <1>8 DEF EnqueueCommit
  <2>3. "commit" # "main_thread" /\ "commit_tp" # "commit" /\ "commit_tp" # "main_thread"
    OBVIOUS
  <2>4. /\ queue'["main_thread"] = Tail(M) /\ queue'["commit_tp"] = Append(A, Oldest("main_thread"))
        /\ queue'["commit"] = C
    BY <1>1, <2>1, <2>3, MoveLemma
  <2>5. /\ A' = Append(A, Head(M)) /\ M' = Tail(M) /\ UNCHANGED <<S, C, readyOrder>>
    BY <2>2, <2>4 DEF history, Oldest
  <2>6. A' \o (M' \o C) = A \o (M \o C)
    BY <1>3, <2>1, <2>5 DEF InARow
  <2> QED
    BY <2>5, <2>6 DEF CommitsStartInReadyOrder
<1>9. ASSUME NEW c \in Committers, TakeCommitTask(c)
      PROVE  CommitsStartInReadyOrder'
  <2>1. Move("commit_tp", c) /\ A # <<>> /\ c \in Places /\ c \notin Stages
    BY <1>9, ActionMoves, PlacesLemma DEF Move
  <2>2. A' = Tail(A) /\ UNCHANGED <<M, C>>
    BY <1>1, <2>1, MoveLemma DEF Stages
  <2>3. S' = Append(S, Head(A)) /\ UNCHANGED readyOrder
    BY <1>9 DEF TakeCommitTask, Oldest
  <2>4. S' \o (A' \o (M \o C)) = S \o (A \o (M \o C))
    BY <1>3, <2>1, <2>2, <2>3 DEF InARow
  <2> QED
    BY <2>2, <2>3, <2>4 DEF CommitsStartInReadyOrder
<1>10. CASE Generate \/ ExecuteThread
  <2>1. \/ Move("generate", "execute") \/ Move("execute", "execute_thread")
        \/ Move("execute_thread", "execute_tp")
    BY <1>10, ActionMoves DEF ExecuteThread
  <2>2. UNCHANGED history
    BY <1>10 DEF ExecuteThread, Generate, PopExecute, EnqueueExecute
  <2> QED
    BY <1>5, <2>1, <2>2, PlacesLemma DEF Stages
<1>11. ASSUME NEW w \in Callers,
             TakeExecuteTask(w) \/ BeginDraw(w) \/ EndDraw(w) \/ Reexecute(w)
      PROVE  CommitsStartInReadyOrder'
  <2>1. UNCHANGED history
    BY <1>11 DEF TakeExecuteTask, BeginDraw, EndDraw, Reexecute
  <2>2. w \in Places \ Stages /\ {"execute_tp", "execute"} \subseteq Places
    BY PlacesLemma DEF Stages
  <2>3. UNCHANGED queue \/ Move("execute_tp", w) \/ Move(w, "execute")
    BY <1>11, ActionMoves
  <2> QED
    BY <1>4, <1>5, <2>1, <2>2, <2>3 DEF history, Stages
<1>12. ASSUME NEW c \in Committers, CommitReturns(c)
      PROVE  CommitsStartInReadyOrder'
  <2>1. Move(c, "committed") /\ UNCHANGED history
    BY <1>12, ActionMoves DEF CommitReturns
  <2>2. c \in Places \ Stages /\ "committed" \in Places
    BY PlacesLemma DEF Stages
  <2> QED
    BY <1>5, <2>1, <2>2 DEF Stages
<1>13. CASE UNCHANGED executorVars
  BY <1>4, <1>13 DEF executorVars
<1> QED
  BY <1>6, <1>7, <1>8, <1>9, <1>10, <1>11, <1>12, <1>13
     DEF ExecutorNext, ExecuteWorker, CommitWorker, MainThread


-----------------------------------------------------------------------------
(* The identifiers. *)

NamedTxns == {t \in Txns : Named(t)}

(* A worker that is about to draw holds a transaction without identifier.   *)
NameInv == Start + Cardinality(Txns) < NoId =>
    /\ increments = Cardinality(NamedTxns)
    /\ counter = Start + increments
    /\ \A t \in Txns, w \in Callers : In(t, w) =>
          /\ worker[w] = "run" => txn_id[t] # NoId
          /\ worker[w] = "draw" => txn_id[t] = NoId

LEMMA FewTxns ==
    /\ IsFiniteSet(Txns) /\ Cardinality(Txns) \in Nat
    /\ NamedTxns \in SUBSET Txns
    /\ IsFiniteSet(NamedTxns)
    /\ Cardinality(NamedTxns) <= Cardinality(Txns)
<1>1. Arrival \in Surjection(1 .. Len(Arrival), Txns) /\ Len(Arrival) \in Nat
  BY ExecutorAssumption, LenProperties DEF Surjection, Range
<1>2. IsFiniteSet(1 .. Len(Arrival))
  BY <1>1, FS_Interval
<1>3. IsFiniteSet(Txns)
  BY <1>1, <1>2, FS_Surjection
<1>4. NamedTxns \in SUBSET Txns
  BY DEF NamedTxns
<1> QED
  BY <1>3, <1>4, FS_Subset, FS_CardinalityType

(* A worker holds one transaction, and no other worker holds it. *)
LEMMA WorkersHold ==
    ASSUME PlaceInv, NEW w \in Callers, worker[w] # "idle"
    PROVE  /\ Oldest(w) \in Txns /\ In(Oldest(w), w)
           /\ \A t \in Txns : In(t, w) => t = Oldest(w)
           /\ \A v \in Callers : In(Oldest(w), v) => v = w
<1>1. queue[w] \in Seq(Txns) /\ queue[w] # <<>> /\ Len(queue[w]) <= 1
  BY PlacesLemma DEF PlaceInv, ExecutorTypeOK, OneAtATime
<1>2. Oldest(w) \in Txns /\ In(Oldest(w), w)
  BY <1>1, WalkItems DEF Oldest, In
<1>3. \A t \in Txns : In(t, w) => t = Oldest(w)
  <2>1. DOMAIN queue[w] = 1 .. Len(queue[w]) /\ Len(queue[w]) \in Nat /\ Head(queue[w]) = queue[w][1]
    BY <1>1
  <2>2. \A i \in DOMAIN queue[w] : i = 1
    BY <1>1, <2>1
  <2> QED
    BY <2>1, <2>2 DEF In, Oldest, Range
<1>4. \A v \in Callers : In(Oldest(w), v) => v = w
  BY <1>2, PlacesLemma DEF PlaceInv, EachInOnePlace
<1> QED
  BY <1>2, <1>3, <1>4

(* The steps that neither draw an identifier nor begin to. *)
LEMMA NameKept ==
    ASSUME PlaceInv, NameInv, UNCHANGED idVars,
           \A t \in Txns, v \in Callers :
               /\ worker'[v] \in {"draw", "load", "run"} /\ In(t, v)' =>
                     worker[v] = worker'[v] /\ In(t, v)
               /\ worker[v] = "load" /\ In(t, v) => worker'[v] = "load" /\ In(t, v)'
    PROVE  NameInv'
<1>1. \A t \in Txns : Named(t)' <=> Named(t)
  BY DEF Named, idVars
<1>2. NamedTxns' = NamedTxns
  BY <1>1 DEF NamedTxns
<1> QED
  BY <1>2 DEF NameInv, idVars, counterVars

LEMMA NameMoved ==
    ASSUME PlaceInv, NameInv, NEW a \in Places, NEW b \in Places \ Callers, a # b,
           Move(a, b), UNCHANGED idVars,
           \A v \in Callers : /\ worker'[v] # "idle" => worker'[v] = worker[v]
                              /\ worker[v] = "load" => worker'[v] = "load" /\ v # a
    PROVE  NameInv'
<1>1. \A t \in Txns, r \in Places : In(t, r)' <=> IF t = Oldest(a) THEN r = b ELSE In(t, r)
  BY MoveLemma DEF PlaceInv, ExecutorTypeOK
<1>2. \A r \in Places : In(Oldest(a), r) => r = a
  BY MoveLemma DEF PlaceInv, ExecutorTypeOK, EachInOnePlace
<1>3. \A v \in Callers : v \in Places /\ v # b
  BY PlacesLemma
<1> QED
  BY <1>1, <1>2, <1>3, NameKept

LEMMA NameBeginDraw ==
    ASSUME PlaceInv, NameInv, NEW w \in Callers, BeginDraw(w)
    PROVE  NameInv'
<1> SUFFICES ASSUME Start + Cardinality(Txns) < NoId
             PROVE  NameInv'
  BY DEF NameInv, BeginDraw
<1> DEFINE x == Oldest(w)
<1>1. /\ worker[w] = "draw" /\ worker' = [worker EXCEPT ![w] = "load"]
      /\ UNCHANGED <<txn_id, queue>> /\ FetchAdd(w)
      /\ worker \in [Callers -> {"idle", "draw", "load", "run"}]
  BY DEF BeginDraw, PlaceInv, ExecutorTypeOK
<1>2. /\ x \in Txns /\ In(x, w) /\ \A t \in Txns : In(t, w) => t = x
      /\ \A v \in Callers : In(x, v) => v = w
  BY <1>1, WorkersHold
<1>3. \A t \in Txns, v \in Callers : In(t, v)' <=> In(t, v)
  BY <1>1 DEF In
<1>4. ~Named(x)
  BY <1>1, <1>2 DEF NameInv, Named
<1>5. \A t \in Txns : Named(t)' <=> Named(t) \/ t = x
  BY <1>1, <1>2, <1>3 DEF Named
<1>6. NamedTxns' = NamedTxns \cup {x} /\ x \notin NamedTxns
  BY <1>2, <1>4, <1>5 DEF NamedTxns
<1>7. /\ Cardinality(NamedTxns') = Cardinality(NamedTxns) + 1
      /\ Cardinality(NamedTxns') <= Cardinality(Txns)
  <2>1. NamedTxns' \in SUBSET Txns
    BY DEF NamedTxns
  <2> QED
    BY <1>6, <2>1, FewTxns, FS_AddElement, FS_Subset
<1>8. increments' = increments + 1 /\ increments = Cardinality(NamedTxns)
  BY <1>1 DEF FetchAdd, NameInv
<1>9. counter' = Start + increments'
  <2>1. counter = Start + increments
    BY DEF NameInv
  <2>2. increments \in Nat /\ Start \in Nat
    BY CounterAssumption DEF PlaceInv, ExecutorTypeOK, CounterTypeOK, TxnId
  <2>3. Start + increments + 1 < IdLimit
    BY <1>7, <1>8, <2>2, FewTxns, IdAssumption DEF NoId
  <2> QED
    BY <1>1, <1>8, <2>1, <2>2, <2>3 DEF FetchAdd
<1>10. \A t \in Txns, v \in Callers : In(t, v)' =>
          /\ worker'[v] = "run" => txn_id'[t] # NoId
          /\ worker'[v] = "draw" => txn_id'[t] = NoId
  BY <1>1, <1>3 DEF NameInv
<1> QED
  BY <1>7, <1>8, <1>9, <1>10 DEF NameInv

LEMMA NameEndDraw ==
    ASSUME PlaceInv, NameInv, NEW w \in Callers, EndDraw(w)
    PROVE  NameInv'
<1> SUFFICES ASSUME Start + Cardinality(Txns) < NoId
             PROVE  NameInv'
  BY DEF NameInv, EndDraw
<1> DEFINE x == Oldest(w)
<1>1. /\ worker[w] = "load" /\ worker' = [worker EXCEPT ![w] = "run"]
      /\ txn_id' = [txn_id EXCEPT ![x] = counter] /\ UNCHANGED queue
      /\ UNCHANGED <<counter, increments>>
      /\ worker \in [Callers -> {"idle", "draw", "load", "run"}]
      /\ txn_id \in [Txns -> TxnId]
  BY DEF EndDraw, LoadId, PlaceInv, ExecutorTypeOK
<1>2. /\ x \in Txns /\ In(x, w) /\ \A t \in Txns : In(t, w) => t = x
      /\ \A v \in Callers : In(x, v) => v = w
  BY <1>1, WorkersHold
<1>3. \A t \in Txns, v \in Callers : In(t, v)' <=> In(t, v)
  BY <1>1 DEF In
<1>4. counter # NoId
  <2>1. counter = Start + increments /\ increments = Cardinality(NamedTxns)
    BY DEF NameInv
  <2>2. increments \in Nat /\ Start \in Nat
    BY CounterAssumption DEF PlaceInv, ExecutorTypeOK, CounterTypeOK, TxnId
  <2> QED
    BY <2>1, <2>2, FewTxns, IdAssumption DEF NoId
<1>5. \A t \in Txns : Named(t)' <=> Named(t)
  BY <1>1, <1>2, <1>3, <1>4 DEF Named
<1>6. NamedTxns' = NamedTxns
  BY <1>5 DEF NamedTxns
<1>7. \A t \in Txns, v \in Callers : In(t, v)' =>
          /\ worker'[v] = "run" => txn_id'[t] # NoId
          /\ worker'[v] = "draw" => txn_id'[t] = NoId
  BY <1>1, <1>2, <1>3, <1>4 DEF NameInv
<1> QED
  BY <1>1, <1>6, <1>7 DEF NameInv

LEMMA NameTake ==
    ASSUME PlaceInv, NameInv, NEW w \in Callers, TakeExecuteTask(w)
    PROVE  NameInv'
<1> DEFINE x == Oldest("execute_tp")
<1>1. /\ worker' = [worker EXCEPT ![w] = IF txn_id[x] = NoId THEN "draw" ELSE "run"]
      /\ Move("execute_tp", w) /\ queue[w] = <<>> /\ UNCHANGED idVars
      /\ worker \in [Callers -> {"idle", "draw", "load", "run"}]
  BY DEF TakeExecuteTask, Take, PlaceInv, ExecutorTypeOK
<1>2. "execute_tp" \in Places /\ w \in Places /\ w # "execute_tp"
  BY PlacesLemma DEF Stages
<1>3. \A t \in Txns, r \in Places : In(t, r)' <=> IF t = x THEN r = w ELSE In(t, r)
  BY <1>1, <1>2, MoveLemma DEF PlaceInv, ExecutorTypeOK
<1>4. /\ \A t \in Txns : ~In(t, w)
      /\ worker[w] = "idle"
      /\ \A v \in Callers : ~In(x, v)
  <2>1. x \in Txns /\ In(x, "execute_tp")
    BY <1>1, <1>2, MoveLemma DEF PlaceInv, ExecutorTypeOK
  <2>2. \A t \in Txns : ~In(t, w)
    BY <1>1, NoItems DEF In
  <2>3. worker[w] = "idle"
    BY <1>1 DEF PlaceInv, OneAtATime
  <2>4. \A v \in Callers : ~In(x, v)
    BY <1>2, <2>1, PlacesLemma DEF PlaceInv, EachInOnePlace, Stages
  <2> QED
    BY <2>2, <2>3, <2>4
<1>5. \A v \in Callers : v \in Places
  BY PlacesLemma
<1>6. \A t \in Txns : Named(t)' <=> Named(t)
  BY <1>1, <1>3, <1>4, <1>5 DEF Named, idVars
<1>7. NamedTxns' = NamedTxns
  BY <1>6 DEF NamedTxns
<1>8. ASSUME Start + Cardinality(Txns) < NoId, NEW t \in Txns, NEW v \in Callers, In(t, v)'
      PROVE  /\ worker'[v] = "run" => txn_id'[t] # NoId
             /\ worker'[v] = "draw" => txn_id'[t] = NoId
  <2>1. CASE v = w
    BY <1>1, <1>3, <1>4, <1>5, <1>8, <2>1 DEF idVars
  <2>2. CASE v # w
    BY <1>1, <1>3, <1>5, <1>8, <2>2 DEF NameInv, idVars
  <2> QED
    BY <2>1, <2>2
<1> QED
  BY <1>1, <1>7, <1>8 DEF NameInv, idVars, counterVars

LEMMA NameStep ==
    ASSUME PlaceInv, NameInv, [ExecutorNext]_executorVars
    PROVE  NameInv'
<1>1. CASE Generate \/ ExecuteThread \/ MainThread
  <2>1. PICK a, b \in Stages : a # b /\ Move(a, b)
    BY <1>1, ActionMoves DEF ExecuteThread, MainThread, Stages
  <2>2. UNCHANGED <<idVars, worker>>
    BY <1>1 DEF ExecuteThread, MainThread, Generate, PopExecute, EnqueueExecute,
       PopCommit, EnqueueCommit
  <2>3. a \in Places /\ b \in Places \ Callers /\ a \notin Callers
    BY PlacesLemma
  <2> QED
    BY <2>1, <2>2, <2>3, NameMoved
<1>2. ASSUME NEW c \in Committers, CommitWorker(c)
      PROVE  NameInv'
  <2>1. PICK a, b \in Stages \cup Committers : a # b /\ Move(a, b)
    BY <1>2, ActionMoves, PlacesLemma DEF CommitWorker, Stages
  <2>2. UNCHANGED <<idVars, worker>>
    BY <1>2 DEF CommitWorker, TakeCommitTask, CommitReturns
  <2>3. a \in Places /\ b \in Places \ Callers /\ a \notin Callers
    BY PlacesLemma
  <2> QED
    BY <2>1, <2>2, <2>3, NameMoved
<1>3. ASSUME NEW w \in Callers, Ready(w) \/ Reexecute(w)
      PROVE  NameInv'
  <2>1. PICK b \in {"commit", "execute"} : Move(w, b)
    BY <1>3, ActionMoves
  <2>2. w \in Places /\ b \in Places \ Callers /\ w # b
    BY PlacesLemma DEF Stages
  <2>3. UNCHANGED idVars /\ worker[w] = "run" /\ worker' = [worker EXCEPT ![w] = "idle"]
    BY <1>3 DEF Ready, Reexecute, Finish
  <2>4. worker \in [Callers -> {"idle", "draw", "load", "run"}]
    BY DEF PlaceInv, ExecutorTypeOK
  <2> QED
    BY <2>1, <2>2, <2>3, <2>4, NameMoved
<1>4. CASE UNCHANGED executorVars
  <2>1. UNCHANGED <<idVars, worker, queue>>
    BY <1>4 DEF executorVars, idVars
  <2>2. \A t \in Txns, v \in Callers : In(t, v)' <=> In(t, v)
    BY <2>1 DEF In
  <2> QED
    BY <2>1, <2>2, NameKept
<1> QED
  BY <1>1, <1>2, <1>3, <1>4, NameBeginDraw, NameEndDraw, NameTake
     DEF ExecutorNext, ExecuteWorker


-----------------------------------------------------------------------------
(* The inductive invariant: the places and the calls of the counter, the    *)
(* order of the commits, and the identifiers.                               *)

ExecutorInv == PlaceInv /\ CommitsStartInReadyOrder /\ NameInv

LEMMA ExecutorInvariant == ExecutorSpec => []ExecutorInv
<1>1. ExecutorInit => ExecutorInv
  <2> SUFFICES ASSUME ExecutorInit PROVE NameInv
    BY ExecutorInitially DEF ExecutorInv
  <2>1. worker = [w \in Callers |-> "idle"] /\ txn_id = [t \in Txns |-> NoId]
    BY DEF ExecutorInit
  <2>2. NamedTxns = {}
    BY <2>1 DEF NamedTxns, Named
  <2>3. counter = Start /\ increments = 0
    BY DEF ExecutorInit, reset_counter
  <2> QED
    BY <2>1, <2>2, <2>3, FS_EmptySet, CounterAssumption DEF NameInv, TxnId
<1>2. ExecutorInv /\ [ExecutorNext]_executorVars => ExecutorInv'
  BY PlaceInvStep, OrderStep, NameStep DEF ExecutorInv
<1> QED
  BY <1>1, <1>2, PTL DEF ExecutorSpec

(* The queues hold transactions and the members of the threads have their   *)
(* types (TwoPLExecutor.h, Counter.h).                                      *)
THEOREM ExecutorTypeCorrect == ExecutorSpec => []ExecutorTypeOK
<1>1. ExecutorInv => ExecutorTypeOK
  BY DEF ExecutorInv, PlaceInv
<1> QED
  BY <1>1, ExecutorInvariant, PTL

(* No transaction is lost between the queues and the pools of TwoPLExecutor,*)
(* and none is in two of them, or with two threads.                         *)
THEOREM NoneLostNoneTwice == ExecutorSpec => []EachInOnePlace
<1>1. ExecutorInv => EachInOnePlace
  BY DEF ExecutorInv, PlaceInv
<1> QED
  BY <1>1, ExecutorInvariant, PTL

(* A thread of TwoPLExecutor has one transaction at most, and is inside     *)
(* generate_unique_id exactly while its transaction waits for the value.    *)
THEOREM ThreadsHoldOne == ExecutorSpec => []OneAtATime
<1>1. ExecutorInv => OneAtATime
  BY DEF ExecutorInv, PlaceInv
<1> QED
  BY <1>1, ExecutorInvariant, PTL

(* main_thread starts the commits in the order in which the workers pushed  *)
(* the transactions, whatever the sizes of the pools.                       *)
THEOREM FirstReadyFirstCommitted == ExecutorSpec => []CommitsStartInReadyOrder
<1>1. ExecutorInv => CommitsStartInReadyOrder
  BY DEF ExecutorInv
<1> QED
  BY <1>1, ExecutorInvariant, PTL

(* Unless the counter reaches 0xffffffff, a transaction draws one           *)
(* identifier and runs under it (the test of txn_id in TwoPLExecutor.h).    *)
THEOREM OneIdEach == ExecutorSpec => []OneIdPerTxn
<1>1. ExecutorInv => OneIdPerTxn
  BY DEF ExecutorInv, NameInv, OneIdPerTxn, NamedTxns
<1> QED
  BY <1>1, ExecutorInvariant, PTL

LEMMA IdsApart ==
    ASSUME NEW m \in Nat, NEW n \in Nat, m < n, n < IdLimit
    PROVE  IdAfter(m) # IdAfter(n)
<1>1. Start \in Nat /\ Start < IdLimit /\ IdLimit \in Nat
  BY CounterAssumption, IdAssumption DEF TxnId
<1> QED
  BY <1>1 DEF IdAfter

LEMMA InTurnDiffer == ExecutorInv => SuccessiveIdsDiffer
<1> SUFFICES ASSUME ExecutorInv, NotWrapped,
                    NEW i \in 1 .. Len(drawn), NEW j \in 1 .. Len(drawn),
                    drawn[i].to < drawn[j].from
             PROVE  drawn[i].id # drawn[j].id
  BY DEF SuccessiveIdsDiffer
<1>1. drawn[i] \in Draw /\ drawn[j] \in Draw /\ increments \in Nat
  BY DEF ExecutorInv, PlaceInv, ExecutorTypeOK, CounterTypeOK
<1>2. /\ drawn[j].from <= drawn[j].to /\ drawn[j].to <= increments
      /\ drawn[i].id = IdAfter(drawn[i].to) /\ drawn[j].id = IdAfter(drawn[j].to)
  BY DEF ExecutorInv, PlaceInv, CounterInv
<1>3. /\ drawn[i].to \in Nat /\ drawn[j].to \in Nat /\ drawn[j].from \in Nat
      /\ IdLimit \in Nat
  BY <1>1, IdAssumption DEF Draw
<1>4. drawn[i].to < drawn[j].to /\ drawn[j].to < IdLimit
  BY <1>1, <1>2, <1>3 DEF NotWrapped
<1> QED
  BY <1>2, <1>3, <1>4, IdsApart

(* Two calls of generate_unique_id one after the other return different     *)
(* values until the counter has been round once.                            *)
THEOREM CallsInTurnDiffer == ExecutorSpec => []SuccessiveIdsDiffer
BY InTurnDiffer, ExecutorInvariant, PTL

-----------------------------------------------------------------------------
(* When identifiers are unique.  Those of different transactions come from  *)
(* different draws.                                                         *)
Loaded == {t \in Txns : txn_id[t] # NoId}

FromDraws == \E f \in [Loaded -> 1 .. Len(drawn)] :
    \A t \in Loaded : /\ drawn[f[t]].id = txn_id[t]
                      /\ \A u \in Loaded : t # u => f[t] # f[u]

(* What the counter and the identifiers do in a step.                       *)
LEMMA IdSteps ==
    ASSUME PlaceInv, [ExecutorNext]_executorVars
    PROVE  \/ UNCHANGED <<counterVars, txn_id>>
           \/ UNCHANGED txn_id /\ \E w \in Callers : FetchAdd(w)
           \/ \E w \in Callers, x \in Txns :
                 LoadId(w) /\ txn_id' = [txn_id EXCEPT ![x] = counter]
<1>1. ASSUME NEW w \in Callers, ExecuteWorker(w)
      PROVE  \/ UNCHANGED <<counterVars, txn_id>>
             \/ UNCHANGED txn_id /\ FetchAdd(w)
             \/ \E x \in Txns : LoadId(w) /\ txn_id' = [txn_id EXCEPT ![x] = counter]
  BY <1>1, WorkersHold DEF ExecuteWorker, TakeExecuteTask, BeginDraw, EndDraw, Ready,
     Reexecute, idVars
<1>2. CASE Generate \/ ExecuteThread \/ MainThread \/ \E c \in Committers : CommitWorker(c)
  BY <1>2 DEF ExecuteThread, MainThread, CommitWorker, Generate, PopExecute,
     EnqueueExecute, PopCommit, EnqueueCommit, TakeCommitTask, CommitReturns, idVars
<1>3. CASE UNCHANGED executorVars
  BY <1>3 DEF executorVars
<1> QED
  BY <1>1, <1>2, <1>3 DEF ExecutorNext

LEMMA FromDrawsStep ==
    ASSUME PlaceInv, FromDraws, [ExecutorNext]_executorVars
    PROVE  FromDraws'
<1>1. /\ drawn \in Seq(Draw) /\ Len(drawn) \in Nat
      /\ txn_id \in [Txns -> TxnId] /\ counter \in TxnId
  BY DEF PlaceInv, ExecutorTypeOK, CounterTypeOK
<1>2. CASE UNCHANGED <<drawn, txn_id>>
  <2>1. drawn' = drawn /\ txn_id' = txn_id /\ Loaded' = Loaded
    BY <1>2 DEF Loaded
  <2>2. PICK f \in [Loaded -> 1 .. Len(drawn)] :
            \A t \in Loaded : /\ drawn[f[t]].id = txn_id[t]
                              /\ \A u \in Loaded : t # u => f[t] # f[u]
    BY DEF FromDraws
  <2>3. f \in [Loaded' -> 1 .. Len(drawn')]
    BY <2>1
  <2> QED
    BY <2>1, <2>2, <2>3 DEF FromDraws
<1>3. ASSUME NEW w \in Callers, NEW x \in Txns, LoadId(w),
             txn_id' = [txn_id EXCEPT ![x] = counter]
      PROVE  FromDraws'
  <2> DEFINE n == Len(drawn)
  <2>1. PICK f \in [Loaded -> 1 .. n] :
            \A t \in Loaded : /\ drawn[f[t]].id = txn_id[t]
                              /\ \A u \in Loaded : t # u => f[t] # f[u]
    BY DEF FromDraws
  <2> DEFINE g == [t \in Loaded' |-> IF t = x THEN n + 1 ELSE f[t]]
  <2>2. PICK d : drawn' = Append(drawn, d) /\ d.id = counter
    BY <1>3 DEF LoadId
  <2>3. /\ Len(drawn') = n + 1 /\ drawn'[n + 1].id = counter
        /\ \A i \in 1 .. n : drawn'[i] = drawn[i]
    BY <1>1, <2>2
  <2>4. \A t \in Loaded' : t # x => t \in Loaded /\ txn_id'[t] = txn_id[t]
    BY <1>1, <1>3 DEF Loaded
  <2>5. g \in [Loaded' -> 1 .. Len(drawn')]
    BY <1>1, <2>1, <2>3, <2>4
  <2>6. txn_id'[x] = counter
    BY <1>1, <1>3
  <2>7. ASSUME NEW t \in Loaded'
        PROVE  /\ drawn'[g[t]].id = txn_id'[t]
               /\ \A u \in Loaded' : t # u => g[t] # g[u]
    <3>1. CASE t = x
      BY <1>1, <2>1, <2>3, <2>4, <2>6, <3>1
    <3>2. CASE t # x
      BY <1>1, <2>1, <2>3, <2>4, <3>2
    <3> QED
      BY <3>1, <3>2
  <2> QED
    BY <2>5, <2>7 DEF FromDraws
<1> QED
  BY <1>2, <1>3, IdSteps DEF counterVars, FetchAdd

LEMMA FromDrawsAlways == ExecutorSpec => []FromDraws
<1>1. ExecutorInit => FromDraws
  <2> SUFFICES ASSUME ExecutorInit PROVE FromDraws
    OBVIOUS
  <2>1. Loaded = {}
    BY DEF ExecutorInit, Loaded
  <2>2. [t \in {} |-> 1] \in [Loaded -> 1 .. Len(drawn)]
    BY <2>1
  <2> QED
    BY <2>1, <2>2 DEF FromDraws
<1>2. ExecutorInv /\ FromDraws /\ [ExecutorNext]_executorVars => FromDraws'
  BY FromDrawsStep DEF ExecutorInv
<1> QED
  BY <1>1, <1>2, ExecutorInvariant, PTL DEF ExecutorSpec

(* generate_unique_id gives two transactions the same identifier only if    *)
(* two calls of it overlap, whatever the number of threads.                 *)
THEOREM UniqueIfDrawnInTurn == ExecutorSpec => [](DrawnInTurn => UniqueTxnIds)
<1>1. ExecutorInv /\ FromDraws => (DrawnInTurn => UniqueTxnIds)
  <2> SUFFICES ASSUME ExecutorInv, FromDraws, DrawnInTurn,
                      Start + Cardinality(Txns) < NoId,
                      NEW t \in Txns, NEW u \in Txns, t # u, txn_id[t] # NoId
               PROVE  txn_id[t] # txn_id[u]
    BY DEF UniqueTxnIds
  <2>1. CASE txn_id[u] = NoId
    BY <2>1
  <2>2. CASE txn_id[u] # NoId
    <3>1. t \in Loaded /\ u \in Loaded
      BY <2>2 DEF Loaded
    <3>2. PICK i, j \in 1 .. Len(drawn) :
              i # j /\ drawn[i].id = txn_id[t] /\ drawn[j].id = txn_id[u]
      BY <3>1 DEF FromDraws
    <3>3. NotWrapped
      <4>1. increments = Cardinality(NamedTxns)
        BY DEF ExecutorInv, NameInv
      <4>2. Start \in Nat /\ IdLimit \in Nat
        BY CounterAssumption, IdAssumption DEF TxnId
      <4> QED
        BY <4>1, <4>2, FewTxns, FS_CardinalityType DEF NotWrapped, NoId
    <3>4. SuccessiveIdsDiffer
      BY InTurnDiffer
    <3>5. drawn[i].to < drawn[j].from \/ drawn[j].to < drawn[i].from
      BY <3>2 DEF DrawnInTurn
    <3> QED
      BY <3>2, <3>3, <3>4, <3>5 DEF SuccessiveIdsDiffer
  <2> QED
    BY <2>1, <2>2
<1> QED
  BY <1>1, ExecutorInvariant, FromDrawsAlways, PTL

(* A thread's calls are in turn: with one thread in the pool, identifiers   *)
(* are unique.                                                              *)
OneDraws ==
    /\ DrawnInTurn
    /\ \A w \in Callers : drawing[w] # 0 =>
          \A i \in 1 .. Len(drawn) : drawn[i].to < drawing[w]

LEMMA OneDrawsStep ==
    ASSUME \A v, w \in Callers : v = w,
           PlaceInv, OneDraws, [ExecutorNext]_executorVars
    PROVE  OneDraws'
<1>1. /\ drawn \in Seq(Draw) /\ Len(drawn) \in Nat
      /\ drawing \in [Callers -> Nat] /\ increments \in Nat
      /\ \A i \in 1 .. Len(drawn) : drawn[i].to \in Nat /\ drawn[i].to <= increments
  <2>1. drawn \in Seq(Draw) /\ drawing \in [Callers -> Nat] /\ increments \in Nat
    BY DEF PlaceInv, ExecutorTypeOK, CounterTypeOK
  <2>2. \A i \in 1 .. Len(drawn) : drawn[i] \in Draw
    BY <2>1
  <2>3. \A i \in 1 .. Len(drawn) : drawn[i].to <= increments
    BY DEF PlaceInv, CounterInv
  <2> QED
    BY <2>1, <2>2, <2>3 DEF Draw
<1>2. CASE UNCHANGED counterVars
  BY <1>2 DEF OneDraws, DrawnInTurn, counterVars
<1>3. ASSUME NEW w \in Callers, FetchAdd(w) PROVE OneDraws'
  <2>1. drawn' = drawn /\ drawing'[w] = increments + 1
    BY <1>1, <1>3 DEF FetchAdd
  <2> QED
    BY <1>1, <2>1 DEF OneDraws, DrawnInTurn
<1>4. ASSUME NEW w \in Callers, LoadId(w) PROVE OneDraws'
  <2>1. PICK d : drawn' = Append(drawn, d) /\ d.from = drawing[w]
    BY <1>4 DEF LoadId
  <2>2. /\ Len(drawn') = Len(drawn) + 1 /\ drawn'[Len(drawn) + 1].from = drawing[w]
        /\ \A i \in 1 .. Len(drawn) : drawn'[i] = drawn[i]
    BY <1>1, <2>1
  <2>3. drawing[w] # 0 /\ drawing'[w] = 0
    BY <1>1, <1>4 DEF LoadId
  <2>4. DrawnInTurn'
    BY <1>1, <2>2, <2>3 DEF OneDraws, DrawnInTurn
  <2> QED
    BY <2>3, <2>4 DEF OneDraws
<1> QED
  BY <1>2, <1>3, <1>4, IdSteps DEF counterVars

(* With one thread in the execute pool generate_unique_id keeps the promise *)
(* of its name.                                                             *)
THEOREM OneThreadUniqueIds ==
    ASSUME \A v, w \in Callers : v = w
    PROVE  ExecutorSpec => []UniqueTxnIds
<1>1. ExecutorInit => OneDraws
  BY DEF ExecutorInit, reset_counter, OneDraws, DrawnInTurn
<1>2. ExecutorInv /\ OneDraws /\ [ExecutorNext]_executorVars => OneDraws'
  BY OneDrawsStep DEF ExecutorInv
<1>3. OneDraws => DrawnInTurn
  BY DEF OneDraws
<1> QED
  BY <1>1, <1>2, <1>3, ExecutorInvariant, UniqueIfDrawnInTurn, PTL DEF ExecutorSpec

================================================================================
