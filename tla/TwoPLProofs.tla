------------------------------- MODULE TwoPLProofs -------------------------------
(* Theorems about TwoPL: the threads and the transactions together, for any *)
(* transactions, queries, rows and threads.                                 *)
EXTENDS TwoPL, TwoPLTransactionProofs, TwoPLExecutorProofs

-----------------------------------------------------------------------------
(* The composition is a run of the threads, and so has their invariants.    *)

LEMMA ThreadStep == [SystemNext]_systemVars => [ExecutorNext]_executorVars
<1>1. HandOn => ExecutorNext
  BY DEF HandOn, ExecutorNext
<1>2. ASSUME NEW w \in Callers, WorkerStep(w)
      PROVE  [ExecutorNext]_executorVars
  BY <1>2 DEF WorkerStep, TakeToDraw, TakeToRun, RunDrawn, Executing, ReturnReady,
     ReturnAbort, ExecutorNext, ExecuteWorker
<1>3. ASSUME NEW c \in Committers, CommitterStep(c)
      PROVE  [ExecutorNext]_executorVars
  BY <1>3 DEF CommitterStep, StartCommitTxn, Committing, EndCommitTxn, ExecutorNext,
     CommitWorker
<1> QED
  BY <1>1, <1>2, <1>3 DEF SystemNext, systemVars

(* Whatever the transactions do, the threads hand them on as TwoPLExecutor  *)
(* says: what is proved of the threads alone holds of the whole.            *)
THEOREM SystemRunsThreads == SystemSpec => ThreadsRun
<1>1. SystemInit => ExecutorInit
  BY DEF SystemInit
<1> QED
  BY <1>1, ThreadStep, PTL DEF SystemSpec, ThreadsRun, ExecutorSpec

LEMMA SystemThreads == SystemSpec => []ExecutorInv
BY SystemRunsThreads, ExecutorInvariant, PTL DEF ThreadsRun

-----------------------------------------------------------------------------
(* The composition is a run of the transactions.                            *)

LEMMA HeldTxns ==
    ASSUME PlaceInv, NEW p \in Places, queue[p] # <<>>
    PROVE  Oldest(p) \in Txns /\ In(Oldest(p), p)
BY WalkItems DEF PlaceInv, ExecutorTypeOK, Oldest, In

LEMMA WorkerHolds ==
    ASSUME PlaceInv, NEW w \in Callers, worker[w] # "idle"
    PROVE  w \in Places /\ queue[w] # <<>> /\ Oldest(w) \in Txns /\ In(Oldest(w), w)
<1>1. w \in Places /\ queue[w] # <<>>
  BY PlacesLemma DEF PlaceInv, OneAtATime
<1> QED
  BY <1>1, HeldTxns

(* A step begins a commit, or is another step of a transaction, or of none. *)
Begins(c) ==
    \E t \in Txns : t = Oldest("commit_tp") /\ StartCommit(t) /\ TakeCommitTask(c)

Quietly == UNCHANGED startOrder /\ (UNCHANGED vars \/ \E t \in Txns : QuietStep(t))

LEMMA WorkerQuiet ==
    ASSUME PlaceInv, NEW w \in Callers, WorkerStep(w)
    PROVE  Quietly
<1>1. UNCHANGED startOrder
  BY DEF WorkerStep, TakeToDraw, TakeToRun, RunDrawn, Executing, ReturnReady, ReturnAbort,
     TakeExecuteTask, BeginDraw, EndDraw, Ready, Reexecute, history, executorVars
<1>2. CASE TakeToDraw(w)
  BY <1>1, <1>2 DEF TakeToDraw, TakeExecuteTask, BeginDraw, idVars, rowVars, vars,
     helperVars, Quietly
<1>3. CASE TakeToRun(w)
  <2>1. "execute_tp" \in Places /\ queue["execute_tp"] # <<>>
    BY <1>3, PlacesLemma DEF TakeToRun, TakeExecuteTask, Take, Move, Stages
  <2> QED
    BY <1>1, <1>3, <2>1, HeldTxns DEF TakeToRun, QuietStep, ExecuteStep, Quietly
<1>4. CASE RunDrawn(w) \/ Executing(w) \/ ReturnReady(w) \/ ReturnAbort(w)
  <2>1. worker[w] # "idle"
    BY <1>4 DEF RunDrawn, EndDraw, Executing, ReturnReady, ReturnAbort, Ready, Reexecute,
       Finish
  <2> QED
    BY <1>1, <1>4, <2>1, WorkerHolds
       DEF RunDrawn, Executing, ReturnReady, ReturnAbort, Releasing, QuietStep,
           ExecuteStep, ReleaseStep, Quietly
<1> QED
  BY <1>2, <1>3, <1>4 DEF WorkerStep

LEMMA CommitterQuiet ==
    ASSUME PlaceInv, NEW c \in Committers, CommitterStep(c)
    PROVE  Quietly \/ Begins(c)
<1>1. CASE StartCommitTxn(c)
  <2>1. "commit_tp" \in Places /\ queue["commit_tp"] # <<>>
    BY <1>1, PlacesLemma DEF StartCommitTxn, TakeCommitTask, Take, Move, Stages
  <2> QED
    BY <1>1, <2>1, HeldTxns DEF StartCommitTxn, Begins
<1>2. CASE Committing(c) \/ EndCommitTxn(c)
  <2>1. c \in Places /\ queue[c] # <<>>
    BY <1>2, PlacesLemma DEF Committing, EndCommitTxn, CommitReturns, Move
  <2>2. UNCHANGED startOrder
    BY <1>2 DEF Committing, EndCommitTxn, CommitReturns, executorVars, history
  <2> QED
    BY <1>2, <2>1, <2>2, HeldTxns
       DEF Committing, EndCommitTxn, Releasing, QuietStep, ReleaseStep, Quietly
<1> QED
  BY <1>1, <1>2 DEF CommitterStep

LEMMA TxnOfStep ==
    ASSUME PlaceInv, [SystemNext]_systemVars
    PROVE  Quietly \/ \E c \in Committers : Begins(c)
<1>1. CASE UNCHANGED systemVars
  BY <1>1 DEF systemVars, rowVars, executorVars, vars, helperVars, Quietly
<1>2. CASE HandOn
  BY <1>2 DEF HandOn, Generate, ExecuteThread, MainThread, PopExecute, EnqueueExecute,
     PopCommit, EnqueueCommit, idVars, history, rowVars, vars, helperVars, Quietly
<1> QED
  BY <1>1, <1>2, WorkerQuiet, CommitterQuiet DEF SystemNext

LEMMA TxnsStep ==
    ASSUME PlaceInv, [SystemNext]_systemVars
    PROVE  [Next]_vars
<1>1. \A t \in Txns : QuietStep(t) \/ StartCommit(t) => TxnStep(t)
  BY DEF QuietStep, TxnStep, CommitStep
<1> QED
  BY <1>1, TxnOfStep DEF Quietly, Begins, Next

(* The threads make the transactions do nothing but what TwoPLTransaction   *)
(* says: every theorem about the transactions holds of the whole.           *)
THEOREM SystemRunsTransactions == SystemSpec => TransactionsRun
<1>1. SystemInit => Init
  BY DEF SystemInit
<1>2. ExecutorInv /\ [SystemNext]_systemVars => [Next]_vars
  BY TxnsStep DEF ExecutorInv
<1> QED
  BY <1>1, <1>2, SystemThreads, PTL DEF SystemSpec, TransactionsRun, Spec

(* A row nobody reads names its writer in its lock word, and is free again  *)
(* once it is unlocked, with the identifiers the counter gives out.         *)
THEOREM SystemNamesWriters == SystemSpec => []WordNamesWriter
BY SystemRunsTransactions, KeepsContractCorrect, WordNamesWriterCorrect, PTL
   DEF TransactionsRun, KeepsContract

(* What is proved of the transactions alone. *)
TxnsInv == TypeOK /\ TxnInv /\ WritersExcluded /\ CommitsFullyLocked

LEMMA SystemTransactions == SystemSpec => []TxnsInv
BY SystemRunsTransactions, TxnInvCorrect, TxnWritersExcluded, CommitsFullyLockedCorrect,
   PTL DEF TransactionsRun, TxnsInv


-----------------------------------------------------------------------------
(* Where the transactions are. *)

LEMMA PlacedByTxn ==
    ASSUME PhaseInPlace, NEW t \in Txns,
           \A u \in Txns \ {t}, p \in Places :
               In(u, p)' => /\ In(u, p) /\ phase'[u] = phase[u]
                            /\ p \in Callers => worker'[p] = worker[p],
           \A p \in Places : In(t, p)' => PlaceOfPhase(t, p)'
    PROVE  PhaseInPlace'
<1> SUFFICES ASSUME NEW u \in Txns \ {t}, NEW p \in Places, In(u, p)'
             PROVE  PlaceOfPhase(u, p)'
  BY DEF PhaseInPlace
<1>1. PlaceOfPhase(u, p)
  BY DEF PhaseInPlace
<1> QED
  BY <1>1 DEF PlaceOfPhase

(* A transaction is handed on, by a thread that may be a worker and to one  *)
(* that may be.                                                             *)
LEMMA PlacedMove ==
    ASSUME PlaceInv, PhaseInPlace, NEW a \in Places, NEW b \in Places, a # b, Move(a, b),
           NEW t \in Txns, t = Oldest(a),
           \A u \in Txns \ {t} : phase'[u] = phase[u],
           \A v \in Callers : In(t, v) \/ v = b \/ worker'[v] = worker[v],
           b \in Callers => queue[b] = <<>>,
           PlaceOfPhase(t, b)'
    PROVE  PhaseInPlace'
<1>1. /\ In(t, a)
      /\ \A u \in Txns, r \in Places : In(u, r)' <=> IF u = t THEN r = b ELSE In(u, r)
  BY MoveLemma DEF PlaceInv, ExecutorTypeOK
<1>2. ASSUME NEW u \in Txns \ {t}, NEW p \in Places, In(u, p)', p \in Callers
      PROVE  worker'[p] = worker[p]
  <2>1. In(u, p)
    BY <1>1, <1>2
  <2>2. p # b
    BY <1>2, <2>1, NoItems DEF In
  <2>3. CASE In(t, p)
    <3>1. worker[p] # "idle"
      BY <1>2, <2>3, NoItems DEF In, PlaceInv, OneAtATime
    <3>2. u = Oldest(p) /\ t = Oldest(p)
      BY <1>1, <1>2, <2>1, <2>3, <3>1, WorkersHold
    <3> QED
      BY <3>2
  <2> QED
    BY <1>2, <2>2, <2>3
<1>3. \A p \in Places : In(t, p)' => PlaceOfPhase(t, p)'
  BY <1>1
<1> QED
  BY <1>1, <1>2, <1>3, PlacedByTxn

(* A step of the transaction a thread has. *)
LEMMA PlacedHeld ==
    ASSUME PlaceInv, PhaseInPlace, NEW w \in Places, queue[w] # <<>>, UNCHANGED queue,
           NEW t \in Txns, t = Oldest(w),
           \A u \in Txns \ {t} : phase'[u] = phase[u],
           \A v \in Callers \ {w} : worker'[v] = worker[v],
           PlaceOfPhase(t, w)'
    PROVE  PhaseInPlace'
<1>1. In(t, w)
  BY HeldTxns
<1>2. \A u \in Txns, p \in Places : In(u, p)' <=> In(u, p)
  BY DEF In
<1>3. \A p \in Places : In(t, p) => p = w
  BY <1>1 DEF PlaceInv, EachInOnePlace
<1>4. ASSUME NEW u \in Txns \ {t}, NEW p \in Callers, In(u, p)
      PROVE  p # w
  <2>1. worker[p] # "idle"
    BY <1>4, NoItems DEF In, PlaceInv, OneAtATime
  <2> QED
    BY <1>4, <2>1, WorkersHold
<1> QED
  BY <1>1, <1>2, <1>3, <1>4, PlacedByTxn

(* Where a phase puts the transaction that a place gives away. *)
LEMMA PlaceNow ==
    ASSUME PlaceInv, PhaseInPlace, NEW p \in Places, queue[p] # <<>>
    PROVE  Oldest(p) \in Txns /\ PlaceOfPhase(Oldest(p), p)
BY HeldTxns DEF PhaseInPlace

LEMMA PlacedByWorker ==
    ASSUME PlaceInv, TypeOK, TxnInv, PhaseInPlace, NEW w \in Callers, WorkerStep(w)
    PROVE  PhaseInPlace'
<1>1. /\ w \in Places /\ w \notin Stages /\ w \notin Committers
      /\ {"execute_tp", "execute", "commit"} \subseteq Stages
      /\ \A s \in Stages : s \in Places /\ s \notin Callers /\ s \notin Committers
      /\ worker \in [Callers -> {"idle", "draw", "load", "run"}]
      /\ phase \in [Txns -> Phases]
  BY PlacesLemma DEF Stages, PlaceInv, ExecutorTypeOK, TypeOK
<1>2. CASE TakeExecuteTask(w) /\ UNCHANGED phase /\ worker'[w] = "draw"
  <2>1. Move("execute_tp", w) /\ queue[w] = <<>> /\ queue["execute_tp"] # <<>>
    BY <1>2, ActionMoves DEF Move
  <2>2. PICK t \in Txns : t = Oldest("execute_tp") /\ PlaceOfPhase(t, "execute_tp")
    BY <1>1, <2>1, PlaceNow
  <2>3. PlaceOfPhase(t, w)'
    BY <1>1, <1>2, <2>2 DEF PlaceOfPhase, Stages
  <2>4. \A v \in Callers \ {w} : worker'[v] = worker[v]
    BY <1>1, <1>2 DEF TakeExecuteTask
  <2> QED
    BY <1>1, <1>2, <2>1, <2>2, <2>3, <2>4, PlacedMove
<1>3. CASE TakeToRun(w)
  <2>1. /\ Move("execute_tp", w) /\ queue[w] = <<>> /\ queue["execute_tp"] # <<>>
        /\ worker'[w] = "run"
    BY <1>3, ActionMoves DEF Move, TakeToRun
  <2>2. PICK t \in Txns : t = Oldest("execute_tp")
    BY <1>1, <2>1, HeldTxns
  <2>3. phase' = [phase EXCEPT ![t] = "execute"]
    BY <1>3, <2>2 DEF TakeToRun, StartExecute, Goto
  <2>4. \A v \in Callers \ {w} : worker'[v] = worker[v]
    BY <1>1, <1>3 DEF TakeToRun, TakeExecuteTask
  <2>5. PlaceOfPhase(t, w)'
    BY <1>1, <2>1, <2>2, <2>3 DEF PlaceOfPhase
  <2> QED
    BY <1>1, <2>1, <2>2, <2>3, <2>4, <2>5, PlacedMove
<1>4. CASE BeginDraw(w) /\ UNCHANGED phase
  <2>1. UNCHANGED queue /\ worker[w] = "draw" /\ worker' = [worker EXCEPT ![w] = "load"]
    BY <1>4 DEF BeginDraw
  <2>2. queue[w] # <<>>
    BY <2>1, WorkerHolds
  <2>3. PICK t \in Txns : t = Oldest(w) /\ PlaceOfPhase(t, w)
    BY <1>1, <2>2, PlaceNow
  <2>4. PlaceOfPhase(t, w)'
    BY <1>1, <1>4, <2>1, <2>3 DEF PlaceOfPhase, Stages
  <2> QED
    BY <1>1, <1>4, <2>1, <2>2, <2>3, <2>4, PlacedHeld
<1>5. CASE RunDrawn(w)
  <2>1. UNCHANGED queue /\ worker[w] = "load" /\ worker' = [worker EXCEPT ![w] = "run"]
    BY <1>5 DEF RunDrawn, EndDraw
  <2>2. queue[w] # <<>> /\ Oldest(w) \in Txns
    BY <2>1, WorkerHolds
  <2>3. PICK t \in Txns : t = Oldest(w)
    BY <2>2
  <2>4. phase' = [phase EXCEPT ![t] = "execute"]
    BY <1>5, <2>3 DEF RunDrawn, StartExecute, Goto
  <2>5. PlaceOfPhase(t, w)'
    BY <1>1, <2>1, <2>4 DEF PlaceOfPhase
  <2> QED
    BY <1>1, <2>1, <2>2, <2>3, <2>4, <2>5, PlacedHeld
<1>6. CASE Executing(w)
  <2>1. UNCHANGED <<queue, worker>> /\ worker[w] = "run"
    BY <1>6 DEF Executing, executorVars
  <2>2. queue[w] # <<>>
    BY <2>1, WorkerHolds
  <2>3. PICK t \in Txns : t = Oldest(w) /\ PlaceOfPhase(t, w)
    BY <1>1, <2>2, PlaceNow
  <2>4. phase[t] \in {"execute", "granted", "abort_reads", "abort_writes"}
    BY <1>1, <2>1, <2>3 DEF PlaceOfPhase, Stages
  <2>5. /\ \A u \in Txns \ {t} : phase'[u] = phase[u]
        /\ phase'[t] \in {"execute", "granted", "abort_reads", "abort_writes"}
    BY <1>1, <1>6, <2>3, <2>4
       DEF Executing, Update, Read, LockRefused, LockGranted, AppendItem, Releasing,
           InCall, ReleaseRead, ReadReleased, ReadsReleased, ReleaseWrite, Loop, Goto,
           txnVars
  <2>6. PlaceOfPhase(t, w)'
    BY <1>1, <2>1, <2>5 DEF PlaceOfPhase
  <2> QED
    BY <1>1, <2>1, <2>2, <2>3, <2>5, <2>6, PlacedHeld
<1>7. CASE ReturnReady(w) \/ ReturnAbort(w)
  <2>1. /\ worker[w] = "run" /\ worker' = [worker EXCEPT ![w] = "idle"]
    BY <1>7 DEF ReturnReady, ReturnAbort, Ready, Reexecute, Finish
  <2>2. PICK t \in Txns : t = Oldest(w) /\ In(t, w)
    BY <2>1, WorkerHolds
  <2>3. \A v \in Callers : In(t, v) \/ worker'[v] = worker[v]
    BY <1>1, <2>1, <2>2
  <2>4. CASE ReturnReady(w)
    <3>1. Move(w, "commit") /\ phase' = [phase EXCEPT ![t] = "ready"]
      BY <2>2, <2>4 DEF ReturnReady, Ready, ExecuteReturns, Goto
    <3>2. PlaceOfPhase(t, "commit")'
      BY <1>1, <2>2, <3>1 DEF PlaceOfPhase
    <3> QED
      BY <1>1, <2>2, <2>3, <3>1, <3>2, PlacedMove
  <2>5. CASE ReturnAbort(w)
    <3>1. Move(w, "execute") /\ phase' = [phase EXCEPT ![t] = "queued"]
      BY <2>2, <2>5 DEF ReturnAbort, Reexecute, Requeue, Goto
    <3>2. PlaceOfPhase(t, "execute")'
      BY <1>1, <2>2, <3>1 DEF PlaceOfPhase
    <3> QED
      BY <1>1, <2>2, <2>3, <3>1, <3>2, PlacedMove
  <2> QED
    BY <1>7, <2>4, <2>5
<1> QED
  BY <1>2, <1>3, <1>4, <1>5, <1>6, <1>7
     DEF WorkerStep, TakeToDraw, rowVars, txnVars


LEMMA PlacedByCommitter ==
    ASSUME PlaceInv, TypeOK, PhaseInPlace, NEW c \in Committers, CommitterStep(c)
    PROVE  PhaseInPlace'
<1>1. /\ c \in Places /\ c \notin Stages /\ c \notin Callers
      /\ {"commit_tp", "committed"} \subseteq Stages
      /\ \A s \in Stages : s \in Places /\ s \notin Callers /\ s \notin Committers
      /\ phase \in [Txns -> Phases]
  BY PlacesLemma DEF Stages, TypeOK
<1>2. worker' = worker
  BY DEF CommitterStep, StartCommitTxn, Committing, EndCommitTxn, TakeCommitTask,
     CommitReturns, executorVars
<1>3. CASE StartCommitTxn(c)
  <2>1. Move("commit_tp", c) /\ queue["commit_tp"] # <<>>
    BY <1>3, ActionMoves DEF Move, StartCommitTxn
  <2>2. PICK t \in Txns : t = Oldest("commit_tp")
    BY <1>1, <2>1, HeldTxns
  <2>3. phase' = [phase EXCEPT ![t] = "install"]
    BY <1>3, <2>2 DEF StartCommitTxn, StartCommit, Loop, Goto
  <2>4. PlaceOfPhase(t, c)'
    BY <1>1, <2>3 DEF PlaceOfPhase
  <2> QED
    BY <1>1, <1>2, <2>1, <2>2, <2>3, <2>4, PlacedMove
<1>4. CASE Committing(c)
  <2>1. UNCHANGED queue /\ queue[c] # <<>>
    BY <1>4 DEF Committing, executorVars
  <2>2. PICK t \in Txns : t = Oldest(c) /\ PlaceOfPhase(t, c)
    BY <1>1, <2>1, PlaceNow
  <2>3. phase[t] \in {"install", "commit_reads", "commit_writes"}
    BY <1>1, <2>2 DEF PlaceOfPhase, Stages
  <2>4. /\ \A u \in Txns \ {t} : phase'[u] = phase[u]
        /\ phase'[t] \in {"install", "commit_reads", "commit_writes"}
    BY <1>1, <1>4, <2>2, <2>3
       DEF Committing, InstallItem, AllInstalled, Releasing, InCall, ReleaseRead,
           ReadReleased, ReadsReleased, ReleaseWrite, Loop, Goto, txnVars
  <2>5. PlaceOfPhase(t, c)'
    BY <2>4 DEF PlaceOfPhase
  <2> QED
    BY <1>1, <1>2, <2>1, <2>2, <2>4, <2>5, PlacedHeld
<1>5. CASE EndCommitTxn(c)
  <2>1. Move(c, "committed") /\ queue[c] # <<>>
    BY <1>5, ActionMoves DEF Move, EndCommitTxn
  <2>2. PICK t \in Txns : t = Oldest(c)
    BY <1>1, <2>1, HeldTxns
  <2>3. phase' = [phase EXCEPT ![t] = "committed"]
    BY <1>5, <2>2 DEF EndCommitTxn, Committed, Goto
  <2>4. PlaceOfPhase(t, "committed")'
    BY <1>1, <2>3 DEF PlaceOfPhase
  <2> QED
    BY <1>1, <1>2, <2>1, <2>2, <2>3, <2>4, PlacedMove
<1> QED
  BY <1>3, <1>4, <1>5 DEF CommitterStep

LEMMA PlacedByQueues ==
    ASSUME PlaceInv, PhaseInPlace, HandOn
    PROVE  PhaseInPlace'
<1>1. UNCHANGED <<phase, worker>>
  BY DEF HandOn, rowVars, txnVars, Generate, ExecuteThread, MainThread, PopExecute,
     EnqueueExecute, PopCommit, EnqueueCommit
<1>2. \A s \in Stages : s \in Places /\ s \notin Callers /\ s \notin Committers
  BY PlacesLemma
<1>3. \/ Move("generate", "execute") \/ Move("execute", "execute_thread")
      \/ Move("execute_thread", "execute_tp") \/ Move("commit", "main_thread")
      \/ Move("main_thread", "commit_tp")
  BY ActionMoves DEF HandOn, ExecuteThread, MainThread
<1>4. ASSUME NEW a \in Stages, NEW b \in Stages, a # b, Move(a, b),
             \A t \in Txns : PlaceOfPhase(t, a) => PlaceOfPhase(t, b)
      PROVE  PhaseInPlace'
  <2>1. queue[a] # <<>>
    BY <1>4 DEF Move
  <2>2. PICK t \in Txns : t = Oldest(a) /\ PlaceOfPhase(t, a)
    BY <1>2, <1>4, <2>1, PlaceNow
  <2>3. PlaceOfPhase(t, b)'
    BY <1>1, <1>4, <2>2 DEF PlaceOfPhase
  <2> QED
    BY <1>1, <1>2, <1>4, <2>2, <2>3, PlacedMove
<1>5. \A t \in Txns :
        /\ PlaceOfPhase(t, "generate") => PlaceOfPhase(t, "execute")
        /\ PlaceOfPhase(t, "execute") => PlaceOfPhase(t, "execute_thread")
        /\ PlaceOfPhase(t, "execute_thread") => PlaceOfPhase(t, "execute_tp")
        /\ PlaceOfPhase(t, "commit") => PlaceOfPhase(t, "main_thread")
        /\ PlaceOfPhase(t, "main_thread") => PlaceOfPhase(t, "commit_tp")
  BY <1>2 DEF PlaceOfPhase, Stages
<1> QED
  BY <1>3, <1>4, <1>5 DEF Stages

LEMMA PlacedStep ==
    ASSUME PlaceInv, TypeOK, TxnInv, PhaseInPlace, [SystemNext]_systemVars
    PROVE  PhaseInPlace'
<1>1. CASE UNCHANGED systemVars
  BY <1>1 DEF systemVars, rowVars, txnVars, executorVars, PhaseInPlace, PlaceOfPhase, In
<1> QED
  BY <1>1, PlacedByWorker, PlacedByCommitter, PlacedByQueues DEF SystemNext

(* A transaction takes and gives back its locks only in the hands of a      *)
(* thread of _execute_tp, or of _commit_tp once it is to commit: while it   *)
(* is in a queue nothing happens to it (TwoPLExecutor.h).                   *)
THEOREM EachPhaseInItsPlace == SystemSpec => []PhaseInPlace
<1>1. SystemInit => PhaseInPlace
  <2> SUFFICES ASSUME SystemInit, NEW t \in Txns, NEW p \in Places, In(t, p)
               PROVE  PlaceOfPhase(t, p)
    BY DEF PhaseInPlace
  <2>1. phase[t] = "queued"
    BY DEF SystemInit, Init
  <2>2. p = "generate"
    BY NoItems DEF SystemInit, ExecutorInit, In
  <2> QED
    BY <2>1, <2>2 DEF PlaceOfPhase
<1>2. PhaseInPlace /\ ExecutorInv /\ TxnsInv /\ [SystemNext]_systemVars
        => PhaseInPlace'
  BY PlacedStep DEF ExecutorInv, TxnsInv
<1> QED
  BY <1>1, <1>2, SystemThreads, SystemTransactions, PTL DEF SystemSpec

-----------------------------------------------------------------------------
(* The locks and the order of the commits. *)

LEMMA LocksOfPlace ==
    ASSUME ExecutorInv, TypeOK, TxnInv, CommitsFullyLocked, PhaseInPlace
    PROVE  LocksTravel
<1> SUFFICES ASSUME NEW t \in Txns, NEW p \in Places, In(t, p)
             PROVE  /\ p \in {"generate", "execute", "execute_thread", "execute_tp",
                              "committed"}
                          => \A k \in Keys : holds[t][k] = "none"
                    /\ p \in {"commit", "main_thread", "commit_tp"}
                          => \A i \in DOMAIN query[t] :
                                holds[t][query[t][i].key] = OpMode(query[t][i])
                    /\ p \notin Callers \cup Committers => call[t] = NoCall
  BY DEF LocksTravel
<1>1. PlaceOfPhase(t, p)
  BY DEF PhaseInPlace
<1>2. \A s \in Stages : s \notin Callers /\ s \notin Committers
  BY PlacesLemma
<1>3. ASSUME p \in {"generate", "execute", "execute_thread", "execute_tp", "committed"},
             NEW k \in Keys
      PROVE  holds[t][k] = "none"
  <2>1. phase[t] \in {"queued", "committed"}
    BY <1>1, <1>2, <1>3 DEF PlaceOfPhase, Stages
  <2>2. ReadLocks(t) = {} /\ WriteLocks(t) = {}
    BY <2>1 DEF ReadLocks, WriteLocks
  <2>3. holds[t][k] \in {"none", "read", "write"}
    BY DEF TypeOK, HelperTypeOK
  <2> QED
    BY <2>2, <2>3 DEF TxnInv, LocksMatchSets
<1>4. ASSUME p \in {"commit", "main_thread", "commit_tp"}
      PROVE  phase[t] = "ready"
  BY <1>1, <1>2, <1>4 DEF PlaceOfPhase, Stages
<1>5. ASSUME p \notin Callers \cup Committers
      PROVE  call[t] = NoCall
  <2>1. phase[t] \in {"queued", "ready", "committed"}
    BY <1>1, <1>5 DEF PlaceOfPhase
  <2> QED
    BY <2>1 DEF TxnInv, CallInPlace, AtOperation
<1> QED
  BY <1>3, <1>4, <1>5 DEF CommitsFullyLocked

(* Whichever threads hand a transaction on, it waits to be executed without *)
(* a lock and to be committed with all of its locks.                        *)
THEOREM LocksTravelWithTxns == SystemSpec => []LocksTravel
<1>1. ExecutorInv /\ TxnsInv /\ PhaseInPlace => LocksTravel
  BY LocksOfPlace DEF TxnsInv
<1> QED
  BY <1>1, SystemThreads, SystemTransactions, EachPhaseInItsPlace, PTL

-----------------------------------------------------------------------------
(* Refusals.                                                                *)

LEMMA RefusalFindsOwner ==
    ASSUME TypeOK, TxnInv, OwnerInv, [Next]_vars, NEW t \in Txns,
           phase[t] = "execute", phase'[t] = "abort_reads",
           CurrentOp(t).key \in WriteOnlyKeys
    PROVE  \E u \in Txns \ {t} : Owns(u, CurrentOp(t).key)
<1> DEFINE k == CurrentOp(t).key
<1>1. LockRefused(t)
  <2>1. PICK v \in Txns : TxnStep(v)
    BY DEF Next, vars, txnVars
  <2>2. v = t
    BY <2>1, OthersSame DEF Same
  <2>3. /\ ~InCall(t) /\ ~CommitStep(t) /\ ~ReleaseStep(t)
        /\ ~StartExecute(t) /\ ~Update(t) /\ ~Read(t) /\ ~LockGranted(t)
        /\ ~AppendItem(t) /\ ~ExecuteReturns(t)
    BY DEF TypeOK, InCall, txnVars, CommitStep, StartCommit, InstallItem, AllInstalled,
       ReleaseStep, ReleaseRead, ReadReleased, ReadsReleased, ReleaseWrite, Requeue,
       Committed, StartExecute, Update, Read, LockGranted, AppendItem, ExecuteReturns,
       Goto, Loop
  <2> QED
    BY <2>1, <2>2, <2>3 DEF TxnStep, ExecuteStep
<1>2. /\ next[t] \in DOMAIN query[t]
      /\ RequestRefused(t, RequestOp(CurrentOp(t)), k)
  BY <1>1 DEF LockRefused, AtOperation
<1>3. /\ k \in Keys /\ k \notin Range(writeSet[t])
      /\ CurrentOp(t).update \in BOOLEAN /\ OpMode(CurrentOp(t)) \in Modes[k]
  BY <1>2, CurrentLemma DEF TxnInv
<1>4. CurrentOp(t).update
  BY <1>3 DEF OpMode, WriteOnlyKeys
<1>5. meta[k].write \/ meta[k].read
  BY <1>2, <1>4 DEF RequestRefused, RequestOp, Refused
<1>6. PICK u \in Txns : Owns(u, k)
  BY <1>5 DEF OwnerInv
<1>7. ~Owns(t, k)
  <2>1. call[t].at # "store"
    BY <1>2 DEF RequestRefused, NoCall
  <2>2. WriteLocks(t) = Range(writeSet[t])
    BY DEF WriteLocks, Requested
  <2>3. holds[t][k] # "write"
    BY <1>3, <2>2 DEF TxnInv, LocksMatchSets
  <2> QED
    BY <2>1, <2>3 DEF Owns
<1> QED
  BY <1>6, <1>7

(* Nobody is refused a row because of a transaction that waits to be        *)
(* executed or is over: who owns a row is in the hands of a worker or on    *)
(* the way through commit, and will let go of it.                           *)
THEOREM RefusedOnlyByOnesUnderWay == SystemSpec => RefusedByOneUnderWay
<1>1. ASSUME ExecutorInv, TxnsInv, OwnerInv, LocksTravel, [SystemNext]_systemVars,
             NEW t \in Txns, phase[t] = "execute", phase'[t] = "abort_reads",
             CurrentOp(t).key \in WriteOnlyKeys
      PROVE  \E u \in Txns \ {t}, p \in UnderWay :
                 In(u, p) /\ Owns(u, CurrentOp(t).key)
  <2>1. [Next]_vars
    BY <1>1, TxnsStep DEF ExecutorInv
  <2>2. PICK u \in Txns \ {t} : Owns(u, CurrentOp(t).key)
    BY <1>1, <2>1, RefusalFindsOwner DEF TxnsInv
  <2>3. PICK p \in Places : In(u, p)
    BY <1>1 DEF ExecutorInv, PlaceInv, EachInOnePlace
  <2>4. CurrentOp(t).key \in Keys
    BY <1>1 DEF WriteOnlyKeys
  <2>5. p \in UnderWay
    <3>1. CASE holds[u][CurrentOp(t).key] = "write"
      BY <1>1, <2>3, <2>4, <3>1 DEF LocksTravel, Places, Stages, UnderWay
    <3>2. CASE call[u].at = "store"
      BY <1>1, <2>3, <3>2 DEF LocksTravel, NoCall, UnderWay
    <3> QED
      BY <2>2, <3>1, <3>2 DEF Owns
  <2> QED
    BY <2>2, <2>3, <2>5
<1>2. ExecutorInv /\ TxnsInv /\ OwnerInv /\ LocksTravel /\ [SystemNext]_systemVars =>
        [\A t \in Txns :
            /\ phase[t] = "execute" /\ phase'[t] = "abort_reads"
            /\ CurrentOp(t).key \in WriteOnlyKeys
            => \E u \in Txns \ {t}, p \in UnderWay :
                   In(u, p) /\ Owns(u, CurrentOp(t).key)]_systemVars
  BY <1>1
<1>3. SystemSpec => []OwnerInv
  BY SystemRunsTransactions, KeepsContractCorrect, OwnerInvCorrect, PTL
     DEF TransactionsRun, KeepsContract
<1> QED
  BY <1>2, <1>3, SystemThreads, SystemTransactions, LocksTravelWithTxns, PTL
     DEF SystemSpec, RefusedByOneUnderWay

-----------------------------------------------------------------------------
(* The transaction a commit appends to startOrder, and the store after it.  *)
LEMMA StoreStep ==
    ASSUME ExecutorInv, TxnsInv, [SystemNext]_systemVars
    PROVE  /\ WriteKeys' = WriteKeys
           /\ \/ UNCHANGED <<startOrder, LogicalStore>>
              \/ \E t \in Txns :
                    /\ startOrder' = Append(startOrder, t)
                    /\ \A k \in WriteOnlyKeys : LogicalStore'[k] =
                          IF k \in WriteKeys[t] THEN t ELSE LogicalStore[k]
<1>1. CASE Quietly
  <2>1. UNCHANGED vars => UNCHANGED Serial!serialVars
    BY SerialStutter DEF vars, txnVars, Pending, Decided
  <2>2. UNCHANGED Serial!serialVars
    BY <1>1, <2>1, SerialQuiet DEF Quietly, TxnsInv
  <2> QED
    BY <1>1, <2>2 DEF Quietly, Serial!serialVars
<1>2. ASSUME NEW c \in Committers, Begins(c)
      PROVE  /\ WriteKeys' = WriteKeys
             /\ \E t \in Txns :
                    /\ startOrder' = Append(startOrder, t)
                    /\ \A k \in WriteOnlyKeys : LogicalStore'[k] =
                          IF k \in WriteKeys[t] THEN t ELSE LogicalStore[k]
  <2>1. PICK t \in Txns : StartCommit(t) /\ startOrder' = Append(startOrder, t)
    BY <1>2 DEF Begins, TakeCommitTask
  <2>2. Serial!Commit(t)
    BY <2>1, SerialCommit DEF TxnsInv
  <2> QED
    BY <2>1, <2>2 DEF Serial!Commit
<1> QED
  BY <1>1, <1>2, TxnOfStep DEF ExecutorInv

(* The second half of SerialInReadyOrder, which is inductive.               *)
LastWriterWins == \A k \in WriteOnlyKeys :
    IF Writers(k) = {} THEN LogicalStore[k] = NoTxn
    ELSE \E i \in Writers(k) : /\ LogicalStore[k] = startOrder[i]
                               /\ \A j \in Writers(k) : j <= i

LEMMA LastWriterStep ==
    ASSUME ExecutorInv, TxnsInv, LastWriterWins, [SystemNext]_systemVars
    PROVE  LastWriterWins'
<1>1. WriteOnlyKeys' = WriteOnlyKeys
  BY DEF WriteOnlyKeys
<1>2. CASE UNCHANGED <<startOrder, LogicalStore, WriteKeys>>
  BY <1>1, <1>2 DEF LastWriterWins, Writers
<1>3. ASSUME NEW t \in Txns, startOrder' = Append(startOrder, t), WriteKeys' = WriteKeys,
             \A k \in WriteOnlyKeys : LogicalStore'[k] =
                 IF k \in WriteKeys[t] THEN t ELSE LogicalStore[k]
      PROVE  LastWriterWins'
  <2> DEFINE n == Len(startOrder)
  <2>1. /\ startOrder \in Seq(Txns) /\ n \in Nat /\ DOMAIN startOrder = 1 .. n
        /\ DOMAIN startOrder' = 1 .. n + 1
        /\ \A i \in 1 .. n : startOrder'[i] = startOrder[i]
        /\ startOrder'[n + 1] = t
    BY <1>3 DEF ExecutorInv, PlaceInv, ExecutorTypeOK
  <2> SUFFICES ASSUME NEW k \in WriteOnlyKeys
               PROVE  IF Writers(k)' = {} THEN LogicalStore'[k] = NoTxn
                      ELSE \E i \in Writers(k)' :
                              /\ LogicalStore'[k] = startOrder'[i]
                              /\ \A j \in Writers(k)' : j <= i
    BY <1>1 DEF LastWriterWins, Writers
  <2>2. Writers(k) \subseteq 1 .. n
    BY <2>1 DEF Writers
  <2>3. CASE k \in WriteKeys[t]
    <3>1. Writers(k)' = Writers(k) \cup {n + 1}
      BY <1>3, <2>1, <2>3 DEF Writers
    <3>2. \A j \in Writers(k)' : j <= n + 1
      BY <2>1, <2>2, <3>1
    <3> QED
      BY <1>3, <2>1, <2>3, <3>1, <3>2
  <2>4. CASE k \notin WriteKeys[t]
    <3>1. Writers(k)' = Writers(k)
      BY <1>3, <2>1, <2>4 DEF Writers
    <3> QED
      BY <1>3, <2>1, <2>2, <2>4, <3>1 DEF LastWriterWins
  <2> QED
    BY <2>3, <2>4
<1> QED
  BY <1>2, <1>3, StoreStep

(* On the rows nobody reads the transactions commit one after the other, in *)
(* the order in which the workers pushed them to the commit queue, although *)
(* several threads of _commit_tp copy rows at the same time.                *)
THEOREM CommitsInReadyOrder == SystemSpec => []SerialInReadyOrder
<1>1. SystemInit => LastWriterWins
  <2> SUFFICES ASSUME SystemInit, NEW k \in WriteOnlyKeys
               PROVE  Writers(k) = {} /\ LogicalStore[k] = NoTxn
    BY DEF LastWriterWins
  <2>1. startOrder = <<>>
    BY DEF SystemInit, ExecutorInit
  <2>2. Writers(k) = {}
    BY <2>1 DEF Writers
  <2>3. Serial!SerialInit
    BY SerialInitial DEF SystemInit
  <2> QED
    BY <2>2, <2>3 DEF Serial!SerialInit
<1>2. ExecutorInv /\ TxnsInv /\ LastWriterWins /\ [SystemNext]_systemVars => LastWriterWins'
  BY LastWriterStep
<1>3. ExecutorInv /\ LastWriterWins => SerialInReadyOrder
  <2> SUFFICES ASSUME ExecutorInv, NEW i \in DOMAIN startOrder
               PROVE  i \in DOMAIN readyOrder /\ startOrder[i] = readyOrder[i]
    BY DEF SerialInReadyOrder, LastWriterWins
  <2>1. "commit_tp" \in Places /\ "main_thread" \in Places /\ "commit" \in Places
    BY PlacesLemma DEF Stages
  <2>2. /\ startOrder \in Seq(Txns) /\ queue["commit_tp"] \in Seq(Txns)
        /\ queue["main_thread"] \in Seq(Txns) /\ queue["commit"] \in Seq(Txns)
    BY <2>1 DEF ExecutorInv, PlaceInv, ExecutorTypeOK
  <2>3. PICK u \in Seq(Txns) : readyOrder = startOrder \o u
    BY <2>2, ConcatProperties DEF ExecutorInv, CommitsStartInReadyOrder
  <2> QED
    BY <2>2, <2>3
<1> QED
  BY <1>1, <1>2, <1>3, SystemThreads, SystemTransactions, PTL DEF SystemSpec

=================================================================================
