---------------------------------- MODULE TwoPL ----------------------------------
(***************************************************************************)
(* The whole of protocol/TwoPL: the threads of TwoPLExecutor run the       *)
(* transactions of TwoPLTransaction.  A worker calls execute() for the     *)
(* transaction it holds, in the steps of that transaction, and what        *)
(* execute() returns decides where the worker pushes it; a thread of the   *)
(* commit pool runs commit_txn.  Everything else leaves the rows and the   *)
(* transactions' members alone.  The identifiers in the lock words are     *)
(* those drawn from the counter.                                           *)
(***************************************************************************)
EXTENDS TwoPLTransaction, TwoPLExecutor

ASSUME AnyIdMayBeDrawn == Ids = TxnId

rowVars == <<meta, call, holds, txnVars>>
systemVars == <<rowVars, executorVars>>

SystemInit == Init /\ ExecutorInit

-----------------------------------------------------------------------------
(* Between the calls: the transaction's members are copied with it. *)
HandOn == (Generate \/ ExecuteThread \/ MainThread) /\ UNCHANGED rowVars

(* A worker takes a task, and begins execute() when there is an identifier.*)
TakeToDraw(w) ==
    /\ \/ TakeExecuteTask(w) /\ worker'[w] = "draw"
       \/ BeginDraw(w)
    /\ UNCHANGED rowVars

TakeToRun(w) ==
    /\ TakeExecuteTask(w) /\ worker'[w] = "run"
    /\ StartExecute(Oldest("execute_tp"))

RunDrawn(w) == EndDraw(w) /\ StartExecute(Oldest(w))

(* Inside release_read_write_locks, of an abort or of commit_txn. *)
Releasing(t) ==
    InCall(t) \/ ReleaseRead(t) \/ ReadReleased(t) \/ ReadsReleased(t) \/ ReleaseWrite(t)

Executing(w) ==
    /\ worker[w] = "run"
    /\ LET t == Oldest(w) IN
          \/ Update(t) \/ Read(t) \/ LockRefused(t) \/ LockGranted(t) \/ AppendItem(t)
          \/ Releasing(t)
    /\ UNCHANGED executorVars

(* Mutant: a transaction is pushed to the commit queue however execute()   *)
(* returned.                                                               *)
ReturnsReady(w) ==
    \/ Ready(w) /\ ExecuteReturns(Oldest(w))
    \/ Ready(w) /\ Requeue(Oldest(w))

ReturnReady(w) == Ready(w) /\ ExecuteReturns(Oldest(w))

ReturnAbort(w) == Reexecute(w) /\ Requeue(Oldest(w))

StartCommitTxn(c) == TakeCommitTask(c) /\ StartCommit(Oldest("commit_tp"))

Committing(c) ==
    /\ queue[c] # <<>>
    /\ LET t == Oldest(c) IN InstallItem(t) \/ AllInstalled(t) \/ Releasing(t)
    /\ UNCHANGED executorVars

(* Mutant: the task is over when the writes are copied, and another thread *)
(* is left to release the locks.                                           *)
CommitReturnsEarly(c) ==
    /\ CommitReturns(c)
    /\ phase[Oldest(c)] = "commit_writes"
    /\ Goto(Oldest(c), "committed")
    /\ UNCHANGED <<meta, call, holds, query, next, readSet, writeSet, rest, data>>

EndCommitTxn(c) == CommitReturns(c) /\ Committed(Oldest(c))

-----------------------------------------------------------------------------
WorkerStep(w) ==
    \/ TakeToDraw(w) \/ TakeToRun(w) \/ RunDrawn(w)
    \/ Executing(w) \/ ReturnReady(w) \/ ReturnAbort(w)

CommitterStep(c) == StartCommitTxn(c) \/ Committing(c) \/ EndCommitTxn(c)

SystemNext ==
    \/ HandOn
    \/ \E w \in Callers : WorkerStep(w)
    \/ \E c \in Committers : CommitterStep(c)

SystemSpec == SystemInit /\ [][SystemNext]_systemVars

(* Every thread is scheduled for ever.  Nothing is asked of a transaction: *)
(* it moves when a thread takes it.                                        *)
FairSystemSpec ==
    /\ SystemSpec
    /\ WF_systemVars(Generate /\ UNCHANGED rowVars)
    /\ WF_systemVars(ExecuteThread /\ UNCHANGED rowVars)
    /\ WF_systemVars(MainThread /\ UNCHANGED rowVars)
    /\ \A w \in Callers : WF_systemVars(WorkerStep(w))
    /\ \A c \in Committers : WF_systemVars(CommitterStep(c))

-----------------------------------------------------------------------------
(* Properties. *)

(* A transaction is where its phase says: it asks for locks and gives them *)
(* back only in the hands of a worker, and is copied to the table only in  *)
(* those of a commit thread.                                               *)
PlaceOfPhase(t, p) ==
    \/ /\ phase[t] = "queued"
       /\ \/ p \in {"generate", "execute", "execute_thread", "execute_tp"}
          \/ p \in Callers /\ worker[p] \in {"draw", "load"}
    \/ /\ phase[t] \in {"execute", "granted", "abort_reads", "abort_writes"}
       /\ p \in Callers /\ worker[p] = "run"
    \/ phase[t] = "ready" /\ p \in {"commit", "main_thread", "commit_tp"}
    \/ phase[t] \in {"install", "commit_reads", "commit_writes"} /\ p \in Committers
    \/ phase[t] = "committed" /\ p = "committed"

PhaseInPlace == \A t \in Txns : \A p \in Places : In(t, p) => PlaceOfPhase(t, p)

(* The locks travel with the transaction: one that waits to be executed,   *)
(* for the first time or again, has none, and neither has one that is      *)
(* committed, whichever threads handed it on; one that waits to be         *)
(* committed has all the locks of its query; and a lock is only asked for  *)
(* or given back by the thread that holds the transaction.                 *)
LocksTravel == \A t \in Txns, p \in Places : In(t, p) =>
    /\ p \in {"generate", "execute", "execute_thread", "execute_tp", "committed"}
          => \A k \in Keys : holds[t][k] = "none"
    /\ p \in {"commit", "main_thread", "commit_tp"}
          => \A i \in DOMAIN query[t] : holds[t][query[t][i].key] = OpMode(query[t][i])
    /\ p \notin Callers \cup Committers => call[t] = NoCall

(* A request for a row nobody reads is refused only because of another     *)
(* transaction that is being executed or on its way through commit, which  *)
(* owns the row at that very moment: no transaction in the execute queue,  *)
(* and none that has committed, is ever in the way of another.             *)
UnderWay == Callers \cup Committers \cup {"commit", "main_thread", "commit_tp"}

RefusedByOneUnderWay == [][\A t \in Txns :
    /\ phase[t] = "execute" /\ phase'[t] = "abort_reads"
    /\ CurrentOp(t).key \in WriteOnlyKeys
    => \E u \in Txns \ {t}, p \in UnderWay :
           In(u, p) /\ Owns(u, CurrentOp(t).key)]_systemVars

(* The transactions commit one after the other in the order in which they  *)
(* became ready, although threads of the commit pool copy their rows at    *)
(* the same time: a row nobody reads holds, or is about to hold, the value *)
(* of the last transaction in that order that writes it.                   *)
Writers(k) == {i \in DOMAIN startOrder : k \in WriteKeys[startOrder[i]]}

SerialInReadyOrder ==
    /\ \A i \in DOMAIN startOrder :
          i \in DOMAIN readyOrder /\ startOrder[i] = readyOrder[i]
    /\ \A k \in WriteOnlyKeys :
          IF Writers(k) = {} THEN LogicalStore[k] = NoTxn
          ELSE \E i \in Writers(k) : /\ LogicalStore[k] = startOrder[i]
                                     /\ \A j \in Writers(k) : j <= i

(* The composition is a run of the transactions, and a run of the threads. *)
TransactionsRun == Spec
ThreadsRun == ExecutorSpec

(* NO_WAIT promises no transaction that it commits: two that ask for two   *)
(* rows in opposite orders may refuse each other for ever, and a row that  *)
(* is read may stay locked by nobody.  But where the queries only update   *)
(* and name the rows in one order, every transaction commits, however      *)
(* often it is refused and whichever thread takes it.                      *)
OnlyUpdates == \A t \in Txns : \A i \in DOMAIN query[t] : query[t][i].update

InOneOrder == \E rank \in [Keys -> 1 .. Cardinality(Keys)] :
    \A t \in Txns : \A i, j \in DOMAIN query[t] :
        i < j => rank[query[t][i].key] < rank[query[t][j].key]

AllCommit ==
    OnlyUpdates /\ InOneOrder => \A t \in Txns : <>In(t, "committed")

=================================================================================
