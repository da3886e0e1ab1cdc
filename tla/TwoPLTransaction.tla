---------------------------- MODULE TwoPLTransaction ----------------------------
(***************************************************************************)
(* The life of a transaction: YTransaction::execute of                     *)
(* benchmark/YCSB/YTransaction.h, the read, update and release functions   *)
(* of protocol/TwoPL/TwoPLTransaction.h it calls, and commit_txn of        *)
(* protocol/TwoPL/TwoPLExecutor.h, on top of the lock words of             *)
(* TwoPLHelper.                                                            *)
(*                                                                         *)
(* A transaction waits in the execute queue, runs its query one operation  *)
(* after the other, each under a lock asked for without waiting, and       *)
(* either is refused a lock, releases what it has and goes back to the     *)
(* execute queue, or goes on to the commit queue, from which its writes    *)
(* are copied into the table and its locks released.  Any number of        *)
(* transactions may be in any of these phases; TwoPLExecutor says which    *)
(* thread runs them.                                                       *)
(*                                                                         *)
(* The values of the rows are abstracted to the transaction that wrote     *)
(* them: a retry writes fresh random strings, but only the attempt that    *)
(* reaches the commit queue is ever copied.                                *)
(***************************************************************************)
EXTENDS TwoPLHelper, Sequences, Functions

CONSTANTS Queries,    \* the workloads considered: functions from Txns to queries
          Ids,        \* the identifiers the counter may hand out
          NoTxn       \* names the initial value of a row

Operation == [update : BOOLEAN, key : Keys]

(* A query names every row at most once (YQuery draws keys until a new one *)
(* comes up).                                                              *)
DistinctKeys(q) == \A i, j \in DOMAIN q : q[i].key = q[j].key => i = j

OpMode(o) == IF o.update THEN "write" ELSE "read"

ASSUME TransactionAssumption ==
    /\ NoTxn \notin Txns
    /\ Ids \subseteq TxnId
    /\ Queries \subseteq [Txns -> Seq(Operation)]
    /\ \A w \in Queries : \A t \in Txns :
          /\ DistinctKeys(w[t])
          /\ \A i \in DOMAIN w[t] : OpMode(w[t][i]) \in Modes[w[t][i].key]

VARIABLES
    query,       \* the query of each transaction
    phase,       \* where each transaction is, see Phases
    next,        \* the operation execute() is at
    readSet,     \* the rows in read_set, in order
    writeSet,    \* the rows in write_set, in order
    rest,        \* the items the current loop over a set still has to visit
    data         \* data[k]: the transaction whose value row k holds

txnVars == <<query, phase, next, readSet, writeSet, rest, data>>
vars == <<helperVars, txnVars>>

Phases == {"queued",           \* on its way through _ready_execute_queue
           "execute",          \* at operation next, before its lock is granted
           "granted",          \* at operation next, its lock granted
           "abort_reads",      \* refused: releasing the locks of read_set
           "abort_writes",     \* refused: releasing the locks of write_set
           "ready",            \* on its way through _ready_commit_queue
           "install",          \* commit_txn: copying the write_set to the table
           "commit_reads",     \* commit_txn: releasing the locks of read_set
           "commit_writes",    \* commit_txn: releasing the locks of write_set
           "committed"}

TypeOK ==
    /\ HelperTypeOK
    /\ query \in Queries
    /\ phase \in [Txns -> Phases]
    /\ next \in [Txns -> Nat \ {0}]
    /\ readSet \in [Txns -> Seq(Keys)]
    /\ writeSet \in [Txns -> Seq(Keys)]
    /\ rest \in [Txns -> Seq(Keys)]
    /\ data \in [Keys -> Txns \cup {NoTxn}]

Init ==
    /\ HelperInit
    /\ query \in Queries
    /\ phase = [t \in Txns |-> "queued"]
    /\ next = [t \in Txns |-> 1]
    /\ readSet = [t \in Txns |-> <<>>]
    /\ writeSet = [t \in Txns |-> <<>>]
    /\ rest = [t \in Txns |-> <<>>]
    /\ data = [k \in Keys |-> NoTxn]

Goto(t, p) == phase' = [phase EXCEPT ![t] = p]

(* A loop over the items of set begins; the phase after its last item.     *)
Loop(t, p, set) ==
    /\ Goto(t, p)
    /\ rest' = [rest EXCEPT ![t] = set]

-----------------------------------------------------------------------------
(* YTransaction::execute *)

(* A worker gives a transaction that has no identifier the one it drew. *)
Identify(t) ==
    \E id \in IF txn_id[t] = NoId THEN Ids ELSE {txn_id[t]} :
        txn_id' = [txn_id EXCEPT ![t] = id]

(* Mutant: the sets of the previous attempt are not cleared. *)
StartExecuteKeepsSets(t) ==
    /\ phase[t] = "queued"
    /\ Identify(t)
    /\ Goto(t, "execute")
    /\ next' = [next EXCEPT ![t] = 1]
    /\ UNCHANGED <<meta, call, holds, query, readSet, writeSet, rest, data>>

(* The worker then calls execute(), which clears the sets of the previous  *)
(* attempt.                                                                *)
StartExecute(t) ==
    /\ phase[t] = "queued"
    /\ Identify(t)
    /\ Goto(t, "execute")
    /\ next' = [next EXCEPT ![t] = 1]
    /\ readSet' = [readSet EXCEPT ![t] = <<>>]
    /\ writeSet' = [writeSet EXCEPT ![t] = <<>>]
    /\ UNCHANGED <<meta, call, holds, query, rest, data>>

CurrentOp(t) == query[t][next[t]]

AtOperation(t) == phase[t] = "execute" /\ next[t] \in DOMAIN query[t]

(* update() and read() begin with the request for the row's lock. *)
Update(t) ==
    /\ AtOperation(t)
    /\ CurrentOp(t).update
    /\ set_write_lock_bits(t, CurrentOp(t).key)
    /\ UNCHANGED txnVars

Read(t) ==
    /\ AtOperation(t)
    /\ ~CurrentOp(t).update
    /\ set_read_lock_bits(t, CurrentOp(t).key)
    /\ UNCHANGED txnVars

RequestOp(o) == IF o.update THEN "set_write" ELSE "set_read"

(* The request returns false: the locks of both sets are released. *)
LockRefused(t) ==
    /\ AtOperation(t)
    /\ RequestRefused(t, RequestOp(CurrentOp(t)), CurrentOp(t).key)
    /\ Loop(t, "abort_reads", readSet[t])
    /\ UNCHANGED <<query, next, readSet, writeSet, data>>

(* The request returns true. *)
LockGranted(t) ==
    /\ AtOperation(t)
    /\ StoreMeta(t)
    /\ Goto(t, "granted")
    /\ UNCHANGED <<query, next, readSet, writeSet, rest, data>>

(* append_write_set and append_read_set.  The query names a row once, so   *)
(* no item of the sets has its key and an item is appended.  The value     *)
(* append_read_set copies out of the table is not used by the caller.      *)
AppendItem(t) ==
    /\ phase[t] = "granted"
    /\ IF CurrentOp(t).update
       THEN /\ writeSet' = [writeSet EXCEPT ![t] = Append(@, CurrentOp(t).key)]
            /\ UNCHANGED readSet
       ELSE /\ readSet' = [readSet EXCEPT ![t] = Append(@, CurrentOp(t).key)]
            /\ UNCHANGED writeSet
    /\ next' = [next EXCEPT ![t] = @ + 1]
    /\ Goto(t, "execute")
    /\ UNCHANGED <<helperVars, query, rest, data>>

(* Mutant: the loop over the operations ends one too early. *)
ExecuteReturnsEarly(t) ==
    /\ phase[t] = "execute"
    /\ next[t] = Len(query[t])
    /\ Goto(t, "ready")
    /\ UNCHANGED <<helperVars, query, next, readSet, writeSet, rest, data>>

(* Every operation is done: READY_TO_COMMIT, pushed to the commit queue. *)
ExecuteReturns(t) ==
    /\ phase[t] = "execute"
    /\ next[t] = Len(query[t]) + 1
    /\ Goto(t, "ready")
    /\ UNCHANGED <<helperVars, query, next, readSet, writeSet, rest, data>>

-----------------------------------------------------------------------------
(* TwoPLExecutor::commit_txn *)

StartCommit(t) ==
    /\ phase[t] = "ready"
    /\ Loop(t, "install", writeSet[t])
    /\ UNCHANGED <<helperVars, query, next, readSet, writeSet, data>>

(* memcpy of one write item over the row's value. *)
InstallItem(t) ==
    /\ phase[t] = "install"
    /\ rest[t] # <<>>
    /\ data' = [data EXCEPT ![Head(rest[t])] = t]
    /\ rest' = [rest EXCEPT ![t] = Tail(@)]
    /\ UNCHANGED <<helperVars, query, phase, next, readSet, writeSet>>

(* Mutant: commit_txn leaves the loop over the write set before its end. *)
AllInstalledEarly(t) ==
    /\ phase[t] = "install"
    /\ Loop(t, "commit_reads", readSet[t])
    /\ UNCHANGED <<helperVars, query, next, readSet, writeSet, data>>

AllInstalled(t) ==
    /\ phase[t] = "install"
    /\ rest[t] = <<>>
    /\ Loop(t, "commit_reads", readSet[t])
    /\ UNCHANGED <<helperVars, query, next, readSet, writeSet, data>>

-----------------------------------------------------------------------------
(* release_read_write_locks, called for read_set and then for write_set,   *)
(* by a refused request and by commit_txn.  It walks a copy of the set.    *)

ReleaseRead(t) ==
    /\ phase[t] \in {"abort_reads", "commit_reads"}
    /\ rest[t] # <<>>
    /\ release_read_lock_bits(t, Head(rest[t]))
    /\ rest' = [rest EXCEPT ![t] = Tail(@)]
    /\ UNCHANGED <<query, phase, next, readSet, writeSet, data>>

ReadReleased(t) ==
    /\ phase[t] \in {"abort_reads", "commit_reads"}
    /\ StoreMeta(t)
    /\ UNCHANGED txnVars

(* Mutant: a refused request releases the locks of read_set only. *)
ReadsReleasedOnly(t) ==
    /\ phase[t] \in {"abort_reads", "commit_reads"}
    /\ rest[t] = <<>> /\ call[t] = NoCall
    /\ IF phase[t] = "abort_reads"
       THEN Goto(t, "queued") /\ UNCHANGED rest
       ELSE Loop(t, "commit_writes", writeSet[t])
    /\ UNCHANGED <<helperVars, query, next, readSet, writeSet, data>>

ReadsReleased(t) ==
    /\ phase[t] \in {"abort_reads", "commit_reads"}
    /\ rest[t] = <<>> /\ call[t] = NoCall
    /\ Loop(t, IF phase[t] = "abort_reads" THEN "abort_writes" ELSE "commit_writes",
            writeSet[t])
    /\ UNCHANGED <<helperVars, query, next, readSet, writeSet, data>>

ReleaseWrite(t) ==
    /\ phase[t] \in {"abort_writes", "commit_writes"}
    /\ rest[t] # <<>>
    /\ release_write_lock_bits(t, Head(rest[t]))
    /\ rest' = [rest EXCEPT ![t] = Tail(@)]
    /\ UNCHANGED <<query, phase, next, readSet, writeSet, data>>

(* ABORT: the worker pushes the transaction back to the execute queue. *)
Requeue(t) ==
    /\ phase[t] = "abort_writes"
    /\ rest[t] = <<>>
    /\ Goto(t, "queued")
    /\ UNCHANGED <<helperVars, query, next, readSet, writeSet, rest, data>>

Committed(t) ==
    /\ phase[t] = "commit_writes"
    /\ rest[t] = <<>>
    /\ Goto(t, "committed")
    /\ UNCHANGED <<helperVars, query, next, readSet, writeSet, rest, data>>

-----------------------------------------------------------------------------

(* The steps of a helper call between its first and its last. *)
InCall(t) == (Reload(t) \/ CasSucceeds(t) \/ CasFails(t)) /\ UNCHANGED txnVars

ExecuteStep(t) ==
    StartExecute(t) \/ Update(t) \/ Read(t) \/ LockRefused(t) \/ LockGranted(t)
        \/ AppendItem(t) \/ ExecuteReturns(t)

CommitStep(t) == StartCommit(t) \/ InstallItem(t) \/ AllInstalled(t)

ReleaseStep(t) ==
    ReleaseRead(t) \/ ReadReleased(t) \/ ReadsReleased(t) \/ ReleaseWrite(t)
        \/ Requeue(t) \/ Committed(t)

TxnStep(t) == InCall(t) \/ ExecuteStep(t) \/ CommitStep(t) \/ ReleaseStep(t)

Next == \E t \in Txns : TxnStep(t)

Spec == Init /\ [][Next]_vars

-----------------------------------------------------------------------------
(* Properties. *)

Requested(t, update) ==
    IF phase[t] = "granted" /\ CurrentOp(t).update = update
    THEN {CurrentOp(t).key} ELSE {}

(* The locks a transaction should have, read off its own bookkeeping.      *)
ReadLocks(t) ==
    CASE phase[t] \in {"execute", "granted", "ready", "install"} ->
            Range(readSet[t]) \cup Requested(t, FALSE)
      [] phase[t] \in {"abort_reads", "commit_reads"} -> Range(rest[t])
      [] OTHER -> {}

WriteLocks(t) ==
    CASE phase[t] \in {"execute", "granted", "ready", "install",
                       "abort_reads", "commit_reads"} ->
            Range(writeSet[t]) \cup Requested(t, TRUE)
      [] phase[t] \in {"abort_writes", "commit_writes"} -> Range(rest[t])
      [] OTHER -> {}

(* The locks granted to a transaction are those its sets lead back to,     *)
(* through every abort, retry and commit: none is leaked by a transaction  *)
(* that goes back to the queue or finishes, and none is released that was  *)
(* not granted.  In the code only the sets remember the locks, and the     *)
(* same release loop is reached from a refused read, a refused update and  *)
(* commit_txn.                                                             *)
LocksMatchSets == \A t \in Txns :
    /\ {k \in Keys : holds[t][k] = "read"}  = ReadLocks(t)
    /\ {k \in Keys : holds[t][k] = "write"} = WriteLocks(t)

(* Why, as an inductive invariant: the sets hold the rows of the           *)
(* operations done, each once; a loop visits items of its own set; and a   *)
(* helper call in progress is the request of the operation at hand or the  *)
(* release of a row no longer counted as locked.                           *)
Done(t, update) ==
    {query[t][i].key : i \in {j \in 1 .. next[t] - 1 : query[t][j].update = update}}

SetsFollowQuery(t) ==
    /\ next[t] \in 1 .. Len(query[t]) + 1
    /\ phase[t] = "granted" => next[t] \in DOMAIN query[t]
    /\ phase[t] \in {"ready", "install"} => next[t] = Len(query[t]) + 1
    /\ Range(readSet[t]) = Done(t, FALSE)
    /\ Range(writeSet[t]) = Done(t, TRUE)
    /\ IsInjective(readSet[t]) /\ IsInjective(writeSet[t])

RestWithinSet(t) ==
    /\ IsInjective(rest[t])
    /\ phase[t] \in {"abort_reads", "commit_reads"}
          => Range(rest[t]) \subseteq Range(readSet[t])
    /\ phase[t] \in {"install", "abort_writes", "commit_writes"}
          => Range(rest[t]) \subseteq Range(writeSet[t])

CallInPlace(t) == call[t] # NoCall =>
    \/ /\ AtOperation(t)
       /\ call[t].op = RequestOp(CurrentOp(t))
       /\ call[t].key = CurrentOp(t).key
    \/ /\ phase[t] \in {"abort_reads", "commit_reads"}
       /\ call[t].op = "release_read"
       /\ holds[t][call[t].key] = "none"

TxnInv ==
    /\ \A t \in Txns : SetsFollowQuery(t) /\ RestWithinSet(t) /\ CallInPlace(t)
    /\ LocksMatchSets

(* A transaction reaches the commit queue, and its writes the table, only  *)
(* with the locks of its whole query, each in the mode of its operation.   *)
CommitsFullyLocked == \A t \in Txns : phase[t] \in {"ready", "install"} =>
    \A i \in DOMAIN query[t] :
        holds[t][query[t][i].key] = OpMode(query[t][i])

(* The transactions obey the contract under which TwoPLHelper is           *)
(* specified: no transaction asks for a row it already has, or releases    *)
(* one it does not have or has in the other mode.                          *)
KeepsContract == HelperSpec

(* A row changes only by a transaction that was granted its write lock;    *)
(* if nobody reads the row, no other transaction has a lock on it then.    *)
InstallsUnderLock == [][\A k \in Keys : data'[k] # data[k] =>
    \E t \in Txns :
        /\ data'[k] = t
        /\ holds[t][k] = "write"
        /\ k \in WriteOnlyKeys => \A u \in Txns \ {t} : holds[u][k] = "none"]_vars

(* Once a transaction has copied its writes, each of those rows holds the  *)
(* value of a transaction that updates it, and keeps doing so: no row goes *)
(* back to its initial value or gets one from elsewhere, whoever reads it. *)
(* So when all have committed, a row that one transaction updates has one  *)
(* value it can have: this far the workload alone decides the database.    *)
Updaters(k) == {t \in Txns :
    \E i \in DOMAIN query[t] : query[t][i].update /\ query[t][i].key = k}

Copied(t) == phase[t] \in {"commit_reads", "commit_writes", "committed"}

UpdatesStay == \A k \in Keys :
    /\ data[k] \in Updaters(k) \cup {NoTxn}
    /\ (\E t \in Updaters(k) : Copied(t)) => data[k] # NoTxn

(* The commit point of a transaction is the start of commit_txn: from then *)
(* on the rows it is still to copy are as good as written, since nobody    *)
(* else can lock them.  Seen from there, transactions that conflict on     *)
(* rows nobody reads execute as in SerialStore, one after the other.       *)
Decided(t) == phase[t] \in {"install", "commit_reads", "commit_writes", "committed"}

Pending(t, k) == phase[t] = "install" /\ k \in Range(rest[t])

LogicalStore == [k \in WriteOnlyKeys |->
    IF \E t \in Txns : Pending(t, k)
    THEN CHOOSE t \in Txns : Pending(t, k)
    ELSE data[k]]

WriteKeys == [t \in Txns |-> {k \in WriteOnlyKeys :
    \E i \in DOMAIN query[t] : query[t][i].update /\ query[t][i].key = k}]

DecidedTxns == {t \in Txns : Decided(t)}

Serial == INSTANCE SerialStore WITH
    Keys      <- WriteOnlyKeys,
    store     <- LogicalStore,
    writes    <- WriteKeys,
    committed <- DecidedTxns

ImplementsSerialStore == Serial!SerialSpec


=================================================================================
