------------------------------- MODULE Determinism -------------------------------
(***************************************************************************)
(* Two executions of the same workload by TwoPLTransaction, one after the  *)
(* other, from the same initial database: the second starts when the first *)
(* has committed everything.  A deterministic concurrency control          *)
(* algorithm leaves both databases equal.                                  *)
(***************************************************************************)
EXTENDS Naturals

CONSTANTS Txns, Keys, Modes, Queries, Ids, NoTxn, ReaderLimit, IdLimit

VARIABLES
    query,
    txn_id1, meta1, call1, holds1, phase1, next1, readSet1, writeSet1, rest1, data1,
    txn_id2, meta2, call2, holds2, phase2, next2, readSet2, writeSet2, rest2, data2

first == <<txn_id1, meta1, call1, holds1, phase1, next1, readSet1, writeSet1,
           rest1, data1>>
second == <<txn_id2, meta2, call2, holds2, phase2, next2, readSet2, writeSet2,
            rest2, data2>>

First == INSTANCE TwoPLTransaction WITH
    txn_id <- txn_id1, meta <- meta1, call <- call1, holds <- holds1,
    phase <- phase1, next <- next1, readSet <- readSet1, writeSet <- writeSet1, rest <- rest1, data <- data1

Second == INSTANCE TwoPLTransaction WITH
    txn_id <- txn_id2, meta <- meta2, call <- call2, holds <- holds2,
    phase <- phase2, next <- next2, readSet <- readSet2, writeSet <- writeSet2, rest <- rest2, data <- data2

FirstDone == \A t \in Txns : phase1[t] = "committed"
SecondDone == \A t \in Txns : phase2[t] = "committed"

Init == First!Init /\ Second!Init

Next == \/ First!Next /\ UNCHANGED second
        \/ FirstDone /\ Second!Next /\ UNCHANGED first

Spec == Init /\ [][Next]_<<query, first, second>>

(* What the README says of the algorithm, "deterministic": the workload    *)
(* alone decides what the database holds once every transaction has        *)
(* committed.                                                              *)
Deterministic == FirstDone /\ SecondDone => data1 = data2

=================================================================================
