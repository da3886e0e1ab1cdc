------------------------------- MODULE SerialStore -------------------------------
(***************************************************************************)
(* What the transaction system promises for the rows its transactions      *)
(* write: each transaction commits once, in one step that installs all of  *)
(* its writes, and nothing else changes a row.  The value a transaction    *)
(* writes is named by the transaction.                                     *)
(***************************************************************************)
CONSTANTS Txns, Keys, NoTxn

VARIABLES
    store,        \* store[k]: the transaction whose write row k holds
    writes,       \* writes[t]: the rows transaction t is to write
    committed     \* the transactions that have committed

serialVars == <<store, writes, committed>>

SerialInit ==
    /\ store = [k \in Keys |-> NoTxn]
    /\ writes \in [Txns -> SUBSET Keys]
    /\ committed = {}

Commit(t) ==
    /\ t \notin committed
    /\ committed' = committed \cup {t}
    /\ store' = [k \in Keys |-> IF k \in writes[t] THEN t ELSE store[k]]
    /\ UNCHANGED writes

SerialNext == \E t \in Txns : Commit(t)

SerialSpec == SerialInit /\ [][SerialNext]_serialVars

=================================================================================
