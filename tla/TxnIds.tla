--------------------------------- MODULE TxnIds ---------------------------------
(***************************************************************************)
(* The member txn_id of TwoPLTransaction, which names a transaction in the *)
(* lock words.  It is a uint32_t, and 0xffffffff from the constructor on,  *)
(* until the worker that first executes the transaction draws another.     *)
(***************************************************************************)
EXTENDS Naturals

CONSTANTS Txns,        \* the transactions
          IdLimit      \* 2^32 in the code

ASSUME IdAssumption == IdLimit \in Nat /\ IdLimit > 1

VARIABLE txn_id

TxnId == 0 .. IdLimit - 1

(* 0xffffffff *)
NoId == IdLimit - 1

=================================================================================
