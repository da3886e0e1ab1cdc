------------------------------ MODULE TwoPLHelper ------------------------------
(***************************************************************************)
(* protocol/TwoPL/TwoPLHelper.h, NO_WAIT build (Config.h): the four static *)
(* functions that lock and unlock a row by updating its metadata word.     *)
(*                                                                         *)
(* Three of them are the same loop                                         *)
(*                                                                         *)
(*     do { meta = load(); ... new_meta = ...; }                           *)
(*     while (!compare_exchange_strong(meta, new_meta));                   *)
(*     store(new_meta);                                                    *)
(*                                                                         *)
(* and each access to the atomic is a step here: LoadMeta, CasSucceeds or  *)
(* CasFails, StoreMeta.  The second, unconditional store is part of the    *)
(* code: other threads run between the exchange and the store.  The fourth *)
(* function is a single fetch_and.                                         *)
(*                                                                         *)
(* A transaction is run by one thread at a time, so the callers are named  *)
(* by their transaction.  holds records what the calls have returned:      *)
(* holds[t][k] is "write" or "read" from the return of a successful        *)
(* request to the start of the matching release.                           *)
(***************************************************************************)
EXTENDS LockWord

CONSTANTS Keys,     \* the rows
          Modes     \* Modes[k]: the lock modes some transaction asks of row k

ASSUME HelperAssumption == Modes \in [Keys -> SUBSET {"read", "write"}]

VARIABLES
    meta,      \* the metadata word of each row
    call,      \* the registers of the helper call each transaction is in
    holds      \* the locks the helper has reported to each transaction

helperVars == <<meta, call, holds, txn_id>>

NoCall == [at |-> "idle"]

Call == [at  : {"load", "cas", "store"},
         op  : {"set_write", "set_read", "release_read"},
         key : Keys,
         old : Word,
         new : Word]

HelperTypeOK ==
    /\ meta \in [Keys -> Word]
    /\ call \in [Txns -> Call \cup {NoCall}]
    /\ holds \in [Txns -> [Keys -> {"none", "read", "write"}]]
    /\ txn_id \in [Txns -> TxnId]

HelperInit ==
    /\ meta  = [k \in Keys |-> Free]
    /\ call  = [t \in Txns |-> NoCall]
    /\ holds = [t \in Txns |-> [k \in Keys |-> "none"]]
    /\ txn_id = [t \in Txns |-> NoId]

-----------------------------------------------------------------------------
(* One iteration of the loops. *)

(* Mutant: a write request tests the read bit only. *)
RefusedUnlessRead(op, m) ==
    \/ op = "set_write" /\ m.read
    \/ op = "set_read"  /\ m.write

(* The tests that make a request return false. *)
Refused(op, m) ==
    \/ op = "set_write" /\ (m.write \/ m.read)
    \/ op = "set_read"  /\ m.write

(* What an iteration may compute as new_meta. *)
NewWords(t, op, m) ==
    CASE op = "set_write"    -> {WithWriter(m, txn_id[t])}
      [] op = "set_read"     -> {WithReader(m)}
      [] op = "release_read" -> WithoutReader(m)

LoadMeta(t, op, k) ==
    /\ ~Refused(op, meta[k])
    /\ \E w \in NewWords(t, op, meta[k]) :
          call' = [call EXCEPT ![t] = [at |-> "cas", op |-> op, key |-> k,
                                       old |-> meta[k], new |-> w]]
    /\ UNCHANGED <<meta, txn_id>>

(* A failed exchange goes back to the load at the head of the loop. *)
Reload(t) ==
    /\ call[t].at = "load"
    /\ LoadMeta(t, call[t].op, call[t].key)
    /\ UNCHANGED holds

(* A request finds the row locked, at the first load or at a later one. *)
RequestRefused(t, op, k) ==
    /\ \/ call[t] = NoCall
       \/ call[t].at = "load" /\ call[t].op = op /\ call[t].key = k
    /\ Refused(op, meta[k])
    /\ call' = [call EXCEPT ![t] = NoCall]
    /\ UNCHANGED <<meta, holds, txn_id>>

(* Mutant: a store in place of the exchange. *)
StoresBlindly(t) ==
    /\ call[t].at = "cas"
    /\ meta' = [meta EXCEPT ![call[t].key] = call[t].new]
    /\ call' = [call EXCEPT ![t].at = "store"]
    /\ UNCHANGED <<holds, txn_id>>

CasSucceeds(t) ==
    /\ call[t].at = "cas"
    /\ meta[call[t].key] = call[t].old
    /\ meta' = [meta EXCEPT ![call[t].key] = call[t].new]
    /\ call' = [call EXCEPT ![t].at = "store"]
    /\ UNCHANGED <<holds, txn_id>>

CasFails(t) ==
    /\ call[t].at = "cas"
    /\ meta[call[t].key] # call[t].old
    /\ call' = [call EXCEPT ![t].at = "load"]
    /\ UNCHANGED <<meta, holds, txn_id>>

(* The store after the loop, and the return to the caller. *)
StoreMeta(t) ==
    /\ call[t].at = "store"
    /\ meta' = [meta EXCEPT ![call[t].key] = call[t].new]
    /\ call' = [call EXCEPT ![t] = NoCall]
    /\ holds' = [holds EXCEPT ![t][call[t].key] =
                    CASE call[t].op = "set_write"    -> "write"
                      [] call[t].op = "set_read"     -> "read"
                      [] call[t].op = "release_read" -> "none"]
    /\ UNCHANGED txn_id

-----------------------------------------------------------------------------
(* The first step of each function. *)

set_write_lock_bits(t, k) ==
    /\ call[t] = NoCall
    /\ LoadMeta(t, "set_write", k)
    /\ UNCHANGED holds

set_read_lock_bits(t, k) ==
    /\ call[t] = NoCall
    /\ LoadMeta(t, "set_read", k)
    /\ UNCHANGED holds

release_read_lock_bits(t, k) ==
    /\ call[t] = NoCall
    /\ LoadMeta(t, "release_read", k)
    /\ holds' = [holds EXCEPT ![t][k] = "none"]

release_write_lock_bits(t, k) ==
    /\ call[t] = NoCall
    /\ meta' = [meta EXCEPT ![k] = WithoutWriter(@)]
    /\ holds' = [holds EXCEPT ![t][k] = "none"]
    /\ UNCHANGED <<call, txn_id>>

(* Any step of a call after its first. *)
CallStep(t) == Reload(t) \/ CasSucceeds(t) \/ CasFails(t) \/ StoreMeta(t)

-----------------------------------------------------------------------------
(***************************************************************************)
(* The callers' side of the contract: a transaction asks for a row at most *)
(* once, in a mode Modes allows, gives back only what it was granted, and  *)
(* is renamed only while it has no lock and waits for none.                *)
(* TwoPLTransaction is shown to keep it.                                   *)
(***************************************************************************)
AskWrite(t, k) ==
    /\ "write" \in Modes[k]
    /\ holds[t][k] = "none"
    /\ set_write_lock_bits(t, k) \/ RequestRefused(t, "set_write", k)

AskRead(t, k) ==
    /\ "read" \in Modes[k]
    /\ holds[t][k] = "none"
    /\ set_read_lock_bits(t, k) \/ RequestRefused(t, "set_read", k)

GiveBack(t, k) ==
    \/ holds[t][k] = "read"  /\ release_read_lock_bits(t, k)
    \/ holds[t][k] = "write" /\ release_write_lock_bits(t, k)

Name(t) ==
    /\ call[t] = NoCall
    /\ \A k \in Keys : holds[t][k] = "none"
    /\ \E id \in TxnId : txn_id' = [txn_id EXCEPT ![t] = id]
    /\ UNCHANGED <<meta, call, holds>>

HelperNext == \E t \in Txns :
    \/ \E k \in Keys : AskWrite(t, k) \/ AskRead(t, k) \/ GiveBack(t, k)
    \/ CallStep(t)
    \/ Name(t)

HelperSpec == HelperInit /\ [][HelperNext]_helperVars

-----------------------------------------------------------------------------
(* Properties. *)

(* The rows nobody asks to read. *)
WriteOnlyKeys == {k \in Keys : "read" \notin Modes[k]}

Excludes(k) == \A t, u \in Txns :
    t # u /\ holds[t][k] = "write" => holds[u][k] = "none"

(* A transaction that was told it has the write lock of a row that nobody  *)
(* reads is alone on that row, whatever happens on the other rows: the     *)
(* exchange of set_write_lock_bits decides between concurrent writers and  *)
(* its second store repeats a value no other writer can have replaced.     *)
WritersExcluded == \A k \in WriteOnlyKeys : Excludes(k)

(* On those rows the word tells the truth: while a transaction has the     *)
(* write lock, bit 0 is set and the txn-id field of the layout comment is  *)
(* the holder's identifier, and once nobody holds or is taking the lock    *)
(* the word is what the row was inserted with.                             *)
WordNamesWriter == \A k \in WriteOnlyKeys :
    /\ \A t \in Txns : holds[t][k] = "write"
                        => meta[k].write /\ meta[k].txn = txn_id[t]
    /\ (\A t \in Txns : holds[t][k] = "none" /\ call[t] = NoCall)
          => meta[k] = Free

(* Why, as an inductive invariant.  A transaction owns a row from its      *)
(* successful exchange on, before it is told so; the row has an owner      *)
(* exactly while bit 0 is set, never two of them, and no step of anyone    *)
(* else changes the word meanwhile, so the owner's second store is idle.   *)
Owns(t, k) ==
    \/ holds[t][k] = "write"
    \/ call[t].at = "store" /\ call[t].key = k

WriteRequest(t, k) ==
    /\ call[t].op = "set_write"
    /\ holds[t][k] = "none"
    /\ call[t].at = "cas"   => /\ ~call[t].old.write
                               /\ call[t].new = WithWriter(call[t].old, txn_id[t])
    /\ call[t].at = "store" => meta[k] = call[t].new

OwnerInv == \A k \in WriteOnlyKeys :
    /\ ~meta[k].read /\ meta[k].readers = 0
    /\ ~meta[k].write => meta[k].txn = 0
    /\ meta[k].write => \E t \in Txns : Owns(t, k)
    /\ \A t \in Txns :
          /\ holds[t][k] # "read"
          /\ call[t] # NoCall /\ call[t].key = k => WriteRequest(t, k)
          /\ Owns(t, k) => meta[k].write /\ meta[k].txn = txn_id[t]
    /\ \A t, u \in Txns : Owns(t, k) /\ Owns(u, k) => t = u

(* Seen through what the callers are told, the words of those rows are the *)
(* reader/writer locks of RWLock: no step grants a lock RWLock would not.  *)
Locks == INSTANCE RWLock WITH
    Keys  <- WriteOnlyKeys,
    holds <- [t \in Txns |-> [k \in WriteOnlyKeys |-> holds[t][k]]]

ImplementsRWLock == Locks!RWSpec

(***************************************************************************)
(* What the comments of the file say of every row, and the code does not   *)
(* do: see the README and the runs that refute them.                       *)
(***************************************************************************)

(* "is read or write locked ?" before a write lock, "is write locked ?"    *)
(* before a read lock: no request is granted while another transaction     *)
(* holds the row in a conflicting mode.                                    *)
LocksExclude == \A k \in Keys : Excludes(k)

(* The layout comment's txn-id, bits 63..32, apart from bits 31..24: where *)
(* nobody writes, counting readers does not touch the txn-id field.        *)
TxnIdUntouched == \A k \in Keys :
    "write" \notin Modes[k] => meta[k].txn = 0

=================================================================================
