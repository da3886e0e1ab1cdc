-------------------------------- MODULE LockWord --------------------------------
(***************************************************************************)
(* The metadata word of a row: the std::atomic<uint64_t> that              *)
(* protocol/TwoPL/TwoPLHelper.h uses as a reader/writer lock.  The word is *)
(* a record of the fields its layout comment names:                        *)
(*                                                                         *)
(*    bits 63..32  txn      identifier of the writer                       *)
(*    bits 31..24  readers  number of read locks                           *)
(*    bit  1       read     some transaction has read-locked the row       *)
(*    bit  0       write    a transaction has write-locked the row         *)
(*                                                                         *)
(* Bits 2..23 are zero from YTable::initialize_table on and no operation   *)
(* of the NO_WAIT build sets them.  The two numeric fields keep their      *)
(* width: ReaderLimit stands for 2^8 and IdLimit for 2^32, and an addition *)
(* that overflows the first carries into the second, as it does in the     *)
(* word.                                                                   *)
(***************************************************************************)
EXTENDS TxnIds

CONSTANT ReaderLimit     \* 2^8 in the code: the counter wraps there

ASSUME ReadersAssumption == ReaderLimit \in Nat /\ ReaderLimit > 1

Word == [write   : BOOLEAN,
         read    : BOOLEAN,
         readers : 0 .. ReaderLimit - 1,
         txn     : TxnId]

(* The metadata every row is inserted with. *)
Free == [write |-> FALSE, read |-> FALSE, readers |-> 0, txn |-> 0]

(* ((uint64_t)txn_id << 32) | (meta & 0xffffffff) | 0x1 *)
WithWriter(m, id) == [m EXCEPT !.write = TRUE, !.txn = id]

(* Mutant: the counter has as many bits as it needs. *)
WithReaderCounted(m) == [m EXCEPT !.read = TRUE, !.readers = @ + 1]

(* (meta + 0x1000000) | 0x2: the sum carries from the counter into txn. *)
WithReader(m) ==
    IF m.readers + 1 < ReaderLimit
    THEN [m EXCEPT !.read = TRUE, !.readers = @ + 1]
    ELSE [m EXCEPT !.read = TRUE, !.readers = 0,
                   !.txn = IF @ + 1 < IdLimit THEN @ + 1 ELSE 0]

(* The values new_meta may have after the branches of                      *)
(* release_read_lock_bits: when the counter is zero no branch assigns it   *)
(* and it is whatever the uninitialised variable holds.                    *)
WithoutReader(m) ==
    IF m.readers > 1
    THEN {[m EXCEPT !.readers = @ - 1]}
    ELSE IF m.readers = 1
    THEN {[m EXCEPT !.read = FALSE, !.readers = 0]}
    ELSE Word

(* Mutant: a 64-bit mask, which leaves txn as it is. *)
WithoutWriteBit(m) == [m EXCEPT !.write = FALSE]

(* fetch_and(0xfffffffe): the mask is 32 bits wide, so txn is cleared too. *)
WithoutWriter(m) == [m EXCEPT !.write = FALSE, !.txn = 0]

=================================================================================
