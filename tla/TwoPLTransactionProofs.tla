------------------------ MODULE TwoPLTransactionProofs ------------------------
(* Theorems about TwoPLTransaction, for any transactions, rows and          *)
(* workloads of queries that name a row at most once.                       *)
EXTENDS TwoPLTransaction, DataLemmas

-----------------------------------------------------------------------------
(* The lock words, for any callers of their operations (HelperSpec), any    *)
(* field widths and identifiers.                                            *)

(* The new words the loops compute fit the word's fields.                   *)
LEMMA WordLemma ==
    ASSUME NEW m \in Word
    PROVE  /\ \A id \in TxnId : WithWriter(m, id) \in Word
           /\ WithReader(m) \in Word
           /\ WithoutReader(m) \subseteq Word
           /\ WithoutWriter(m) \in Word
<1>1. /\ m.readers \in 0 .. ReaderLimit - 1
      /\ m.txn \in TxnId
      /\ 0 \in TxnId
  BY ReadersAssumption, IdAssumption DEF Word, TxnId
<1>2. \A id \in TxnId : WithWriter(m, id) \in Word
  BY DEF Word, WithWriter
<1>3. WithReader(m) \in Word
  <2>1. CASE m.readers + 1 < ReaderLimit
    <3>1. m.readers + 1 \in 0 .. ReaderLimit - 1
      BY <1>1, <2>1, ReadersAssumption, IdAssumption
    <3> QED
      BY <2>1, <3>1 DEF Word, WithReader
  <2>2. CASE ~(m.readers + 1 < ReaderLimit)
    <3>1. (IF m.txn + 1 < IdLimit THEN m.txn + 1 ELSE 0) \in TxnId
      BY <1>1, IdAssumption DEF TxnId
    <3>2. 0 \in 0 .. ReaderLimit - 1
      BY ReadersAssumption, IdAssumption
    <3> QED
      BY <2>2, <3>1, <3>2 DEF Word, WithReader
  <2> QED
    BY <2>1, <2>2
<1>4. WithoutReader(m) \subseteq Word
  <2>1. m.readers > 1 => m.readers - 1 \in 0 .. ReaderLimit - 1
    BY <1>1, ReadersAssumption, IdAssumption
  <2>2. 0 \in 0 .. ReaderLimit - 1
    BY ReadersAssumption, IdAssumption
  <2> QED
    BY <2>1, <2>2 DEF Word, WithoutReader
<1>5. WithoutWriter(m) \in Word
  BY <1>1 DEF Word, WithoutWriter
<1> QED
  BY <1>2, <1>3, <1>4, <1>5

LEMMA FreeLemma == Free \in Word
BY ReadersAssumption, IdAssumption DEF Free, Word, TxnId

LEMMA NewWordsLemma ==
    ASSUME HelperTypeOK, NEW t \in Txns, NEW m \in Word,
           NEW op \in {"set_write", "set_read", "release_read"}
    PROVE  NewWords(t, op, m) \subseteq Word
BY WordLemma DEF NewWords, HelperTypeOK

(* A call in progress has registers.                                        *)
LEMMA CallLemma ==
    ASSUME HelperTypeOK, NEW t \in Txns, call[t] # NoCall
    PROVE  call[t] \in Call
BY DEF HelperTypeOK

(* The load of a loop keeps the types. *)
LEMMA LoadTypeLemma ==
    ASSUME HelperTypeOK, NEW t \in Txns, NEW k \in Keys,
           NEW op \in {"set_write", "set_read", "release_read"},
           LoadMeta(t, op, k)
    PROVE  /\ meta' \in [Keys -> Word]
           /\ call' \in [Txns -> Call \cup {NoCall}]
           /\ txn_id' = txn_id
<1>1. PICK w \in NewWords(t, op, meta[k]) :
         call' = [call EXCEPT ![t] = [at |-> "cas", op |-> op, key |-> k,
                                      old |-> meta[k], new |-> w]]
  BY DEF LoadMeta
<1>2. meta[k] \in Word
  BY DEF HelperTypeOK
<1>3. w \in Word
  BY <1>2, NewWordsLemma
<1>4. [at |-> "cas", op |-> op, key |-> k, old |-> meta[k], new |-> w] \in Call
  BY <1>2, <1>3 DEF Call
<1> QED
  BY <1>1, <1>4 DEF LoadMeta, HelperTypeOK

LEMMA HelperTypeStep ==
    ASSUME HelperTypeOK, [HelperNext]_helperVars
    PROVE  HelperTypeOK'
<1>1. CASE UNCHANGED helperVars
  BY <1>1 DEF helperVars, HelperTypeOK
<1>2. ASSUME NEW t \in Txns, NEW k \in Keys, AskWrite(t, k)
      PROVE  HelperTypeOK'
  <2>1. CASE set_write_lock_bits(t, k)
    BY <2>1, LoadTypeLemma DEF set_write_lock_bits, HelperTypeOK
  <2>2. CASE RequestRefused(t, "set_write", k)
    BY <2>2 DEF RequestRefused, HelperTypeOK
  <2> QED
    BY <1>2, <2>1, <2>2 DEF AskWrite
<1>3. ASSUME NEW t \in Txns, NEW k \in Keys, AskRead(t, k)
      PROVE  HelperTypeOK'
  <2>1. CASE set_read_lock_bits(t, k)
    BY <2>1, LoadTypeLemma DEF set_read_lock_bits, HelperTypeOK
  <2>2. CASE RequestRefused(t, "set_read", k)
    BY <2>2 DEF RequestRefused, HelperTypeOK
  <2> QED
    BY <1>3, <2>1, <2>2 DEF AskRead
<1>4. ASSUME NEW t \in Txns, NEW k \in Keys, GiveBack(t, k)
      PROVE  HelperTypeOK'
  <2>1. CASE release_read_lock_bits(t, k)
    <3>1. holds' \in [Txns -> [Keys -> {"none", "read", "write"}]]
      BY <2>1 DEF release_read_lock_bits, HelperTypeOK
    <3> QED
      BY <2>1, <3>1, LoadTypeLemma DEF release_read_lock_bits, HelperTypeOK
  <2>2. CASE release_write_lock_bits(t, k)
    <3>1. holds' \in [Txns -> [Keys -> {"none", "read", "write"}]]
      BY <2>2 DEF release_write_lock_bits, HelperTypeOK
    <3>2. WithoutWriter(meta[k]) \in Word
      BY WordLemma DEF HelperTypeOK
    <3> QED
      BY <2>2, <3>1, <3>2 DEF release_write_lock_bits, HelperTypeOK
  <2> QED
    BY <1>4, <2>1, <2>2 DEF GiveBack
<1>5. ASSUME NEW t \in Txns, CallStep(t)
      PROVE  HelperTypeOK'
  <2>0. call[t] \in Call
    BY <1>5, CallLemma DEF CallStep, Reload, CasSucceeds, CasFails, StoreMeta, NoCall
  <2>1. CASE Reload(t)
    BY <2>0, <2>1, LoadTypeLemma DEF Reload, HelperTypeOK, Call
  <2>2. CASE CasSucceeds(t)
    BY <2>0, <2>2 DEF CasSucceeds, HelperTypeOK, Call
  <2>3. CASE CasFails(t)
    BY <2>0, <2>3 DEF CasFails, HelperTypeOK, Call
  <2>4. CASE StoreMeta(t)
    BY <2>0, <2>4 DEF StoreMeta, HelperTypeOK, Call
  <2> QED
    BY <1>5, <2>1, <2>2, <2>3, <2>4 DEF CallStep
<1>6. ASSUME NEW t \in Txns, Name(t)
      PROVE  HelperTypeOK'
  BY <1>6 DEF Name, HelperTypeOK
<1> QED
  BY <1>1, <1>2, <1>3, <1>4, <1>5, <1>6 DEF HelperNext

LEMMA HelperTypeInit == HelperInit => HelperTypeOK
BY FreeLemma, IdAssumption DEF HelperInit, HelperTypeOK, TxnId, NoId

(* The types hold for every width of the fields: in particular a counter    *)
(* that overflows carries into txn and stays a word.                        *)
THEOREM HelperTypeCorrect == HelperSpec => []HelperTypeOK
<1>1. HelperTypeOK /\ [HelperNext]_helperVars => HelperTypeOK'
  BY HelperTypeStep
<1> QED
  BY <1>1, HelperTypeInit, PTL DEF HelperSpec

-----------------------------------------------------------------------------
(* The rows nobody reads.  OwnerInv is inductive: one lemma per step of a   *)
(* helper call that can touch the row or its owner.                         *)

LEMMA WriteOnlyLemma ==
    ASSUME OwnerInv, NEW k \in WriteOnlyKeys, NEW t \in Txns,
           call[t] # NoCall, call[t].key = k
    PROVE  WriteRequest(t, k)
BY DEF OwnerInv

(* The clauses of OwnerInv about one row. *)
RowInv(k) ==
    /\ ~meta[k].read /\ meta[k].readers = 0
    /\ ~meta[k].write => meta[k].txn = 0
    /\ meta[k].write => \E t \in Txns : Owns(t, k)
    /\ \A t \in Txns :
          /\ holds[t][k] # "read"
          /\ call[t] # NoCall /\ call[t].key = k => WriteRequest(t, k)
          /\ Owns(t, k) => meta[k].write /\ meta[k].txn = txn_id[t]
    /\ \A t, u \in Txns : Owns(t, k) /\ Owns(u, k) => t = u

LEMMA OwnerInvByRow == OwnerInv <=> \A k \in WriteOnlyKeys : RowInv(k)
BY DEF OwnerInv, RowInv

(* A step that leaves the row's word, and everyone's ownership, requests    *)
(* and grants on it alone, keeps the row's clauses.                         *)
LEMMA RowUntouched ==
    ASSUME NEW k \in WriteOnlyKeys, RowInv(k),
           meta'[k] = meta[k], txn_id' = txn_id,
           \A t \in Txns : holds'[t][k] = holds[t][k],
           \A t \in Txns : \/ call'[t] = call[t]
                           \/ /\ ~(call[t].at = "store" /\ call[t].key = k)
                              /\ call'[t] = NoCall
                           \/ /\ ~(call[t].at = "store" /\ call[t].key = k)
                              /\ call'[t].at \in {"load", "cas", "store"}
                              /\ call'[t].key # k
    PROVE  RowInv(k)'
<1>1. ASSUME NEW t \in Txns PROVE Owns(t, k)' <=> Owns(t, k)
  BY DEF Owns, NoCall
<1>2. ASSUME NEW t \in Txns, call'[t] # NoCall, call'[t].key = k
      PROVE  WriteRequest(t, k)'
  <2>1. call'[t] = call[t]
    BY <1>2
  <2> QED
    BY <1>2, <2>1 DEF RowInv, WriteRequest
<1> QED
  BY <1>1, <1>2 DEF RowInv

(* A load of the request loop, first or repeated. *)
LEMMA RowLoad ==
    ASSUME HelperTypeOK, NEW k \in WriteOnlyKeys, RowInv(k),
           NEW t \in Txns, NEW op, NEW j \in Keys, LoadMeta(t, op, j),
           call[t].at \in {"idle", "load"},
           j = k => op = "set_write" /\ holds[t][k] = "none",
           \A u \in Txns : holds'[u][k] = holds[u][k]
    PROVE  RowInv(k)'
<1>1. PICK w \in NewWords(t, op, meta[j]) :
         call' = [call EXCEPT ![t] = [at |-> "cas", op |-> op, key |-> j,
                                      old |-> meta[j], new |-> w]]
  BY DEF LoadMeta
<1>2. meta' = meta /\ txn_id' = txn_id
  BY DEF LoadMeta
<1>3. call'[t] = [at |-> "cas", op |-> op, key |-> j, old |-> meta[j], new |-> w]
  BY <1>1 DEF HelperTypeOK
<1>4. \A u \in Txns \ {t} : call'[u] = call[u]
  BY <1>1 DEF HelperTypeOK
<1>5. CASE j # k
  BY <1>2, <1>3, <1>4, <1>5, RowUntouched
<1>6. CASE j = k
  <2>1. WriteRequest(t, k)'
    <3>1. w = WithWriter(meta[k], txn_id[t])
      BY <1>1, <1>6 DEF NewWords
    <3>2. ~meta[k].write
      BY <1>6 DEF LoadMeta, Refused
    <3> QED
      BY <1>2, <1>3, <1>6, <3>1, <3>2 DEF WriteRequest
  <2>2. \A u \in Txns : Owns(u, k)' <=> Owns(u, k)
    BY <1>3, <1>4 DEF Owns
  <2>3. ASSUME NEW u \in Txns, u # t, call'[u] # NoCall, call'[u].key = k
        PROVE  WriteRequest(u, k)'
    <3>1. WriteRequest(u, k)
      BY <1>4, <2>3 DEF RowInv
    <3> QED
      BY <1>2, <1>4, <2>3, <3>1 DEF WriteRequest
  <2> QED
    BY <1>2, <2>1, <2>2, <2>3 DEF RowInv
<1> QED
  BY <1>5, <1>6

(* A request of another row, or one that is refused, and a release of       *)
(* another row leave the row alone; the remaining steps are the exchange,   *)
(* the store and the release of the row's owner.                            *)
LEMMA OwnerInvStep ==
    ASSUME HelperTypeOK, OwnerInv, [HelperNext]_helperVars
    PROVE  OwnerInv'
<1> SUFFICES ASSUME NEW k \in WriteOnlyKeys
             PROVE  RowInv(k)'
  BY DEF OwnerInv, RowInv, WriteOnlyKeys
<1>0. /\ RowInv(k)
      /\ k \in Keys
      /\ "read" \notin Modes[k]
  BY OwnerInvByRow DEF WriteOnlyKeys
<1>1. CASE UNCHANGED helperVars
  BY <1>0, <1>1 DEF helperVars, RowInv, Owns, WriteRequest
<1>2. ASSUME NEW t \in Txns, NEW j \in Keys, AskWrite(t, j)
      PROVE  RowInv(k)'
  <2>1. CASE set_write_lock_bits(t, j)
    BY <1>0, <1>2, <2>1, RowLoad DEF AskWrite, set_write_lock_bits, NoCall
  <2>2. CASE RequestRefused(t, "set_write", j)
    BY <1>0, <2>2, RowUntouched DEF RequestRefused, HelperTypeOK, NoCall
  <2> QED
    BY <1>2, <2>1, <2>2 DEF AskWrite
<1>3. ASSUME NEW t \in Txns, NEW j \in Keys, AskRead(t, j)
      PROVE  RowInv(k)'
  <2>0. j # k
    BY <1>0, <1>3 DEF AskRead
  <2>1. CASE set_read_lock_bits(t, j)
    BY <1>0, <2>0, <2>1, RowLoad DEF set_read_lock_bits, NoCall
  <2>2. CASE RequestRefused(t, "set_read", j)
    BY <1>0, <2>2, RowUntouched DEF RequestRefused, HelperTypeOK, NoCall
  <2> QED
    BY <1>3, <2>1, <2>2 DEF AskRead
<1>4. ASSUME NEW t \in Txns, NEW j \in Keys,
             holds[t][j] = "read", release_read_lock_bits(t, j)
      PROVE  RowInv(k)'
  <2>0. j # k
    BY <1>0, <1>4 DEF RowInv
  <2>1. \A u \in Txns : holds'[u][k] = holds[u][k]
    BY <1>0, <1>4, <2>0 DEF release_read_lock_bits, HelperTypeOK
  <2> QED
    BY <1>0, <1>4, <2>0, <2>1, RowLoad DEF release_read_lock_bits, NoCall
<1>5. ASSUME NEW t \in Txns, NEW j \in Keys,
             holds[t][j] = "write", release_write_lock_bits(t, j)
      PROVE  RowInv(k)'
  <2>1. CASE j # k
    BY <1>0, <1>5, <2>1, RowUntouched DEF release_write_lock_bits, HelperTypeOK
  <2>2. CASE j = k
    <3>1. /\ ~meta'[k].write
          /\ meta'[k].read = meta[k].read
          /\ meta'[k].readers = meta[k].readers
          /\ meta'[k].txn = 0
          /\ txn_id' = txn_id
      BY <1>0, <1>5, <2>2
      DEF release_write_lock_bits, WithoutWriter, HelperTypeOK, Word
    <3>2. \A u \in Txns : ~Owns(u, k)'
      BY <1>0, <1>5, <2>2
      DEF release_write_lock_bits, HelperTypeOK, Owns, RowInv, NoCall
    <3>3. \A u \in Txns : holds'[u][k] # "read"
      BY <1>0, <1>5, <2>2 DEF release_write_lock_bits, HelperTypeOK, RowInv
    <3>4. ASSUME NEW u \in Txns, call'[u] # NoCall, call'[u].key = k
          PROVE  WriteRequest(u, k)'
      <4>1. /\ call'[u] = call[u]
            /\ u # t
            /\ WriteRequest(u, k)
        BY <1>0, <1>5, <3>4 DEF release_write_lock_bits, RowInv
      <4>2. holds'[u][k] = "none"
        BY <1>0, <1>5, <4>1
        DEF release_write_lock_bits, HelperTypeOK, WriteRequest
      <4>3. call'[u].at # "store"
        BY <3>2, <3>4 DEF Owns
      <4> QED
        BY <3>1, <4>1, <4>2, <4>3 DEF WriteRequest
    <3> QED
      BY <1>0, <3>1, <3>2, <3>3, <3>4 DEF RowInv
  <2> QED
    BY <2>1, <2>2
<1>6. ASSUME NEW t \in Txns, Reload(t)
      PROVE  RowInv(k)'
  <2>1. call[t] \in Call
    BY <1>6, CallLemma DEF Reload, NoCall
  <2>2. call[t].key = k => call[t].op = "set_write" /\ holds[t][k] = "none"
    BY <1>0, <1>6 DEF Reload, RowInv, WriteRequest, NoCall
  <2> QED
    BY <1>0, <1>6, <2>1, <2>2, RowLoad DEF Reload, Call
<1>7. ASSUME NEW t \in Txns, CasFails(t)
      PROVE  RowInv(k)'
  <2>1. call[t] \in Call
    BY <1>7, CallLemma DEF CasFails, NoCall
  <2>2. /\ call'[t] = [call[t] EXCEPT !.at = "load"]
        /\ \A u \in Txns \ {t} : call'[u] = call[u]
    BY <1>7 DEF CasFails, HelperTypeOK
  <2>3. \A u \in Txns : Owns(u, k)' <=> Owns(u, k)
    BY <1>7, <2>1, <2>2 DEF CasFails, Owns, Call
  <2>4. ASSUME NEW u \in Txns, call'[u] # NoCall, call'[u].key = k
        PROVE  WriteRequest(u, k)'
    <3>1. call[u] # NoCall /\ call[u].key = k
      BY <1>7, <2>1, <2>2, <2>4 DEF CasFails, Call, NoCall
    <3>2. WriteRequest(u, k)
      BY <1>0, <3>1 DEF RowInv
    <3> QED
      BY <1>7, <2>1, <2>2, <3>2 DEF CasFails, Call, WriteRequest
  <2> QED
    BY <1>0, <1>7, <2>3, <2>4 DEF CasFails, RowInv
<1>8. ASSUME NEW t \in Txns, CasSucceeds(t)
      PROVE  RowInv(k)'
  <2>1. call[t] \in Call
    BY <1>8, CallLemma DEF CasSucceeds, NoCall
  <2>2. /\ call'[t] = [call[t] EXCEPT !.at = "store"]
        /\ \A u \in Txns \ {t} : call'[u] = call[u]
        /\ holds' = holds
        /\ txn_id' = txn_id
    BY <1>8 DEF CasSucceeds, HelperTypeOK
  <2>3. CASE call[t].key # k
    <3>1. meta'[k] = meta[k]
      BY <1>8, <2>3 DEF CasSucceeds, HelperTypeOK
    <3>2. call'[t].at = "store" /\ call'[t].key # k
      BY <2>1, <2>2, <2>3 DEF Call
    <3> QED
      BY <1>0, <2>2, <2>3, <3>1, <3>2, RowUntouched
  <2>4. CASE call[t].key = k
    <3>1. WriteRequest(t, k)
      BY <1>0, <1>8, <2>4 DEF CasSucceeds, RowInv, NoCall
    <3>2. /\ ~meta[k].write
          /\ meta'[k] = WithWriter(meta[k], txn_id[t])
      BY <1>0, <1>8, <2>4, <3>1 DEF CasSucceeds, WriteRequest, HelperTypeOK
    <3>3. /\ meta'[k].write
          /\ meta'[k].txn = txn_id[t]
          /\ meta'[k].read = meta[k].read
          /\ meta'[k].readers = meta[k].readers
      BY <1>0, <3>2 DEF WithWriter, HelperTypeOK, Word
    <3>4. \A u \in Txns : ~Owns(u, k)
      BY <1>0, <3>2 DEF RowInv
    <3>5. /\ Owns(t, k)'
          /\ \A u \in Txns \ {t} : ~Owns(u, k)'
      BY <2>1, <2>2, <2>4, <3>4 DEF Owns, Call
    <3>6. WriteRequest(t, k)'
      BY <1>8, <2>1, <2>2, <2>4, <3>1 DEF CasSucceeds, WriteRequest, Call, HelperTypeOK
    <3>7. ASSUME NEW u \in Txns \ {t}, call'[u] # NoCall, call'[u].key = k
          PROVE  WriteRequest(u, k)'
      <4>1. WriteRequest(u, k) /\ call[u].at # "store"
        BY <1>0, <2>2, <3>4, <3>7 DEF RowInv, Owns
      <4> QED
        BY <2>2, <4>1 DEF WriteRequest
    <3> QED
      BY <1>0, <2>2, <3>3, <3>5, <3>6, <3>7 DEF RowInv
  <2> QED
    BY <2>3, <2>4
<1>9. ASSUME NEW t \in Txns, StoreMeta(t)
      PROVE  RowInv(k)'
  <2>1. call[t] \in Call
    BY <1>9, CallLemma DEF StoreMeta, NoCall
  <2>2. /\ call'[t] = NoCall
        /\ \A u \in Txns \ {t} : call'[u] = call[u]
        /\ txn_id' = txn_id
    BY <1>9 DEF StoreMeta, HelperTypeOK
  <2>3. CASE call[t].key # k
    <3>1. meta'[k] = meta[k]
      BY <1>9, <2>3 DEF StoreMeta, HelperTypeOK
    <3>2. \A u \in Txns : holds'[u][k] = holds[u][k]
      BY <1>0, <1>9, <2>3 DEF StoreMeta, HelperTypeOK
    <3> QED
      BY <1>0, <2>2, <2>3, <3>1, <3>2, RowUntouched
  <2>4. CASE call[t].key = k
    <3>1. WriteRequest(t, k)
      BY <1>0, <1>9, <2>4 DEF StoreMeta, RowInv, NoCall
    <3>2. meta'[k] = meta[k]
      BY <1>9, <2>4, <3>1 DEF StoreMeta, WriteRequest, HelperTypeOK
    <3>3. /\ holds'[t][k] = "write"
          /\ \A u \in Txns \ {t} : holds'[u][k] = holds[u][k]
      BY <1>0, <1>9, <2>4, <3>1 DEF StoreMeta, WriteRequest, HelperTypeOK
    <3>4. \A u \in Txns : Owns(u, k)' <=> Owns(u, k)
      BY <1>9, <2>2, <2>4, <3>3 DEF StoreMeta, Owns
    <3>5. ASSUME NEW u \in Txns, call'[u] # NoCall, call'[u].key = k
          PROVE  WriteRequest(u, k)'
      <4>1. u # t /\ WriteRequest(u, k)
        BY <1>0, <2>2, <3>5 DEF RowInv
      <4> QED
        BY <2>2, <3>2, <3>3, <4>1 DEF WriteRequest
    <3> QED
      BY <1>0, <2>2, <3>2, <3>3, <3>4, <3>5 DEF RowInv
  <2> QED
    BY <2>3, <2>4
<1>10. ASSUME NEW t \in Txns, Name(t)
       PROVE  RowInv(k)'
  <2>1. /\ meta' = meta /\ call' = call /\ holds' = holds
        /\ \A u \in Txns \ {t} : txn_id'[u] = txn_id[u]
        /\ call[t] = NoCall /\ ~Owns(t, k)
    BY <1>0, <1>10 DEF Name, Owns, HelperTypeOK, NoCall
  <2>2. \A u \in Txns : Owns(u, k)' <=> Owns(u, k)
    BY <2>1 DEF Owns
  <2>3. ASSUME NEW u \in Txns, call'[u] # NoCall, call'[u].key = k
        PROVE  WriteRequest(u, k)'
    BY <1>0, <2>1, <2>3 DEF RowInv, WriteRequest
  <2> QED
    BY <1>0, <2>1, <2>2, <2>3 DEF RowInv
<1> QED
  BY <1>1, <1>2, <1>3, <1>4, <1>5, <1>6, <1>7, <1>8, <1>9, <1>10
  DEF HelperNext, GiveBack, CallStep

LEMMA OwnerInvInit == HelperInit => OwnerInv
BY DEF HelperInit, OwnerInv, WriteOnlyKeys, Free, Owns, WriteRequest, NoCall

(* The row of a transaction that only updates is locked and owned as        *)
(* OwnerInv says, in every reachable state.                                 *)
THEOREM OwnerInvCorrect == HelperSpec => []OwnerInv
<1>1. HelperTypeOK /\ OwnerInv /\ [HelperNext]_helperVars => OwnerInv'
  BY OwnerInvStep
<1> QED
  BY <1>1, OwnerInvInit, HelperTypeCorrect, PTL DEF HelperSpec

LEMMA OwnerInvExcludes ==
    ASSUME HelperTypeOK, OwnerInv
    PROVE  WritersExcluded
<1> SUFFICES ASSUME NEW k \in WriteOnlyKeys, NEW t \in Txns, NEW u \in Txns,
                    t # u, holds[t][k] = "write"
             PROVE  holds[u][k] = "none"
  BY DEF WritersExcluded, Excludes
<1>1. holds[u][k] \in {"none", "read", "write"}
  BY DEF HelperTypeOK, WriteOnlyKeys
<1> QED
  BY <1>1 DEF OwnerInv, Owns

(* No two transactions are ever told they have a row nobody reads, however  *)
(* many transactions there are and whatever they do to other rows.          *)
THEOREM WritersExcludedCorrect == HelperSpec => []WritersExcluded
BY OwnerInvCorrect, HelperTypeCorrect, OwnerInvExcludes, PTL

(* The word of such a row names its writer, and is Free once all are gone.  *)
THEOREM WordNamesWriterCorrect == HelperSpec => []WordNamesWriter
<1>1. ASSUME HelperTypeOK, OwnerInv
      PROVE  WordNamesWriter
  <2> SUFFICES ASSUME NEW k \in WriteOnlyKeys,
                      \A t \in Txns : holds[t][k] = "none" /\ call[t] = NoCall
               PROVE  meta[k] = Free
    BY <1>1 DEF WordNamesWriter, OwnerInv, Owns
  <2>1. \A t \in Txns : ~Owns(t, k)
    <3> SUFFICES ASSUME NEW t \in Txns PROVE ~Owns(t, k)
      OBVIOUS
    <3>1. holds[t][k] = "none" /\ call[t].at = "idle"
      BY DEF NoCall
    <3> QED
      BY <3>1 DEF Owns
  <2>2. /\ meta[k].write = FALSE
        /\ meta[k].read = FALSE
        /\ meta[k].readers = 0
        /\ meta[k].txn = 0
    BY <1>1, <2>1 DEF OwnerInv, HelperTypeOK, Word, WriteOnlyKeys
  <2>3. meta[k] \in Word
    BY <1>1 DEF HelperTypeOK, WriteOnlyKeys
  <2> QED
    BY <2>2, <2>3 DEF Word, Free
<1> QED
  BY <1>1, OwnerInvCorrect, HelperTypeCorrect, PTL

-----------------------------------------------------------------------------
(* On those rows the words implement the locks of RWLock.                   *)

LEMMA RWStep ==
    ASSUME HelperTypeOK, OwnerInv, [HelperNext]_helperVars
    PROVE  [Locks!RWNext]_([t \in Txns |-> [k \in WriteOnlyKeys |-> holds[t][k]]])
<1> DEFINE H == [t \in Txns |-> [k \in WriteOnlyKeys |-> holds[t][k]]]
<1>1. ASSUME \A t \in Txns : \A k \in WriteOnlyKeys : holds'[t][k] = holds[t][k]
      PROVE  H' = H
  BY <1>1
<1>2. CASE holds' = holds
  BY <1>1, <1>2
<1>3. ASSUME NEW t \in Txns, NEW k \in Keys, GiveBack(t, k)
      PROVE  [Locks!RWNext]_H
  <2>1. holds' = [holds EXCEPT ![t][k] = "none"]
    BY <1>3 DEF GiveBack, release_read_lock_bits, release_write_lock_bits
  <2>2. CASE k \notin WriteOnlyKeys
    BY <1>1, <2>1, <2>2 DEF HelperTypeOK, WriteOnlyKeys
  <2>3. CASE k \in WriteOnlyKeys
    <3>1. H[t][k] # "none"
      BY <1>3, <2>3 DEF GiveBack
    <3>2. H' = [H EXCEPT ![t][k] = "none"]
      BY <2>1, <2>3 DEF HelperTypeOK, WriteOnlyKeys
    <3> QED
      BY <2>3, <3>1, <3>2 DEF Locks!RWNext, Locks!Release
  <2> QED
    BY <2>2, <2>3
<1>4. ASSUME NEW t \in Txns, StoreMeta(t)
      PROVE  [Locks!RWNext]_H
  <2>0. call[t] \in Call
    BY <1>4, CallLemma DEF StoreMeta, NoCall
  <2> DEFINE k == call[t].key
  <2>1. CASE k \notin WriteOnlyKeys
    BY <1>1, <1>4, <2>0, <2>1 DEF StoreMeta, HelperTypeOK, WriteOnlyKeys, Call
  <2>2. CASE k \in WriteOnlyKeys
    <3>0. WriteRequest(t, k)
      BY <1>4, <2>2, WriteOnlyLemma DEF StoreMeta, NoCall
    <3>1. holds' = [holds EXCEPT ![t][k] = "write"]
      <4>1. call[t].op = "set_write"
        BY <3>0 DEF WriteRequest
      <4> QED
        BY <1>4, <4>1 DEF StoreMeta
    <3>2. \A u \in Txns : H[u][k] = "none"
      <4>1. Owns(t, k)
        BY <1>4 DEF StoreMeta, Owns
      <4>2. holds[t][k] = "none"
        BY <3>0 DEF WriteRequest
      <4>3. ASSUME NEW u \in Txns PROVE holds[u][k] = "none"
        <5>1. holds[u][k] \in {"none", "read", "write"}
          BY <2>2 DEF HelperTypeOK, WriteOnlyKeys
        <5> QED
          BY <2>2, <4>1, <4>2, <5>1 DEF OwnerInv, Owns
      <4> QED
        BY <2>2, <4>3
    <3>3. H' = [H EXCEPT ![t][k] = "write"]
      BY <2>2, <3>1 DEF HelperTypeOK, WriteOnlyKeys
    <3> QED
      BY <2>2, <3>2, <3>3 DEF Locks!RWNext, Locks!AcquireWrite
  <2> QED
    BY <2>1, <2>2
<1> QED
  BY <1>2, <1>3, <1>4
  DEF HelperNext, helperVars, AskWrite, AskRead, set_write_lock_bits,
      set_read_lock_bits, RequestRefused, CallStep, Reload, CasSucceeds, CasFails, Name

(* The exchange loops, with their second stores, grant and release the      *)
(* rows nobody reads as the reader/writer locks of RWLock do.               *)
THEOREM HelperImplementsRWLock == HelperSpec => ImplementsRWLock
<1>1. HelperInit => Locks!RWInit
  BY DEF HelperInit, Locks!RWInit, WriteOnlyKeys
<1>2. HelperTypeOK /\ OwnerInv /\ [HelperNext]_helperVars
        => [Locks!RWNext]_([t \in Txns |-> [k \in WriteOnlyKeys |-> holds[t][k]]])
  BY RWStep
<1> QED
  BY <1>1, <1>2, HelperTypeCorrect, OwnerInvCorrect, PTL
  DEF HelperSpec, ImplementsRWLock, Locks!RWSpec

-----------------------------------------------------------------------------
(* What is assumed of the workloads, one transaction at a time.             *)

LEMMA QueryLemma ==
    ASSUME query \in Queries, NEW t \in Txns
    PROVE  /\ query[t] \in Seq(Operation)
           /\ DOMAIN query[t] = 1 .. Len(query[t])
           /\ Len(query[t]) \in Nat
           /\ \A i \in DOMAIN query[t] :
                 /\ query[t][i].key \in Keys
                 /\ query[t][i].update \in BOOLEAN
                 /\ OpMode(query[t][i]) \in Modes[query[t][i].key]
           /\ \A i, j \in DOMAIN query[t] :
                 query[t][i].key = query[t][j].key => i = j
<1>1. /\ query[t] \in Seq(Operation)
      /\ DistinctKeys(query[t])
      /\ \A i \in DOMAIN query[t] :
            OpMode(query[t][i]) \in Modes[query[t][i].key]
  BY TransactionAssumption
<1>2. DOMAIN query[t] = 1 .. Len(query[t]) /\ Len(query[t]) \in Nat
  BY <1>1
<1>3. \A i \in DOMAIN query[t] : query[t][i] \in Operation
  BY <1>1
<1> QED
  BY <1>1, <1>2, <1>3 DEF DistinctKeys, Operation

(* The row of the operation at hand is in neither set.                      *)
LEMMA CurrentLemma ==
    ASSUME TypeOK, NEW t \in Txns, SetsFollowQuery(t),
           next[t] \in DOMAIN query[t]
    PROVE  /\ CurrentOp(t).key \in Keys
           /\ CurrentOp(t).update \in BOOLEAN
           /\ OpMode(CurrentOp(t)) \in Modes[CurrentOp(t).key]
           /\ CurrentOp(t).key \notin Range(readSet[t])
           /\ CurrentOp(t).key \notin Range(writeSet[t])
<1>1. query \in Queries
  BY DEF TypeOK
<1>2. /\ CurrentOp(t).key \in Keys
      /\ CurrentOp(t).update \in BOOLEAN
      /\ OpMode(CurrentOp(t)) \in Modes[CurrentOp(t).key]
  BY <1>1, QueryLemma DEF CurrentOp
<1>3. ASSUME NEW i \in 1 .. next[t] - 1 PROVE query[t][i].key # CurrentOp(t).key
  <2>1. i \in DOMAIN query[t] /\ i # next[t]
    BY <1>1, QueryLemma DEF SetsFollowQuery
  <2> QED
    BY <1>1, <2>1, QueryLemma DEF CurrentOp
<1> QED
  BY <1>2, <1>3 DEF SetsFollowQuery, Done

-----------------------------------------------------------------------------
(* The contract of TwoPLHelper.                                             *)

LEMMA AskLemma ==
    ASSUME TypeOK, TxnInv, NEW t \in Txns, AtOperation(t)
    PROVE  /\ CurrentOp(t).key \in Keys
           /\ holds[t][CurrentOp(t).key] = "none"
           /\ CurrentOp(t).update \in BOOLEAN
           /\ CurrentOp(t).update  => "write" \in Modes[CurrentOp(t).key]
           /\ ~CurrentOp(t).update => "read" \in Modes[CurrentOp(t).key]
<1>1. /\ CurrentOp(t).key \in Keys
      /\ CurrentOp(t).update \in BOOLEAN
      /\ OpMode(CurrentOp(t)) \in Modes[CurrentOp(t).key]
      /\ CurrentOp(t).key \notin Range(readSet[t])
      /\ CurrentOp(t).key \notin Range(writeSet[t])
  BY CurrentLemma DEF TxnInv, AtOperation
<1>2. /\ ReadLocks(t) = Range(readSet[t])
      /\ WriteLocks(t) = Range(writeSet[t])
  BY DEF AtOperation, ReadLocks, WriteLocks, Requested
<1>3. holds[t][CurrentOp(t).key] \in {"none", "read", "write"}
  BY <1>1 DEF TypeOK, HelperTypeOK
<1>4. holds[t][CurrentOp(t).key] = "none"
  BY <1>1, <1>2, <1>3 DEF TxnInv, LocksMatchSets
<1> QED
  BY <1>1, <1>4 DEF OpMode

LEMMA GiveBackLemma ==
    ASSUME TypeOK, TxnInv, NEW t \in Txns, rest[t] # <<>>
    PROVE  /\ Head(rest[t]) \in Keys
           /\ phase[t] \in {"abort_reads", "commit_reads"}
                => holds[t][Head(rest[t])] = "read"
           /\ phase[t] \in {"abort_writes", "commit_writes"}
                => holds[t][Head(rest[t])] = "write"
<1>1. Head(rest[t]) \in Keys /\ Head(rest[t]) \in Range(rest[t])
  BY WalkItems DEF TypeOK
<1>2. phase[t] \in {"abort_reads", "commit_reads"} => ReadLocks(t) = Range(rest[t])
  BY DEF ReadLocks
<1>3. phase[t] \in {"abort_writes", "commit_writes"} => WriteLocks(t) = Range(rest[t])
  BY DEF WriteLocks
<1> QED
  BY <1>1, <1>2, <1>3 DEF TxnInv, LocksMatchSets

LEMMA ContractStep ==
    ASSUME TypeOK, TxnInv, [Next]_vars
    PROVE  [HelperNext]_helperVars
<1>1. CASE UNCHANGED vars
  BY <1>1 DEF vars
<1>2. ASSUME NEW t \in Txns, InCall(t)
      PROVE  HelperNext
  BY <1>2 DEF InCall, HelperNext, CallStep
<1>3. ASSUME NEW t \in Txns, ExecuteStep(t)
      PROVE  [HelperNext]_helperVars
  <2>1. CASE Update(t)
    BY <2>1, AskLemma DEF Update, HelperNext, AskWrite
  <2>2. CASE Read(t)
    BY <2>2, AskLemma DEF Read, HelperNext, AskRead
  <2>3. CASE LockRefused(t)
    BY <2>3, AskLemma DEF LockRefused, RequestOp, HelperNext, AskWrite, AskRead
  <2>4. CASE LockGranted(t)
    BY <2>4 DEF LockGranted, HelperNext, CallStep
  <2>5. CASE AppendItem(t) \/ ExecuteReturns(t)
    BY <2>5 DEF AppendItem, ExecuteReturns
  <2>6. CASE StartExecute(t)
    <3>1. call[t] = NoCall
      BY <2>6 DEF StartExecute, TxnInv, CallInPlace, AtOperation
    <3>2. ASSUME NEW k \in Keys PROVE holds[t][k] = "none"
      <4>1. ReadLocks(t) = {} /\ WriteLocks(t) = {}
        BY <2>6 DEF StartExecute, ReadLocks, WriteLocks
      <4>2. holds[t][k] \in {"none", "read", "write"}
        BY DEF TypeOK, HelperTypeOK
      <4> QED
        BY <4>1, <4>2 DEF TxnInv, LocksMatchSets
    <3>3. \E id \in TxnId : txn_id' = [txn_id EXCEPT ![t] = id]
      BY <2>6, TransactionAssumption DEF StartExecute, Identify, TypeOK, HelperTypeOK
    <3> QED
      BY <2>6, <3>1, <3>2, <3>3 DEF StartExecute, HelperNext, Name
  <2> QED
    BY <1>3, <2>1, <2>2, <2>3, <2>4, <2>5, <2>6 DEF ExecuteStep
<1>4. ASSUME NEW t \in Txns, CommitStep(t)
      PROVE  UNCHANGED helperVars
  BY <1>4 DEF CommitStep, StartCommit, InstallItem, AllInstalled
<1>5. ASSUME NEW t \in Txns, ReleaseStep(t)
      PROVE  [HelperNext]_helperVars
  <2>1. CASE ReleaseRead(t)
    BY <2>1, GiveBackLemma DEF ReleaseRead, HelperNext, GiveBack
  <2>2. CASE ReadReleased(t)
    BY <2>2 DEF ReadReleased, HelperNext, CallStep
  <2>3. CASE ReleaseWrite(t)
    BY <2>3, GiveBackLemma DEF ReleaseWrite, HelperNext, GiveBack
  <2>4. CASE ReadsReleased(t) \/ Requeue(t) \/ Committed(t)
    BY <2>4 DEF ReadsReleased, Requeue, Committed
  <2> QED
    BY <1>5, <2>1, <2>2, <2>3, <2>4 DEF ReleaseStep
<1> QED
  BY <1>1, <1>2, <1>3, <1>4, <1>5 DEF Next, TxnStep

-----------------------------------------------------------------------------
(* Types.                                                                   *)

LEMMA TypeStep ==
    ASSUME TypeOK, TxnInv, [Next]_vars
    PROVE  TypeOK'
<1>0. HelperTypeOK'
  BY ContractStep, HelperTypeStep DEF TypeOK
<1>1. CASE UNCHANGED vars
  BY <1>0, <1>1 DEF vars, txnVars, TypeOK
<1>2. ASSUME NEW t \in Txns, InCall(t) \/ Update(t) \/ Read(t) \/ ReadReleased(t)
      PROVE  TypeOK'
  BY <1>0, <1>2 DEF InCall, Update, Read, ReadReleased, txnVars, TypeOK
<1>3. ASSUME NEW t \in Txns, StartExecute(t)
      PROVE  TypeOK'
  BY <1>0, <1>3 DEF StartExecute, Goto, TypeOK, Phases
<1>4. ASSUME NEW t \in Txns,
             LockGranted(t) \/ ExecuteReturns(t) \/ Requeue(t) \/ Committed(t)
      PROVE  TypeOK'
  BY <1>0, <1>4
  DEF LockGranted, ExecuteReturns, Requeue, Committed, Goto, TypeOK, Phases
<1>5. ASSUME NEW t \in Txns, LockRefused(t) \/ StartCommit(t)
                               \/ AllInstalled(t) \/ ReadsReleased(t)
      PROVE  TypeOK'
  BY <1>0, <1>5
  DEF LockRefused, StartCommit, AllInstalled, ReadsReleased, Loop, Goto, TypeOK, Phases
<1>6. ASSUME NEW t \in Txns, AppendItem(t)
      PROVE  TypeOK'
  <2>1. CurrentOp(t).key \in Keys
    BY <1>6, CurrentLemma DEF AppendItem, TxnInv, SetsFollowQuery
  <2>2. /\ Append(readSet[t], CurrentOp(t).key) \in Seq(Keys)
        /\ Append(writeSet[t], CurrentOp(t).key) \in Seq(Keys)
    BY <2>1, AppendItems DEF TypeOK
  <2>3. readSet' \in [Txns -> Seq(Keys)] /\ writeSet' \in [Txns -> Seq(Keys)]
    BY <1>6, <2>2 DEF AppendItem, TypeOK
  <2>4. next' \in [Txns -> Nat \ {0}]
    BY <1>6 DEF AppendItem, TypeOK
  <2> QED
    BY <1>0, <1>6, <2>3, <2>4 DEF AppendItem, Goto, TypeOK, Phases
<1>7. ASSUME NEW t \in Txns, InstallItem(t) \/ ReleaseRead(t) \/ ReleaseWrite(t)
      PROVE  TypeOK'
  <2>1. Head(rest[t]) \in Keys /\ Tail(rest[t]) \in Seq(Keys)
    BY <1>7, WalkItems DEF InstallItem, ReleaseRead, ReleaseWrite, TypeOK
  <2>2. rest' \in [Txns -> Seq(Keys)]
    BY <1>7, <2>1 DEF InstallItem, ReleaseRead, ReleaseWrite, TypeOK
  <2>3. data' \in [Keys -> Txns \cup {NoTxn}]
    BY <1>7, <2>1 DEF InstallItem, ReleaseRead, ReleaseWrite, TypeOK
  <2> QED
    BY <1>0, <1>7, <2>2, <2>3 DEF InstallItem, ReleaseRead, ReleaseWrite, TypeOK
<1> QED
  BY <1>1, <1>2, <1>3, <1>4, <1>5, <1>6, <1>7
  DEF Next, TxnStep, ExecuteStep, CommitStep, ReleaseStep

-----------------------------------------------------------------------------
(* TxnInv is inductive.  It speaks of one transaction at a time, and a step *)
(* is the step of one transaction: the others keep their part of it.        *)

MatchSets(t) ==
    /\ {k \in Keys : holds[t][k] = "read"}  = ReadLocks(t)
    /\ {k \in Keys : holds[t][k] = "write"} = WriteLocks(t)

OneTxnInv(t) ==
    /\ SetsFollowQuery(t)
    /\ RestWithinSet(t)
    /\ CallInPlace(t)
    /\ MatchSets(t)

LEMMA TxnInvByTxn == TxnInv <=> \A t \in Txns : OneTxnInv(t)
BY DEF TxnInv, OneTxnInv, LocksMatchSets, MatchSets

Same(u) ==
    /\ phase'[u] = phase[u]
    /\ next'[u] = next[u]
    /\ readSet'[u] = readSet[u]
    /\ writeSet'[u] = writeSet[u]
    /\ rest'[u] = rest[u]
    /\ call'[u] = call[u]
    /\ holds'[u] = holds[u]

LEMMA OthersSame ==
    ASSUME TypeOK, NEW t \in Txns, TxnStep(t)
    PROVE  query' = query /\ \A u \in Txns \ {t} : Same(u)
<1> USE DEF TypeOK, HelperTypeOK, Same
<1>1. ASSUME NEW op, NEW k, LoadMeta(t, op, k)
      PROVE  \A u \in Txns \ {t} : call'[u] = call[u]
  BY <1>1 DEF LoadMeta
<1>2. CASE InCall(t)
  BY <1>1, <1>2 DEF InCall, txnVars, Reload, CasSucceeds, CasFails
<1>3. CASE StartExecute(t) \/ AppendItem(t) \/ ExecuteReturns(t)
  BY <1>3 DEF StartExecute, AppendItem, ExecuteReturns, Goto, helperVars
<1>4. CASE Update(t) \/ Read(t)
  BY <1>1, <1>4 DEF Update, Read, set_write_lock_bits, set_read_lock_bits, txnVars
<1>5. CASE LockRefused(t)
  BY <1>5 DEF LockRefused, RequestRefused, Loop, Goto
<1>6. CASE LockGranted(t) \/ ReadReleased(t)
  BY <1>6 DEF LockGranted, ReadReleased, StoreMeta, Goto, txnVars
<1>7. CASE StartCommit(t) \/ InstallItem(t) \/ AllInstalled(t) \/ ReadsReleased(t)
             \/ Requeue(t) \/ Committed(t)
  BY <1>7 DEF StartCommit, InstallItem, AllInstalled, ReadsReleased, Requeue,
              Committed, Loop, Goto, helperVars
<1>8. CASE ReleaseRead(t) \/ ReleaseWrite(t)
  BY <1>1, <1>8 DEF ReleaseRead, ReleaseWrite, release_read_lock_bits,
                    release_write_lock_bits
<1> QED
  BY <1>2, <1>3, <1>4, <1>5, <1>6, <1>7, <1>8
  DEF TxnStep, ExecuteStep, CommitStep, ReleaseStep

LEMMA SameDone ==
    ASSUME query' = query, NEW u \in Txns, next'[u] = next[u]
    PROVE  \A b \in BOOLEAN : Done(u, b)' = Done(u, b)
BY DEF Done

LEMMA SameSets ==
    ASSUME query' = query, NEW u \in Txns, SetsFollowQuery(u),
           next'[u] = next[u], readSet'[u] = readSet[u], writeSet'[u] = writeSet[u],
           phase'[u] = "granted" => next[u] \in DOMAIN query[u],
           phase'[u] \in {"ready", "install"} => next[u] = Len(query[u]) + 1
    PROVE  SetsFollowQuery(u)'
BY SameDone DEF SetsFollowQuery

LEMMA SameKeeps ==
    ASSUME query' = query, NEW u \in Txns, Same(u), OneTxnInv(u)
    PROVE  OneTxnInv(u)'
<1>1. SetsFollowQuery(u)'
  BY SameSets DEF OneTxnInv, Same, SetsFollowQuery
<1>2. RestWithinSet(u)'
  BY DEF OneTxnInv, Same, RestWithinSet
<1>3. CallInPlace(u)'
  BY DEF OneTxnInv, Same, CallInPlace, AtOperation, CurrentOp
<1>4. ReadLocks(u)' = ReadLocks(u) /\ WriteLocks(u)' = WriteLocks(u)
  BY DEF Same, ReadLocks, WriteLocks, Requested, CurrentOp
<1> QED
  BY <1>1, <1>2, <1>3, <1>4 DEF OneTxnInv, MatchSets, Same

(* Outside a request and a release of read locks, no call is in progress.   *)
LEMMA IdleLemma ==
    ASSUME NEW t \in Txns, CallInPlace(t),
           ~AtOperation(t), phase[t] \notin {"abort_reads", "commit_reads"}
    PROVE  call[t] = NoCall
BY DEF CallInPlace

LEMMA NoCallInPlace ==
    ASSUME NEW t \in Txns, call'[t] = NoCall
    PROVE  CallInPlace(t)'
BY DEF CallInPlace

(* The steps of execute(). *)
LEMMA OwnExecuteStep ==
    ASSUME TypeOK, NEW t \in Txns, OneTxnInv(t), ExecuteStep(t)
    PROVE  OneTxnInv(t)'
<1>0. /\ SetsFollowQuery(t) /\ RestWithinSet(t) /\ CallInPlace(t) /\ MatchSets(t)
      /\ query' = query
      /\ query \in Queries
  BY OthersSame DEF OneTxnInv, TxnStep, TypeOK
<1>1. CASE StartExecute(t)
  <2>1. /\ phase'[t] = "execute" /\ next'[t] = 1
        /\ readSet'[t] = <<>> /\ writeSet'[t] = <<>>
        /\ rest' = rest /\ call' = call /\ holds' = holds
    BY <1>1 DEF StartExecute, Goto, TypeOK
  <2>2. \A b \in BOOLEAN : Done(t, b)' = {}
    BY <2>1 DEF Done
  <2>3. SetsFollowQuery(t)'
    <3>1. Len(query[t]) \in Nat
      BY <1>0, QueryLemma
    <3>2. next'[t] \in 1 .. Len(query'[t]) + 1
      BY <1>0, <2>1, <3>1
    <3> QED
      BY <2>1, <2>2, <3>2, NoItems DEF SetsFollowQuery
  <2>4. CallInPlace(t)'
    BY <1>0, <1>1, <2>1, IdleLemma, NoCallInPlace DEF StartExecute, AtOperation
  <2>5. MatchSets(t)'
    BY <1>0, <1>1, <2>1, NoItems
    DEF StartExecute, MatchSets, ReadLocks, WriteLocks, Requested
  <2> QED
    BY <1>0, <2>1, <2>3, <2>4, <2>5 DEF OneTxnInv, RestWithinSet
<1>2. CASE Update(t) \/ Read(t)
  <2>1. /\ phase' = phase /\ next' = next /\ readSet' = readSet
        /\ writeSet' = writeSet /\ rest' = rest /\ holds' = holds
        /\ AtOperation(t)
    BY <1>2 DEF Update, Read, txnVars, set_write_lock_bits, set_read_lock_bits
  <2>2. call'[t].op = RequestOp(CurrentOp(t)) /\ call'[t].key = CurrentOp(t).key
    <3>1. CASE Update(t)
      <4>1. LoadMeta(t, "set_write", CurrentOp(t).key) /\ CurrentOp(t).update
        BY <3>1 DEF Update, set_write_lock_bits
      <4> QED
        BY <4>1 DEF LoadMeta, RequestOp, TypeOK, HelperTypeOK
    <3>2. CASE Read(t)
      <4>1. LoadMeta(t, "set_read", CurrentOp(t).key) /\ ~CurrentOp(t).update
        BY <3>2 DEF Read, set_read_lock_bits
      <4> QED
        BY <4>1 DEF LoadMeta, RequestOp, TypeOK, HelperTypeOK
    <3> QED
      BY <1>2, <3>1, <3>2
  <2>3. SetsFollowQuery(t)'
    BY <1>0, <2>1, SameSets DEF SetsFollowQuery
  <2>4. CallInPlace(t)'
    BY <1>0, <2>1, <2>2 DEF CallInPlace, AtOperation, CurrentOp
  <2>5. MatchSets(t)'
    BY <1>0, <2>1 DEF MatchSets, ReadLocks, WriteLocks, Requested, CurrentOp
  <2> QED
    BY <1>0, <2>1, <2>3, <2>4, <2>5 DEF OneTxnInv, RestWithinSet
<1>3. CASE LockRefused(t)
  <2>1. /\ phase[t] = "execute" /\ phase'[t] = "abort_reads"
        /\ next' = next /\ readSet' = readSet /\ writeSet' = writeSet
        /\ rest'[t] = readSet[t] /\ call'[t] = NoCall /\ holds' = holds
    BY <1>3
    DEF LockRefused, RequestRefused, AtOperation, Loop, Goto, TypeOK, HelperTypeOK
  <2>2. SetsFollowQuery(t)'
    BY <1>0, <2>1, SameSets
  <2>3. RestWithinSet(t)'
    BY <1>0, <2>1 DEF RestWithinSet, SetsFollowQuery
  <2>4. MatchSets(t)'
    BY <1>0, <2>1 DEF MatchSets, ReadLocks, WriteLocks, Requested
  <2> QED
    BY <2>1, <2>2, <2>3, <2>4, NoCallInPlace DEF OneTxnInv
<1>4. CASE LockGranted(t)
  <2>1. /\ phase[t] = "execute" /\ phase'[t] = "granted"
        /\ next[t] \in DOMAIN query[t]
        /\ next' = next /\ readSet' = readSet /\ writeSet' = writeSet
        /\ rest' = rest /\ call'[t] = NoCall /\ call[t] # NoCall
    BY <1>4
    DEF LockGranted, StoreMeta, AtOperation, Goto, TypeOK, HelperTypeOK, NoCall
  <2>2. SetsFollowQuery(t)'
    BY <1>0, <2>1, SameSets
  <2>3. RestWithinSet(t)'
    BY <1>0, <2>1 DEF RestWithinSet
  <2>4. MatchSets(t)'
    <3>1. /\ call[t].op = RequestOp(CurrentOp(t))
          /\ call[t].key = CurrentOp(t).key
      BY <1>0, <2>1 DEF CallInPlace
    <3>2. CurrentOp(t).key \in Keys /\ CurrentOp(t).update \in BOOLEAN
      BY <1>0, <2>1, CurrentLemma
    <3>3. holds'[t] = [holds[t] EXCEPT ![CurrentOp(t).key] = OpMode(CurrentOp(t))]
      BY <1>4, <3>1, <3>2
      DEF LockGranted, StoreMeta, RequestOp, OpMode, TypeOK, HelperTypeOK
    <3>4. /\ ReadLocks(t)' = Range(readSet[t]) \cup Requested(t, FALSE)'
          /\ WriteLocks(t)' = Range(writeSet[t]) \cup Requested(t, TRUE)'
      BY <2>1 DEF ReadLocks, WriteLocks
    <3>5. /\ {j \in Keys : holds[t][j] = "read"} = Range(readSet[t])
          /\ {j \in Keys : holds[t][j] = "write"} = Range(writeSet[t])
      BY <1>0, <2>1 DEF MatchSets, ReadLocks, WriteLocks, Requested
    <3>6. /\ CurrentOp(t).key \notin Range(readSet[t])
          /\ CurrentOp(t).key \notin Range(writeSet[t])
          /\ holds[t] \in [Keys -> {"none", "read", "write"}]
      BY <1>0, <2>1, CurrentLemma DEF TypeOK, HelperTypeOK
    <3>7. /\ Requested(t, TRUE)' = IF CurrentOp(t).update THEN {CurrentOp(t).key} ELSE {}
          /\ Requested(t, FALSE)' = IF CurrentOp(t).update THEN {} ELSE {CurrentOp(t).key}
      <4>1. CurrentOp(t)' = CurrentOp(t)
        BY <1>0, <2>1 DEF CurrentOp
      <4> QED
        BY <2>1, <3>2, <4>1 DEF Requested
    <3>8. CASE CurrentOp(t).update
      <4>1. holds'[t] = [holds[t] EXCEPT ![CurrentOp(t).key] = "write"]
        BY <3>3, <3>8 DEF OpMode
      <4>2. \A j \in Keys : /\ holds'[t][j] = "read" <=> j \in Range(readSet[t])
                            /\ holds'[t][j] = "write" <=>
                                  j \in Range(writeSet[t]) \cup {CurrentOp(t).key}
        BY <3>5, <3>6, <4>1
      <4> QED
        <5>1. /\ ReadLocks(t)' = Range(readSet[t])
              /\ WriteLocks(t)' = Range(writeSet[t]) \cup {CurrentOp(t).key}
          BY <3>4, <3>7, <3>8
        <5>2. Range(readSet[t]) \subseteq Keys /\ Range(writeSet[t]) \subseteq Keys
          BY <3>5
        <5> QED
          BY <3>2, <4>2, <5>1, <5>2 DEF MatchSets
    <3>9. CASE ~CurrentOp(t).update
      <4>1. holds'[t] = [holds[t] EXCEPT ![CurrentOp(t).key] = "read"]
        BY <3>3, <3>9 DEF OpMode
      <4>2. \A j \in Keys : /\ holds'[t][j] = "write" <=> j \in Range(writeSet[t])
                            /\ holds'[t][j] = "read" <=>
                                  j \in Range(readSet[t]) \cup {CurrentOp(t).key}
        BY <3>5, <3>6, <4>1
      <4> QED
        <5>1. /\ ReadLocks(t)' = Range(readSet[t]) \cup {CurrentOp(t).key}
              /\ WriteLocks(t)' = Range(writeSet[t])
          BY <3>4, <3>7, <3>9
        <5>2. Range(readSet[t]) \subseteq Keys /\ Range(writeSet[t]) \subseteq Keys
          BY <3>5
        <5> QED
          BY <3>2, <4>2, <5>1, <5>2 DEF MatchSets
    <3> QED
      BY <3>8, <3>9
  <2> QED
    BY <2>1, <2>2, <2>3, <2>4, NoCallInPlace DEF OneTxnInv
<1>5. CASE AppendItem(t)
  <2>1. /\ phase[t] = "granted" /\ phase'[t] = "execute"
        /\ next'[t] = next[t] + 1 /\ next[t] \in DOMAIN query[t]
        /\ rest' = rest /\ call' = call /\ holds' = holds
    BY <1>0, <1>5 DEF AppendItem, Goto, TypeOK, helperVars, SetsFollowQuery
  <2> DEFINE k == CurrentOp(t).key
  <2>2. /\ k \in Keys /\ CurrentOp(t).update \in BOOLEAN
        /\ k \notin Range(readSet[t]) /\ k \notin Range(writeSet[t])
    BY <1>0, <2>1, CurrentLemma
  <2>3. /\ readSet'[t] = IF CurrentOp(t).update THEN readSet[t] ELSE Append(readSet[t], k)
        /\ writeSet'[t] = IF CurrentOp(t).update THEN Append(writeSet[t], k) ELSE writeSet[t]
    BY <1>5 DEF AppendItem, TypeOK
  <2>4. /\ Range(Append(readSet[t], k)) = Range(readSet[t]) \cup {k}
        /\ Range(Append(writeSet[t], k)) = Range(writeSet[t]) \cup {k}
        /\ IsInjective(readSet'[t]) /\ IsInjective(writeSet'[t])
    <3>1. readSet[t] \in Seq(Keys) /\ writeSet[t] \in Seq(Keys)
      BY DEF TypeOK
    <3>2. IsInjective(readSet[t]) /\ IsInjective(writeSet[t])
      BY <1>0 DEF SetsFollowQuery
    <3>3. /\ Range(Append(readSet[t], k)) = Range(readSet[t]) \cup {k}
          /\ IsInjective(Append(readSet[t], k))
      BY <2>2, <3>1, <3>2, AppendItems
    <3>4. /\ Range(Append(writeSet[t], k)) = Range(writeSet[t]) \cup {k}
          /\ IsInjective(Append(writeSet[t], k))
      BY <2>2, <3>1, <3>2, AppendItems
    <3> QED
      BY <2>2, <2>3, <3>2, <3>3, <3>4
  <2>5. /\ Range(readSet'[t]) = Range(readSet[t]) \cup Requested(t, FALSE)
        /\ Range(writeSet'[t]) = Range(writeSet[t]) \cup Requested(t, TRUE)
    BY <2>1, <2>2, <2>3, <2>4 DEF Requested
  <2>6. ASSUME NEW b \in BOOLEAN
        PROVE  Done(t, b)' = Done(t, b) \cup Requested(t, b)
    <3>1. next[t] \in Nat \ {0} /\ next'[t] - 1 = next[t]
      BY <2>1 DEF TypeOK
    <3>2. \A i : i \in 1 .. next[t] <=> i \in 1 .. next[t] - 1 \/ i = next[t]
      BY <3>1
    <3>3. Done(t, b)' =
            {query[t][i].key : i \in {j \in 1 .. next[t] : query[t][j].update = b}}
      BY <1>0, <3>1 DEF Done
    <3> QED
      BY <2>1, <3>2, <3>3 DEF Done, Requested, CurrentOp
  <2>7. SetsFollowQuery(t)'
    <3>1. next'[t] \in 1 .. Len(query[t]) + 1
      BY <1>0, <2>1, QueryLemma DEF TypeOK
    <3> QED
      BY <1>0, <2>1, <2>4, <2>5, <2>6, <3>1 DEF SetsFollowQuery
  <2>8. CallInPlace(t)'
    BY <1>0, <2>1, IdleLemma, NoCallInPlace DEF AtOperation
  <2>9. MatchSets(t)'
    <3>1. ReadLocks(t)' = Range(readSet'[t]) /\ WriteLocks(t)' = Range(writeSet'[t])
      BY <2>1 DEF ReadLocks, WriteLocks, Requested
    <3>2. /\ ReadLocks(t) = Range(readSet[t]) \cup Requested(t, FALSE)
          /\ WriteLocks(t) = Range(writeSet[t]) \cup Requested(t, TRUE)
      BY <2>1 DEF ReadLocks, WriteLocks
    <3> QED
      BY <1>0, <2>1, <2>5, <3>1, <3>2 DEF MatchSets
  <2> QED
    BY <1>0, <2>1, <2>7, <2>8, <2>9 DEF OneTxnInv, RestWithinSet
<1>6. CASE ExecuteReturns(t)
  <2>1. /\ phase[t] = "execute" /\ phase'[t] = "ready"
        /\ next[t] = Len(query[t]) + 1
        /\ next' = next /\ readSet' = readSet /\ writeSet' = writeSet
        /\ rest' = rest /\ call' = call /\ holds' = holds
    BY <1>6 DEF ExecuteReturns, Goto, TypeOK, helperVars
  <2>2. ~AtOperation(t)
    BY <1>0, <2>1, QueryLemma DEF AtOperation
  <2>3. CallInPlace(t)'
    BY <1>0, <2>1, <2>2, IdleLemma, NoCallInPlace
  <2>4. SetsFollowQuery(t)'
    BY <1>0, <2>1, SameSets
  <2>5. MatchSets(t)'
    BY <1>0, <2>1 DEF MatchSets, ReadLocks, WriteLocks, Requested
  <2> QED
    BY <1>0, <2>1, <2>3, <2>4, <2>5 DEF OneTxnInv, RestWithinSet
<1> QED
  BY <1>1, <1>2, <1>3, <1>4, <1>5, <1>6 DEF ExecuteStep

(* The steps inside a helper call. *)
LEMMA OwnCallStep ==
    ASSUME TypeOK, NEW t \in Txns, OneTxnInv(t), InCall(t)
    PROVE  OneTxnInv(t)'
<1>1. /\ query' = query /\ phase' = phase /\ next' = next /\ readSet' = readSet
      /\ writeSet' = writeSet /\ rest' = rest /\ holds' = holds
  BY DEF InCall, txnVars, Reload, CasSucceeds, CasFails
<1>2. call[t] # NoCall /\ call[t] \in Call
  BY DEF InCall, Reload, CasSucceeds, CasFails, NoCall, TypeOK, HelperTypeOK
<1>3. call'[t].op = call[t].op /\ call'[t].key = call[t].key
  BY <1>2 DEF InCall, Reload, LoadMeta, CasSucceeds, CasFails, TypeOK, HelperTypeOK, Call
<1>4. SetsFollowQuery(t)'
  BY <1>1, SameSets DEF OneTxnInv, SetsFollowQuery
<1>5. CallInPlace(t)'
  BY <1>1, <1>2, <1>3 DEF OneTxnInv, CallInPlace, AtOperation, CurrentOp
<1>6. MatchSets(t)'
  BY <1>1 DEF OneTxnInv, MatchSets, ReadLocks, WriteLocks, Requested, CurrentOp
<1> QED
  BY <1>1, <1>4, <1>5, <1>6 DEF OneTxnInv, RestWithinSet

(* The steps of commit_txn before its releases. *)
LEMMA OwnCommitStep ==
    ASSUME TypeOK, NEW t \in Txns, OneTxnInv(t), CommitStep(t)
    PROVE  OneTxnInv(t)'
<1>0. /\ SetsFollowQuery(t) /\ RestWithinSet(t) /\ CallInPlace(t) /\ MatchSets(t)
  BY DEF OneTxnInv
<1>1. /\ query' = query /\ next' = next /\ readSet' = readSet
      /\ writeSet' = writeSet /\ call' = call /\ holds' = holds
      /\ phase[t] \in {"ready", "install"}
      /\ phase'[t] \in {"install", "commit_reads"}
  BY DEF CommitStep, StartCommit, InstallItem, AllInstalled, Loop, Goto, TypeOK, helperVars
<1>2. CallInPlace(t)'
  BY <1>0, <1>1, IdleLemma, NoCallInPlace DEF AtOperation
<1>3. SetsFollowQuery(t)'
  BY <1>0, <1>1, SameSets DEF SetsFollowQuery
<1>4. CASE StartCommit(t)
  <2>1. rest'[t] = writeSet[t] /\ phase'[t] = "install"
    BY <1>4 DEF StartCommit, Loop, Goto, TypeOK
  <2>2. RestWithinSet(t)'
    BY <1>0, <1>1, <2>1 DEF RestWithinSet, SetsFollowQuery
  <2>3. MatchSets(t)'
    BY <1>0, <1>1, <2>1 DEF MatchSets, ReadLocks, WriteLocks, Requested
  <2> QED
    BY <1>2, <1>3, <2>2, <2>3 DEF OneTxnInv
<1>5. CASE InstallItem(t)
  <2>1. /\ phase[t] = "install" /\ rest[t] # <<>>
        /\ rest'[t] = Tail(rest[t]) /\ phase' = phase
    BY <1>5 DEF InstallItem, TypeOK
  <2>2. rest[t] \in Seq(Keys)
    BY DEF TypeOK
  <2>3. RestWithinSet(t)'
    BY <1>0, <1>1, <2>1, <2>2, WalkItems DEF RestWithinSet
  <2>4. MatchSets(t)'
    BY <1>0, <1>1, <2>1 DEF MatchSets, ReadLocks, WriteLocks, Requested
  <2> QED
    BY <1>2, <1>3, <2>3, <2>4 DEF OneTxnInv
<1>6. CASE AllInstalled(t)
  <2>1. rest'[t] = readSet[t] /\ phase[t] = "install" /\ phase'[t] = "commit_reads"
    BY <1>6 DEF AllInstalled, Loop, Goto, TypeOK
  <2>2. RestWithinSet(t)'
    BY <1>0, <1>1, <2>1 DEF RestWithinSet, SetsFollowQuery
  <2>3. MatchSets(t)'
    BY <1>0, <1>1, <2>1 DEF MatchSets, ReadLocks, WriteLocks, Requested
  <2> QED
    BY <1>2, <1>3, <2>2, <2>3 DEF OneTxnInv
<1> QED
  BY <1>4, <1>5, <1>6 DEF CommitStep

(* The steps of the release loops, after a refusal or in commit_txn. *)
LEMMA OwnReleaseStep ==
    ASSUME TypeOK, NEW t \in Txns, OneTxnInv(t), ReleaseStep(t)
    PROVE  OneTxnInv(t)'
<1>0. /\ SetsFollowQuery(t) /\ RestWithinSet(t) /\ CallInPlace(t) /\ MatchSets(t)
      /\ rest[t] \in Seq(Keys)
      /\ holds[t] \in [Keys -> {"none", "read", "write"}]
  BY DEF OneTxnInv, TypeOK, HelperTypeOK
<1>1. /\ query' = query /\ next' = next /\ readSet' = readSet /\ writeSet' = writeSet
      /\ phase[t] \in {"abort_reads", "commit_reads", "abort_writes", "commit_writes"}
      /\ phase'[t] \in {"abort_reads", "commit_reads", "abort_writes", "commit_writes",
                        "queued", "committed"}
  BY DEF ReleaseStep, ReleaseRead, ReadReleased, ReadsReleased, ReleaseWrite,
         Requeue, Committed, Loop, Goto, TypeOK, txnVars
<1>2. SetsFollowQuery(t)'
  BY <1>0, <1>1, SameSets DEF SetsFollowQuery
<1>3. CASE ReleaseRead(t)
  <2> DEFINE k == Head(rest[t])
  <2>1. /\ phase[t] \in {"abort_reads", "commit_reads"} /\ phase' = phase
        /\ rest[t] # <<>> /\ rest'[t] = Tail(rest[t])
        /\ holds'[t] = [holds[t] EXCEPT ![k] = "none"]
        /\ call'[t].op = "release_read" /\ call'[t].key = k
    BY <1>3
    DEF ReleaseRead, release_read_lock_bits, LoadMeta, TypeOK, HelperTypeOK
  <2>2. /\ k \in Range(rest[t]) /\ k \in Keys
        /\ IsInjective(Tail(rest[t]))
        /\ Range(Tail(rest[t])) = Range(rest[t]) \ {k}
    BY <1>0, <2>1, WalkItems DEF RestWithinSet
  <2>3. RestWithinSet(t)'
    BY <1>0, <1>1, <2>1, <2>2 DEF RestWithinSet
  <2>4. CallInPlace(t)'
    BY <1>0, <2>1, <2>2 DEF CallInPlace
  <2>5. MatchSets(t)'
    <3>1. /\ ReadLocks(t) = Range(rest[t]) /\ ReadLocks(t)' = Range(rest[t]) \ {k}
          /\ WriteLocks(t) = Range(writeSet[t]) /\ WriteLocks(t)' = Range(writeSet[t])
      BY <1>1, <2>1, <2>2 DEF ReadLocks, WriteLocks, Requested
    <3>2. holds[t][k] = "read"
      BY <1>0, <2>2, <3>1 DEF MatchSets
    <3> QED
      BY <1>0, <2>1, <2>2, <3>1, <3>2 DEF MatchSets
  <2> QED
    BY <1>2, <2>3, <2>4, <2>5 DEF OneTxnInv
<1>4. CASE ReadReleased(t)
  <2>1. /\ phase[t] \in {"abort_reads", "commit_reads"} /\ phase' = phase
        /\ rest' = rest /\ call'[t] = NoCall /\ call[t] # NoCall
    BY <1>4 DEF ReadReleased, StoreMeta, txnVars, TypeOK, HelperTypeOK, NoCall
  <2>2. call[t].op = "release_read" /\ holds[t][call[t].key] = "none"
    BY <1>0, <2>1 DEF CallInPlace, AtOperation
  <2>3. holds'[t] = [holds[t] EXCEPT ![call[t].key] = "none"]
    BY <1>4, <2>2 DEF ReadReleased, StoreMeta, TypeOK, HelperTypeOK
  <2>4. \A j \in Keys : holds'[t][j] = holds[t][j]
    BY <1>0, <2>2, <2>3
  <2>5. ReadLocks(t)' = ReadLocks(t) /\ WriteLocks(t)' = WriteLocks(t)
    BY <1>1, <2>1 DEF ReadLocks, WriteLocks, Requested
  <2>6. MatchSets(t)'
    BY <1>0, <2>4, <2>5 DEF MatchSets
  <2> QED
    BY <1>0, <1>1, <1>2, <2>1, <2>6, NoCallInPlace DEF OneTxnInv, RestWithinSet
<1>5. CASE ReadsReleased(t)
  <2>1. /\ phase[t] \in {"abort_reads", "commit_reads"}
        /\ phase'[t] \in {"abort_writes", "commit_writes"}
        /\ rest[t] = <<>> /\ rest'[t] = writeSet[t]
        /\ call'[t] = NoCall /\ holds' = holds
    BY <1>5 DEF ReadsReleased, Loop, Goto, TypeOK, helperVars
  <2>2. /\ ReadLocks(t)' = {} /\ ReadLocks(t) = {}
        /\ WriteLocks(t) = Range(writeSet[t]) /\ WriteLocks(t)' = Range(writeSet[t])
    BY <2>1, NoItems DEF ReadLocks, WriteLocks, Requested
  <2>3. RestWithinSet(t)'
    BY <1>0, <1>1, <2>1 DEF RestWithinSet, SetsFollowQuery
  <2>4. MatchSets(t)'
    BY <1>0, <2>1, <2>2 DEF MatchSets
  <2> QED
    BY <1>2, <2>1, <2>3, <2>4, NoCallInPlace DEF OneTxnInv
<1>6. CASE ReleaseWrite(t)
  <2> DEFINE k == Head(rest[t])
  <2>1. /\ phase[t] \in {"abort_writes", "commit_writes"} /\ phase' = phase
        /\ rest[t] # <<>> /\ rest'[t] = Tail(rest[t])
        /\ holds'[t] = [holds[t] EXCEPT ![k] = "none"]
        /\ call'[t] = NoCall
    BY <1>6 DEF ReleaseWrite, release_write_lock_bits, TypeOK, HelperTypeOK
  <2>2. /\ k \in Range(rest[t]) /\ k \in Keys
        /\ IsInjective(Tail(rest[t]))
        /\ Range(Tail(rest[t])) = Range(rest[t]) \ {k}
    BY <1>0, <2>1, WalkItems DEF RestWithinSet
  <2>3. RestWithinSet(t)'
    BY <1>0, <1>1, <2>1, <2>2 DEF RestWithinSet
  <2>4. MatchSets(t)'
    <3>1. /\ ReadLocks(t) = {} /\ ReadLocks(t)' = {}
          /\ WriteLocks(t) = Range(rest[t]) /\ WriteLocks(t)' = Range(rest[t]) \ {k}
      BY <1>1, <2>1, <2>2 DEF ReadLocks, WriteLocks
    <3>2. holds[t][k] = "write"
      BY <1>0, <2>2, <3>1 DEF MatchSets
    <3> QED
      BY <1>0, <2>1, <2>2, <3>1, <3>2 DEF MatchSets
  <2> QED
    BY <1>2, <2>1, <2>3, <2>4, NoCallInPlace DEF OneTxnInv
<1>7. CASE Requeue(t) \/ Committed(t)
  <2>1. /\ phase[t] \in {"abort_writes", "commit_writes"}
        /\ phase'[t] \in {"queued", "committed"}
        /\ rest[t] = <<>> /\ rest' = rest /\ call' = call /\ holds' = holds
    BY <1>7 DEF Requeue, Committed, Goto, TypeOK, helperVars
  <2>2. CallInPlace(t)'
    BY <1>0, <2>1, IdleLemma, NoCallInPlace DEF AtOperation
  <2>3. MatchSets(t)'
    BY <1>0, <2>1, NoItems DEF MatchSets, ReadLocks, WriteLocks
  <2> QED
    BY <1>0, <1>2, <2>1, <2>2, <2>3 DEF OneTxnInv, RestWithinSet
<1> QED
  BY <1>3, <1>4, <1>5, <1>6, <1>7 DEF ReleaseStep

LEMMA TxnInvStep ==
    ASSUME TypeOK, TxnInv, [Next]_vars
    PROVE  TxnInv'
<1>1. CASE UNCHANGED vars
  <2>1. ASSUME NEW u \in Txns PROVE OneTxnInv(u)'
    <3>1. query' = query /\ Same(u)
      BY <1>1 DEF vars, helperVars, txnVars, Same
    <3> QED
      BY <3>1, SameKeeps, TxnInvByTxn
  <2> QED
    BY <2>1 DEF TxnInv, OneTxnInv, LocksMatchSets, MatchSets
<1>2. ASSUME NEW t \in Txns, TxnStep(t)
      PROVE  TxnInv'
  <2>1. OneTxnInv(t)
    BY TxnInvByTxn
  <2>2. OneTxnInv(t)'
    <3>1. CASE InCall(t)
      BY <2>1, <3>1, OwnCallStep
    <3>2. CASE ExecuteStep(t)
      BY <2>1, <3>2, OwnExecuteStep
    <3>3. CASE CommitStep(t)
      BY <2>1, <3>3, OwnCommitStep
    <3>4. CASE ReleaseStep(t)
      BY <2>1, <3>4, OwnReleaseStep
    <3> QED
      BY <1>2, <3>1, <3>2, <3>3, <3>4 DEF TxnStep
  <2>3. ASSUME NEW u \in Txns \ {t} PROVE OneTxnInv(u)'
    BY <1>2, <2>3, OthersSame, SameKeeps, TxnInvByTxn
  <2>4. \A u \in Txns : OneTxnInv(u)'
    BY <2>2, <2>3
  <2> QED
    BY <2>4 DEF TxnInv, OneTxnInv, LocksMatchSets, MatchSets
<1> QED
  BY <1>1, <1>2 DEF Next

LEMMA TxnInvInit == Init => TypeOK /\ TxnInv
<1> SUFFICES ASSUME Init PROVE TypeOK /\ TxnInv
  OBVIOUS
<1>1. TypeOK
  BY HelperTypeInit, EmptySeq DEF Init, TypeOK, Phases
<1>2. ASSUME NEW t \in Txns PROVE OneTxnInv(t)
  <2>1. /\ readSet[t] = <<>> /\ writeSet[t] = <<>> /\ rest[t] = <<>>
        /\ next[t] = 1 /\ phase[t] = "queued" /\ call[t] = NoCall
        /\ \A k \in Keys : holds[t][k] = "none"
    BY DEF Init, HelperInit
  <2>2. \A b \in BOOLEAN : Done(t, b) = {}
    BY <2>1 DEF Done
  <2>3. Len(query[t]) \in Nat
    BY <1>1, QueryLemma DEF TypeOK
  <2>4. SetsFollowQuery(t)
    <3>1. next[t] \in 1 .. Len(query[t]) + 1
      BY <2>1, <2>3
    <3> QED
      BY <2>1, <2>2, <3>1, NoItems DEF SetsFollowQuery
  <2> QED
    BY <2>1, <2>4, NoItems
    DEF OneTxnInv, RestWithinSet, CallInPlace, MatchSets, ReadLocks, WriteLocks
<1> QED
  BY <1>1, <1>2, TxnInvByTxn

-----------------------------------------------------------------------------
(* Theorems.                                                                *)

(* The types and the bookkeeping hold in every reachable state, for any     *)
(* number of transactions and rows and any workload.                        *)
THEOREM TxnInvCorrect == Spec => [](TypeOK /\ TxnInv)
<1>1. TypeOK /\ TxnInv /\ [Next]_vars => (TypeOK /\ TxnInv)'
  BY TypeStep, TxnInvStep
<1> QED
  BY <1>1, TxnInvInit, PTL DEF Spec

THEOREM TypeCorrect == Spec => []TypeOK
BY TxnInvCorrect, PTL

(* Every lock granted is accounted for by the transaction's own sets, in    *)
(* every phase of its execution, abort, retry and commit.                   *)
THEOREM LocksMatchSetsCorrect == Spec => []LocksMatchSets
<1>1. TxnInv => LocksMatchSets
  BY DEF TxnInv
<1> QED
  BY <1>1, TxnInvCorrect, PTL

(* The transactions use the helper as its specification assumes.            *)
THEOREM KeepsContractCorrect == Spec => KeepsContract
<1>1. Init => HelperInit
  BY DEF Init
<1>2. TypeOK /\ TxnInv /\ [Next]_vars => [HelperNext]_helperVars
  BY ContractStep
<1> QED
  BY <1>1, <1>2, TxnInvCorrect, PTL DEF Spec, HelperSpec, KeepsContract

(* So what is proved of the helper holds of the whole system: two           *)
(* transactions never both have a row nobody reads.                         *)
THEOREM TxnWritersExcluded == Spec => []WritersExcluded
BY KeepsContractCorrect, WritersExcludedCorrect, PTL DEF KeepsContract

LEMMA FullyLocked ==
    ASSUME TypeOK, TxnInv
    PROVE  CommitsFullyLocked
<1> SUFFICES ASSUME NEW t \in Txns, phase[t] \in {"ready", "install"},
                    NEW i \in DOMAIN query[t]
             PROVE  holds[t][query[t][i].key] = OpMode(query[t][i])
  BY DEF CommitsFullyLocked
<1>1. /\ query[t][i].key \in Keys
      /\ query[t][i].update \in BOOLEAN
  BY QueryLemma DEF TypeOK
<1>2. i \in 1 .. next[t] - 1
  <2>1. i \in 1 .. Len(query[t]) /\ Len(query[t]) \in Nat
    BY QueryLemma DEF TypeOK
  <2>2. next[t] = Len(query[t]) + 1
    BY DEF TxnInv, SetsFollowQuery
  <2> QED
    BY <2>1, <2>2
<1>3. query[t][i].key \in Done(t, query[t][i].update)
  BY <1>2 DEF Done
<1>4. /\ {k \in Keys : holds[t][k] = "read"} = Done(t, FALSE)
      /\ {k \in Keys : holds[t][k] = "write"} = Done(t, TRUE)
  <2>1. ReadLocks(t) = Range(readSet[t]) /\ WriteLocks(t) = Range(writeSet[t])
    BY DEF ReadLocks, WriteLocks, Requested
  <2> QED
    BY <2>1 DEF TxnInv, SetsFollowQuery, LocksMatchSets
<1>5. CASE query[t][i].update = TRUE
  BY <1>1, <1>3, <1>4, <1>5 DEF OpMode
<1>6. CASE query[t][i].update = FALSE
  BY <1>1, <1>3, <1>4, <1>6 DEF OpMode
<1> QED
  BY <1>1, <1>5, <1>6

(* No transaction commits without the locks of its whole query.             *)
THEOREM CommitsFullyLockedCorrect == Spec => []CommitsFullyLocked
BY TxnInvCorrect, FullyLocked, PTL

(* A row changes only under the write lock of the writer, which on a row    *)
(* nobody reads excludes everyone else.                                     *)
THEOREM InstallsUnderLockCorrect == Spec => InstallsUnderLock
<1>1. ASSUME TypeOK, TxnInv, WritersExcluded, Next,
             NEW k \in Keys, data'[k] # data[k]
      PROVE  \E t \in Txns :
                /\ data'[k] = t
                /\ holds[t][k] = "write"
                /\ k \in WriteOnlyKeys => \A u \in Txns \ {t} : holds[u][k] = "none"
  <2>1. PICK t \in Txns : InstallItem(t)
    BY <1>1
    DEF Next, TxnStep, InCall, ExecuteStep, CommitStep, ReleaseStep, StartExecute,
        Update, Read, LockRefused, LockGranted, AppendItem, ExecuteReturns,
        StartCommit, AllInstalled, ReleaseRead, ReadReleased, ReadsReleased,
        ReleaseWrite, Requeue, Committed, txnVars
  <2>2. k = Head(rest[t]) /\ data'[k] = t
    BY <1>1, <2>1 DEF InstallItem, TypeOK
  <2>3. k \in Range(writeSet[t])
    BY <1>1, <2>1, <2>2, WalkItems DEF InstallItem, TypeOK, TxnInv, RestWithinSet
  <2>4. holds[t][k] = "write"
    BY <1>1, <2>1, <2>3 DEF InstallItem, TxnInv, LocksMatchSets, WriteLocks
  <2> QED
    BY <1>1, <2>2, <2>4 DEF WritersExcluded, Excludes
<1>2. TypeOK /\ TxnInv /\ WritersExcluded /\ [Next]_vars =>
        [\A k \in Keys : data'[k] # data[k] =>
            \E t \in Txns :
                /\ data'[k] = t
                /\ holds[t][k] = "write"
                /\ k \in WriteOnlyKeys => \A u \in Txns \ {t} : holds[u][k] = "none"]_vars
  BY <1>1
<1> QED
  BY <1>2, TxnInvCorrect, TxnWritersExcluded, PTL DEF Spec, InstallsUnderLock

-----------------------------------------------------------------------------
(* Copied updates stay.  While a transaction is copying, the rows it has    *)
(* behind it are written.                                                   *)
CopiedSoFar(t) == phase[t] = "install" =>
    \A k \in Range(writeSet[t]) : k \in Range(rest[t]) \/ data[k] # NoTxn

UpdatesInv == UpdatesStay /\ \A t \in Txns : CopiedSoFar(t)

LEMMA WritesOfQuery ==
    ASSUME TypeOK, TxnInv, NEW t \in Txns
    PROVE  /\ \A k \in Range(writeSet[t]) : t \in Updaters(k)
           /\ phase[t] = "install" => \A k : t \in Updaters(k) => k \in Range(writeSet[t])
<1>1. /\ DOMAIN query[t] = 1 .. Len(query[t]) /\ Len(query[t]) \in Nat
      /\ next[t] \in 1 .. Len(query[t]) + 1
      /\ phase[t] = "install" => next[t] = Len(query[t]) + 1
      /\ Range(writeSet[t]) = Done(t, TRUE)
  BY QueryLemma DEF TypeOK, TxnInv, SetsFollowQuery
<1>2. 1 .. next[t] - 1 \subseteq DOMAIN query[t]
  BY <1>1
<1>3. phase[t] = "install" => 1 .. next[t] - 1 = DOMAIN query[t]
  BY <1>1
<1>4. ASSUME NEW k \in Done(t, TRUE) PROVE t \in Updaters(k)
  BY <1>2, <1>4 DEF Done, Updaters
<1>5. ASSUME phase[t] = "install", NEW k, t \in Updaters(k) PROVE k \in Done(t, TRUE)
  <2>1. PICK i \in DOMAIN query[t] : query[t][i].update /\ query[t][i].key = k
    BY <1>5 DEF Updaters
  <2>2. query[t][i].update = TRUE
    BY <2>1, QueryLemma DEF TypeOK
  <2> QED
    BY <1>3, <1>5, <2>1, <2>2 DEF Done
<1> QED
  BY <1>1, <1>4, <1>5

(* A row only ever gets the value of a transaction that updates it.         *)
LEMMA OnlyUpdatersWrite ==
    ASSUME TypeOK, TxnInv, NEW t \in Txns, TxnStep(t), NEW k \in Keys
    PROVE  data'[k] = data[k] \/ (data'[k] = t /\ t \in Updaters(k) /\ t # NoTxn)
<1>1. CASE data' = data
  BY <1>1
<1>2. CASE InstallItem(t)
  <2>1. rest[t] \in Seq(Keys) /\ rest[t] # <<>>
        /\ data' = [data EXCEPT ![Head(rest[t])] = t] /\ phase[t] = "install"
    BY <1>2 DEF InstallItem, TypeOK
  <2>2. Head(rest[t]) \in Range(writeSet[t])
    BY <2>1, WalkItems DEF TxnInv, RestWithinSet
  <2> QED
    BY <2>1, <2>2, WritesOfQuery, TransactionAssumption DEF TypeOK
<1> QED
  BY <1>1, <1>2
  DEF TxnStep, InCall, ExecuteStep, CommitStep, ReleaseStep, StartExecute,
      Update, Read, LockRefused, LockGranted, AppendItem, ExecuteReturns,
      StartCommit, AllInstalled, ReleaseRead, ReadReleased, ReadsReleased,
      ReleaseWrite, Requeue, Committed, txnVars

(* How a transaction comes to commit, copies, and leaves off copying.       *)
LEMMA CopyPhases ==
    ASSUME TypeOK, TxnInv, NEW t \in Txns, TxnStep(t)
    PROVE  /\ phase'[t] = "install" =>
                 \/ phase[t] = "ready" /\ rest'[t] = writeSet'[t]
                 \/ /\ phase[t] = "install" /\ rest[t] # <<>>
                    /\ data' = [data EXCEPT ![Head(rest[t])] = t]
                    /\ rest'[t] = Tail(rest[t]) /\ writeSet' = writeSet
           /\ Copied(t)' => \/ Copied(t)
                            \/ phase[t] = "install" /\ rest[t] = <<>> /\ data' = data
<1> USE DEF TypeOK, Goto, Loop, Copied
<1>1. CASE StartCommit(t)
  BY <1>1 DEF StartCommit
<1>2. CASE InstallItem(t)
  BY <1>2 DEF InstallItem
<1>3. CASE AllInstalled(t)
  BY <1>3 DEF AllInstalled
<1>4. CASE InCall(t)
  <2>1. call[t] # NoCall
    BY <1>4 DEF InCall, Reload, CasSucceeds, CasFails, NoCall
  <2>2. phase[t] \in {"execute", "abort_reads", "commit_reads"}
    BY <2>1 DEF TxnInv, CallInPlace, AtOperation
  <2> QED
    BY <1>4, <2>2 DEF InCall, txnVars
<1>5. CASE ExecuteStep(t)
  BY <1>5 DEF ExecuteStep, StartExecute, Update, Read, LockRefused, LockGranted,
     AppendItem, ExecuteReturns, AtOperation, txnVars
<1>6. CASE ReleaseStep(t)
  BY <1>6 DEF ReleaseStep, ReleaseRead, ReadReleased, ReadsReleased, ReleaseWrite,
     Requeue, Committed, txnVars
<1> QED
  BY <1>1, <1>2, <1>3, <1>4, <1>5, <1>6 DEF TxnStep, CommitStep

LEMMA UpdatesStep ==
    ASSUME TypeOK, TxnInv, UpdatesInv, [Next]_vars
    PROVE  UpdatesInv'
<1>1. CASE UNCHANGED vars
  BY <1>1 DEF vars, txnVars, UpdatesInv, UpdatesStay, CopiedSoFar, Updaters, Copied
<1>2. ASSUME NEW t \in Txns, TxnStep(t)
      PROVE  UpdatesInv'
  <2>1. query' = query /\ \A u \in Txns \ {t} : Same(u)
    BY <1>2, OthersSame
  <2>2. \A k : Updaters(k)' = Updaters(k)
    BY <2>1 DEF Updaters
  <2>3. \A k \in Keys : data'[k] = data[k] \/ (data'[k] \in Updaters(k) /\ data'[k] # NoTxn)
    BY <1>2, OnlyUpdatersWrite
  <2>4. \A u \in Txns : Range(writeSet[u]) \subseteq Keys
    BY DEF TypeOK, Range
  <2>5. ASSUME NEW u \in Txns PROVE CopiedSoFar(u)'
    <3>1. CASE u # t
      BY <2>1, <2>3, <2>4, <3>1 DEF Same, CopiedSoFar, UpdatesInv
    <3>2. CASE u = t /\ phase'[t] = "install"
      <4>1. CASE rest'[t] = writeSet'[t]
        BY <3>2, <4>1 DEF CopiedSoFar
      <4>2. CASE /\ phase[t] = "install" /\ rest[t] # <<>>
                 /\ data' = [data EXCEPT ![Head(rest[t])] = t]
                 /\ rest'[t] = Tail(rest[t]) /\ writeSet' = writeSet
        <5>1. /\ Range(Tail(rest[t])) = Range(rest[t]) \ {Head(rest[t])}
              /\ Head(rest[t]) \in Keys
          BY <4>2, WalkItems DEF TypeOK, TxnInv, RestWithinSet
        <5>2. data'[Head(rest[t])] = t /\ t # NoTxn
          BY <4>2, <5>1, TransactionAssumption DEF TypeOK
        <5> QED
          BY <2>3, <2>4, <3>2, <4>2, <5>1, <5>2 DEF CopiedSoFar, UpdatesInv
      <4> QED
        BY <1>2, <3>2, <4>1, <4>2, CopyPhases
    <3> QED
      BY <3>1, <3>2 DEF CopiedSoFar
  <2>6. ASSUME NEW k \in Keys, NEW u \in Updaters(k), Copied(u)'
        PROVE  data'[k] # NoTxn
    <3>1. u \in Txns
      BY DEF Updaters
    <3>2. CASE Copied(u)
      BY <2>3, <3>2 DEF UpdatesInv, UpdatesStay
    <3>3. CASE ~Copied(u)
      <4>1. u = t
        BY <2>1, <2>6, <3>1, <3>3 DEF Same, Copied
      <4>2. phase[t] = "install" /\ rest[t] = <<>> /\ data' = data
        BY <1>2, <2>6, <3>3, <4>1, CopyPhases
      <4>3. k \in Range(writeSet[t])
        BY <4>1, <4>2, WritesOfQuery
      <4>4. k \notin Range(rest[t])
        BY <4>2, NoItems
      <4> QED
        BY <4>2, <4>3, <4>4 DEF UpdatesInv, CopiedSoFar
    <3> QED
      BY <3>2, <3>3
  <2>7. UpdatesStay'
    BY <2>2, <2>3, <2>6 DEF UpdatesInv, UpdatesStay
  <2> QED
    BY <2>5, <2>7 DEF UpdatesInv
<1> QED
  BY <1>1, <1>2 DEF Next

(* An update that has been copied stays until another update of the row,    *)
(* so that a row one transaction updates ends with that one's value in      *)
(* every execution, even a row that others read.                            *)
THEOREM UpdatesStayCorrect == Spec => []UpdatesStay
<1>1. Init => UpdatesInv
  BY DEF Init, UpdatesInv, UpdatesStay, CopiedSoFar, Copied, Updaters
<1>2. UpdatesInv => UpdatesStay
  BY DEF UpdatesInv
<1> QED
  BY <1>1, <1>2, UpdatesStep, TxnInvCorrect, PTL DEF Spec

-----------------------------------------------------------------------------
(* The rows nobody reads are a serial store.                                *)

LEMMA PendingLocked ==
    ASSUME TypeOK, TxnInv, NEW t \in Txns, NEW k, Pending(t, k)
    PROVE  k \in Keys /\ holds[t][k] = "write"
<1>1. k \in Range(writeSet[t])
  BY DEF Pending, TxnInv, RestWithinSet
<1>2. WriteLocks(t) = {j \in Keys : holds[t][j] = "write"}
  BY DEF TxnInv, LocksMatchSets
<1> QED
  BY <1>1, <1>2 DEF Pending, WriteLocks

LEMMA PendingUnique ==
    ASSUME TypeOK, TxnInv, WritersExcluded,
           NEW k \in WriteOnlyKeys, NEW t \in Txns, Pending(t, k)
    PROVE  LogicalStore[k] = t
<1>1. \A u \in Txns : Pending(u, k) => u = t
  BY PendingLocked DEF WritersExcluded, Excludes
<1> QED
  BY <1>1 DEF LogicalStore

(* A step that moves no transaction into or out of commit_txn's copying,    *)
(* and no row, is invisible.                                                *)
LEMMA SerialStutter ==
    ASSUME query' = query, data' = data,
           \A t \in Txns : \A k \in WriteOnlyKeys : Pending(t, k)' <=> Pending(t, k),
           \A t \in Txns : Decided(t)' <=> Decided(t)
    PROVE  UNCHANGED Serial!serialVars
<1>1. ASSUME NEW k \in WriteOnlyKeys
      PROVE  LogicalStore'[k] = LogicalStore[k]
  <2>1. CASE \E t \in Txns : Pending(t, k)
    BY <2>1 DEF LogicalStore
  <2>2. CASE ~\E t \in Txns : Pending(t, k)
    BY <2>2 DEF LogicalStore
  <2> QED
    BY <2>1, <2>2
<1>2. LogicalStore' = LogicalStore
  BY <1>1 DEF LogicalStore, WriteOnlyKeys
<1>3. WriteKeys' = WriteKeys
  BY DEF WriteKeys, WriteOnlyKeys
<1>4. DecidedTxns' = DecidedTxns
  BY DEF DecidedTxns
<1> QED
  BY <1>2, <1>3, <1>4 DEF Serial!serialVars

LEMMA SerialCommit ==
    ASSUME TypeOK, TxnInv, WritersExcluded, NEW t \in Txns, StartCommit(t)
    PROVE  Serial!Commit(t)
<1>1. /\ query' = query /\ data' = data /\ holds' = holds
      /\ phase[t] = "ready" /\ phase' = [phase EXCEPT ![t] = "install"]
      /\ rest' = [rest EXCEPT ![t] = writeSet[t]]
      /\ phase'[t] = "install" /\ rest'[t] = writeSet[t]
      /\ \A u \in Txns \ {t} : phase'[u] = phase[u] /\ rest'[u] = rest[u]
  BY DEF StartCommit, Loop, Goto, TypeOK, helperVars
<1>2. t \notin DecidedTxns /\ DecidedTxns' = DecidedTxns \cup {t}
  BY <1>1 DEF DecidedTxns, Decided
<1>3. WriteKeys' = WriteKeys
  BY <1>1 DEF WriteKeys, WriteOnlyKeys
<1>4. \A u \in Txns \ {t} : \A k : Pending(u, k)' <=> Pending(u, k)
  BY <1>1 DEF Pending
<1>5. \A k : ~Pending(t, k) /\ (Pending(t, k)' <=> k \in Range(writeSet[t]))
  BY <1>1 DEF Pending
<1>6. ASSUME NEW k \in WriteOnlyKeys
      PROVE  k \in WriteKeys[t] <=> k \in Range(writeSet[t])
  <2>1. Range(writeSet[t]) = Done(t, TRUE) /\ next[t] = Len(query[t]) + 1
    BY <1>1 DEF TxnInv, SetsFollowQuery
  <2>2. /\ DOMAIN query[t] = 1 .. next[t] - 1
        /\ \A i \in DOMAIN query[t] : query[t][i].update \in BOOLEAN
    BY <2>1, QueryLemma DEF TypeOK
  <2> QED
    BY <2>1, <2>2 DEF WriteKeys, Done
<1>7. ASSUME NEW k \in WriteOnlyKeys
      PROVE  LogicalStore'[k] = IF k \in WriteKeys[t] THEN t ELSE LogicalStore[k]
  <2>1. CASE k \in WriteKeys[t]
    <3>1. holds[t][k] = "write"
      BY <1>1, <1>6, <2>1 DEF TxnInv, LocksMatchSets, WriteLocks
    <3>2. \A u \in Txns : Pending(u, k)' <=> u = t
      BY <1>4, <1>5, <1>6, <2>1, <3>1, PendingLocked DEF WritersExcluded, Excludes
    <3>3. LogicalStore'[k] = t
      BY <3>2 DEF LogicalStore, WriteOnlyKeys
    <3> QED
      BY <2>1, <3>3
  <2>2. CASE k \notin WriteKeys[t]
    <3>1. \A u \in Txns : Pending(u, k)' <=> Pending(u, k)
      BY <1>4, <1>5, <1>6, <2>2
    <3>2. CASE \E u \in Txns : Pending(u, k)
      BY <2>2, <3>1, <3>2 DEF LogicalStore, WriteOnlyKeys
    <3>3. CASE ~\E u \in Txns : Pending(u, k)
      BY <1>1, <2>2, <3>1, <3>3 DEF LogicalStore, WriteOnlyKeys
    <3> QED
      BY <3>2, <3>3
  <2> QED
    BY <2>1, <2>2
<1>8. LogicalStore' =
        [k \in WriteOnlyKeys |-> IF k \in WriteKeys[t] THEN t ELSE LogicalStore[k]]
  BY <1>7 DEF LogicalStore, WriteOnlyKeys
<1> QED
  BY <1>2, <1>3, <1>8 DEF Serial!Commit

LEMMA SerialInstall ==
    ASSUME TypeOK, TxnInv, WritersExcluded, NEW t \in Txns, InstallItem(t)
    PROVE  UNCHANGED Serial!serialVars
<1>0. PICK h \in Keys : h = Head(rest[t])
  BY WalkItems DEF InstallItem, TypeOK
<1>1. /\ query' = query /\ phase' = phase /\ holds' = holds
      /\ phase[t] = "install" /\ rest[t] # <<>> /\ rest[t] \in Seq(Keys)
      /\ IsInjective(rest[t])
      /\ data' = [data EXCEPT ![h] = t]
      /\ rest'[t] = Tail(rest[t])
      /\ \A u \in Txns \ {t} : rest'[u] = rest[u]
  BY <1>0 DEF InstallItem, TypeOK, helperVars, TxnInv, RestWithinSet
<1>2. h \in Keys /\ h \in Range(rest[t]) /\ Range(rest'[t]) = Range(rest[t]) \ {h}
  BY <1>0, <1>1, WalkItems
<1>3. Pending(t, h) /\ ~Pending(t, h)'
  BY <1>1, <1>2 DEF Pending
<1>4. \A u \in Txns : \A k : u # t \/ k # h => (Pending(u, k)' <=> Pending(u, k))
  BY <1>1, <1>2 DEF Pending
<1>5. ASSUME NEW k \in WriteOnlyKeys
      PROVE  LogicalStore'[k] = LogicalStore[k]
  <2>1. CASE k = h
    <3>1. LogicalStore[k] = t
      BY <1>3, <2>1, <1>5, PendingUnique
    <3>2. \A u \in Txns : Pending(u, k) => u = t
      BY <1>3, <1>5, <2>1, PendingLocked DEF WritersExcluded, Excludes
    <3>3. ~\E u \in Txns : Pending(u, k)'
      BY <1>3, <1>4, <2>1, <3>2
    <3>4. data'[k] = t
      BY <1>1, <1>2, <2>1 DEF TypeOK
    <3> QED
      BY <3>1, <3>3, <3>4 DEF LogicalStore, WriteOnlyKeys
  <2>2. CASE k # h
    <3>1. \A u \in Txns : Pending(u, k)' <=> Pending(u, k)
      BY <1>4, <2>2
    <3>2. data'[k] = data[k]
      BY <1>1, <2>2 DEF TypeOK
    <3>3. CASE \E u \in Txns : Pending(u, k)
      BY <3>1, <3>3 DEF LogicalStore, WriteOnlyKeys
    <3>4. CASE ~\E u \in Txns : Pending(u, k)
      BY <3>1, <3>2, <3>4 DEF LogicalStore, WriteOnlyKeys
    <3> QED
      BY <3>3, <3>4
  <2> QED
    BY <2>1, <2>2
<1>6. LogicalStore' = LogicalStore
  BY <1>5 DEF LogicalStore, WriteOnlyKeys
<1>7. WriteKeys' = WriteKeys /\ DecidedTxns' = DecidedTxns
  BY <1>1 DEF WriteKeys, WriteOnlyKeys, DecidedTxns, Decided
<1> QED
  BY <1>6, <1>7 DEF Serial!serialVars

(* The steps of a transaction that do not begin its commit.                 *)
QuietStep(t) ==
    InCall(t) \/ ExecuteStep(t) \/ InstallItem(t) \/ AllInstalled(t) \/ ReleaseStep(t)

LEMMA SerialQuiet ==
    ASSUME TypeOK, TxnInv, WritersExcluded, NEW t \in Txns, QuietStep(t)
    PROVE  UNCHANGED Serial!serialVars
<1> SUFFICES ASSUME InCall(t) \/ ExecuteStep(t) \/ AllInstalled(t) \/ ReleaseStep(t)
             PROVE  UNCHANGED Serial!serialVars
  BY SerialInstall DEF QuietStep
<1>1. query' = query /\ \A u \in Txns \ {t} : Same(u)
  BY OthersSame DEF TxnStep, CommitStep
<1>2. data' = data
  BY DEF InCall, ExecuteStep, ReleaseStep, StartExecute,
      Update, Read, LockRefused, LockGranted, AppendItem, ExecuteReturns,
      AllInstalled, ReleaseRead, ReadReleased, ReadsReleased,
      ReleaseWrite, Requeue, Committed, txnVars
<1>3. \/ phase'[t] = phase[t] /\ phase[t] # "install"
      \/ phase[t] \in {"queued", "execute", "granted", "abort_reads", "abort_writes"}
            /\ phase'[t] \in {"queued", "execute", "granted", "ready",
                              "abort_reads", "abort_writes"}
      \/ phase[t] = "install" /\ rest[t] = <<>> /\ phase'[t] = "commit_reads"
      \/ phase[t] = "commit_reads" /\ phase'[t] = "commit_writes"
      \/ phase[t] = "commit_writes" /\ phase'[t] = "committed"
  <2>1. CASE InCall(t)
    BY <2>1 DEF InCall, Reload, CasSucceeds, CasFails, txnVars, TxnInv,
                CallInPlace, AtOperation, NoCall
  <2>2. CASE ExecuteStep(t)
    BY <2>2 DEF ExecuteStep, StartExecute, Update, Read, LockRefused, LockGranted,
                AppendItem, ExecuteReturns, AtOperation, Loop, Goto, txnVars, TypeOK
  <2>3. CASE AllInstalled(t)
    BY <2>3 DEF AllInstalled, Loop, Goto, TypeOK
  <2>4. CASE ReleaseStep(t)
    BY <2>4 DEF ReleaseStep, ReleaseRead, ReadReleased, ReadsReleased, ReleaseWrite,
                Requeue, Committed, Loop, Goto, txnVars, TypeOK
  <2> QED
    BY <2>1, <2>2, <2>3, <2>4
<1>4. \A u \in Txns : Decided(u)' <=> Decided(u)
  BY <1>1, <1>3 DEF Decided, Same
<1>5. \A u \in Txns : \A k \in WriteOnlyKeys : Pending(u, k)' <=> Pending(u, k)
  BY <1>1, <1>3, NoItems DEF Pending, Same
<1> QED
  BY <1>1, <1>2, <1>4, <1>5, SerialStutter

LEMMA SerialStep ==
    ASSUME TypeOK, TxnInv, WritersExcluded, [Next]_vars
    PROVE  [Serial!SerialNext]_(Serial!serialVars)
<1>1. CASE UNCHANGED vars
  BY <1>1, SerialStutter DEF vars, txnVars, Pending, Decided
<1>2. \A t \in Txns : TxnStep(t) => QuietStep(t) \/ StartCommit(t)
  BY DEF TxnStep, QuietStep, CommitStep
<1> QED
  BY <1>1, <1>2, SerialCommit, SerialQuiet DEF Next, Serial!SerialNext

LEMMA SerialInitial == Init => Serial!SerialInit
<1> SUFFICES ASSUME Init PROVE Serial!SerialInit
  OBVIOUS
<1>1. \A t \in Txns : phase[t] = "queued"
  BY DEF Init
<1>2. LogicalStore = [k \in WriteOnlyKeys |-> NoTxn]
  BY <1>1 DEF Init, LogicalStore, Pending, WriteOnlyKeys
<1>3. DecidedTxns = {}
  BY <1>1 DEF DecidedTxns, Decided
<1>4. WriteKeys \in [Txns -> SUBSET WriteOnlyKeys]
  BY DEF WriteKeys
<1> QED
  BY <1>2, <1>3, <1>4 DEF Serial!SerialInit

(* Transactions commit one after the other on the rows nobody reads, each   *)
(* in one step at the start of its commit_txn, for any number of them.      *)
THEOREM SerialStoreImplemented == Spec => ImplementsSerialStore
<1>1. TypeOK /\ TxnInv /\ WritersExcluded /\ [Next]_vars
        => [Serial!SerialNext]_(Serial!serialVars)
  BY SerialStep
<1> QED
  BY <1>1, SerialInitial, TxnInvCorrect, TxnWritersExcluded, PTL
  DEF Spec, ImplementsSerialStore, Serial!SerialSpec

===============================================================================
