---------------------------------- MODULE Table ----------------------------------
(***************************************************************************)
(* common/Table.h: one unordered_map from keys to rows, and a shared_mutex *)
(* for every bucket of keys.  apply_with_locked_bucket names its lock      *)
(* object inside the two branches of an if: the mutex is free again before *)
(* the function is applied.                                                *)
(*                                                                         *)
(* Unlocked accesses to an unordered_map are undefined behaviour.  Here    *)
(* each access to the map is a step that leaves the map in order, which is *)
(* the best that can happen; no property may rely on more.                 *)
(***************************************************************************)
CONSTANTS Threads, Keys,
          Buckets,
          get_bucket_number      \* get_bucket_number[k]: the bucket of key k

VARIABLES
    _mutex,     \* _mutex[b]: who holds it, for writing and for reading
    _table,     \* _table[k]: the row of key k
    call        \* call[t]: the operation thread t is in

vars == <<_mutex, _table, call>>

Idle == [at |-> "idle"]
NoRow == [meta |-> "none", value |-> "none"]

Searches == {"search_value", "search_metadata"}
Updates == {"update_value", "update_metadata"}
Operations == Searches \cup Updates \cup {"insert", "erase"}

write_lock(t) == call[t].op \notin Searches
bucket(t) == get_bucket_number[call[t].key]

Init ==
    /\ _mutex = [b \in Buckets |-> [writing |-> {}, reading |-> {}]]
    /\ _table = [k \in Keys |-> NoRow]
    /\ call = [t \in Threads |-> Idle]

Goto(t, l) == call' = [call EXCEPT ![t].at = l]

Begin(t) ==
    /\ call[t] = Idle
    /\ \E o \in Operations, k \in Keys :
          call' = [call EXCEPT ![t] = [at |-> "lock", op |-> o, key |-> k, found |-> NoRow]]
    /\ UNCHANGED <<_mutex, _table>>

LockBucket(t) ==
    LET holders == _mutex[bucket(t)]
    IN  /\ call[t].at = "lock"
        /\ holders.writing = {}
        /\ IF write_lock(t)
           THEN /\ holders.reading = {}
                /\ _mutex' = [_mutex EXCEPT ![bucket(t)].writing = {t}]
           ELSE _mutex' = [_mutex EXCEPT ![bucket(t)].reading = @ \cup {t}]
        /\ Goto(t, "locked")
        /\ UNCHANGED _table

(* The end of the if statement. *)
UnlockBucket(t) ==
    /\ call[t].at = "locked"
    /\ _mutex' = [_mutex EXCEPT ![bucket(t)].writing = @ \ {t}, ![bucket(t)].reading = @ \ {t}]
    /\ Goto(t, "apply")
    /\ UNCHANGED _table

Find(t) ==
    /\ call[t].at = "apply"
    /\ call[t].op \in Searches \cup Updates
    /\ call' = [call EXCEPT ![t].found = _table[call[t].key],
                            ![t].at = IF call[t].op \in Updates /\ _table[call[t].key] # NoRow
                                      THEN "write" ELSE "return"]
    /\ UNCHANGED <<_mutex, _table>>

(* Through the iterator; a row erased meanwhile is no longer in the map.   *)
WriteField(t) ==
    /\ call[t].at = "write"
    /\ call[t].op \in Updates
    /\ _table' = [_table EXCEPT ![call[t].key] =
          IF @ = NoRow THEN @
          ELSE IF call[t].op = "update_value" THEN [@ EXCEPT !.value = "given"]
                                              ELSE [@ EXCEPT !.meta = "given"]]
    /\ Goto(t, "return")
    /\ UNCHANGED _mutex

(* insert makes the row and stores its metadata, then looks the key up     *)
(* again and stores the value.                                             *)
InsertMeta(t) ==
    /\ call[t].at = "apply"
    /\ call[t].op = "insert"
    /\ _table' = [_table EXCEPT ![call[t].key] =
          [meta |-> "given", value |-> IF @ = NoRow THEN "null" ELSE @.value]]
    /\ Goto(t, "write")
    /\ UNCHANGED _mutex

InsertValue(t) ==
    /\ call[t].at = "write"
    /\ call[t].op = "insert"
    /\ _table' = [_table EXCEPT ![call[t].key] =
          [value |-> "given", meta |-> IF @ = NoRow THEN "null" ELSE @.meta]]
    /\ Goto(t, "return")
    /\ UNCHANGED _mutex

Erase(t) ==
    /\ call[t].at = "apply"
    /\ call[t].op = "erase"
    /\ _table' = [_table EXCEPT ![call[t].key] = NoRow]
    /\ Goto(t, "return")
    /\ UNCHANGED _mutex

Return(t) ==
    /\ call[t].at = "return"
    /\ call' = [call EXCEPT ![t] = Idle]
    /\ UNCHANGED <<_mutex, _table>>

ApplyFunction(t) ==
    Find(t) \/ WriteField(t) \/ InsertMeta(t) \/ InsertValue(t) \/ Erase(t)

Next == \E t \in Threads :
    Begin(t) \/ LockBucket(t) \/ UnlockBucket(t) \/ ApplyFunction(t) \/ Return(t)

Spec == Init /\ [][Next]_vars

-----------------------------------------------------------------------------
(* Table.h:99-106 inserts a row as one function applied under the write    *)
(* lock of its bucket, and Table.h:57-58 looks it up as one under the read *)
(* lock: a search should find a row whole or not at all.                   *)
RowsWhole == \A t \in Threads :
    call[t] # Idle /\ call[t].op \in Searches => "null" \notin {call[t].found.meta, call[t].found.value}

=================================================================================
