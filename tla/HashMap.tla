--------------------------------- MODULE HashMap ---------------------------------
(***************************************************************************)
(* utils/HashMap.h: N unordered_maps, each with a SpinLock of its own.     *)
(* insert, remove, contain and operator[] lock the bucket of their key;    *)
(* size and clear visit the buckets in order and lock one at a time.       *)
(* While a thread is inside a bucket, the find and the modification that   *)
(* follows it are steps of their own.                                      *)
(*                                                                         *)
(* Only the keys are modelled: no property is about the values.            *)
(* travel_keys cannot be instantiated (it hashes a bucket) and is left out. *)
(***************************************************************************)
EXTENDS Naturals, FiniteSets

CONSTANTS Threads, Keys,
          N,         \* the number of buckets
          Hash       \* Hash[k]: the value of _hasher for key k

ASSUME HashMapAssumption ==
    /\ N \in Nat \ {0}
    /\ IsFiniteSet(Keys)
    /\ Hash \in [Keys -> Nat]

VARIABLES
    locks,     \* _locks
    maps,      \* maps[i]: the keys in _maps[i]
    call,      \* the call each thread is in
    always,    \* always[t]: the keys in the map ever since that call began
    ever,      \* ever[t]: the keys in the map at some time since then
    counted    \* counted[t]: the keys size has counted

observers == <<always, ever, counted>>
vars == <<locks, maps, call, observers>>

Buckets == 0 .. N - 1

Spin == INSTANCE SpinLock WITH Locks <- Buckets, flag <- locks

_bucket_number(k) == Hash[k] % N

Members == {k \in Keys : k \in maps[_bucket_number(k)]}

KeyedOps == {"insert", "remove", "contain", "subscript"}

Idle == [at |-> "idle"]

(* total is the sum of size, answer what a call returns. *)
Call == [at     : {"lock", "find", "modify", "unlock"},
         op     : KeyedOps \cup {"size", "clear"},
         key    : Keys,
         bucket : Buckets,
         total  : Nat,
         answer : {"open", "yes", "no"}]

TypeOK ==
    /\ Spin!SpinTypeOK
    /\ maps \in [Buckets -> SUBSET Keys]
    /\ call \in [Threads -> Call \cup {Idle}]
    /\ {always, ever, counted} \subseteq [Threads -> SUBSET Keys]

Init ==
    /\ Spin!SpinInit
    /\ maps = [i \in Buckets |-> {}]
    /\ call = [t \in Threads |-> Idle]
    /\ always = [t \in Threads |-> {}]
    /\ ever = [t \in Threads |-> {}]
    /\ counted = [t \in Threads |-> {}]

(* What every thread sees of a change of the map. *)
Observe ==
    /\ always' = [t \in Threads |-> always[t] \cap Members']
    /\ ever' = [t \in Threads |-> ever[t] \cup Members']
    /\ UNCHANGED counted

-----------------------------------------------------------------------------
Begin(t, o, k) ==
    /\ call[t] = Idle
    /\ call' = [call EXCEPT ![t] =
          [at |-> "lock", op |-> o, key |-> k,
           bucket |-> IF o \in KeyedOps THEN _bucket_number(k) ELSE 0,
           total |-> 0, answer |-> "open"]]
    /\ always' = [always EXCEPT ![t] = Members]
    /\ ever' = [ever EXCEPT ![t] = Members]
    /\ counted' = [counted EXCEPT ![t] = {}]
    /\ UNCHANGED <<locks, maps>>

Lock(t) ==
    /\ call[t].at = "lock"
    /\ Spin!lock(call[t].bucket)
    /\ call' = [call EXCEPT ![t].at = "find"]
    /\ UNCHANGED <<maps, observers>>

Present(t) == call[t].key \in maps[call[t].bucket]

(* Whether the find of a keyed call is followed by a modification. *)
Modifies(t) ==
    \/ call[t].op \in {"insert", "subscript"} /\ ~Present(t)
    \/ call[t].op = "remove" /\ Present(t)

(* insert that finds the key and remove that does not return false. *)
FindAndAnswer(t) ==
    /\ call[t].at = "find"
    /\ call[t].op \in KeyedOps
    /\ ~Modifies(t)
    /\ call' = [call EXCEPT ![t].at = "unlock",
                            ![t].answer = IF Present(t) /\ call[t].op # "insert"
                                          THEN "yes" ELSE "no"]
    /\ UNCHANGED <<locks, maps, observers>>

(* Mutant: the bucket is unlocked between the find and the modification. *)
FindAndUnlock(t) ==
    /\ call[t].at = "find"
    /\ Modifies(t)
    /\ Spin!unlock(call[t].bucket)
    /\ call' = [call EXCEPT ![t].at = "modify"]
    /\ UNCHANGED <<maps, observers>>

FindAndModify(t) ==
    /\ call[t].at = "find"
    /\ Modifies(t)
    /\ call' = [call EXCEPT ![t].at = "modify"]
    /\ UNCHANGED <<locks, maps, observers>>

Modify(t) ==
    /\ call[t].at = "modify"
    /\ maps' = [maps EXCEPT ![call[t].bucket] =
                  IF call[t].op = "remove" THEN @ \ {call[t].key}
                                           ELSE @ \cup {call[t].key}]
    /\ call' = [call EXCEPT ![t].at = "unlock", ![t].answer = "yes"]
    /\ Observe
    /\ UNCHANGED locks

(* Mutant: size forgets the sum of the buckets before. *)
CountOnlyBucket(t) ==
    /\ call[t].at = "find"
    /\ call[t].op = "size"
    /\ call' = [call EXCEPT ![t].at = "unlock",
                            ![t].total = Cardinality(maps[call[t].bucket])]
    /\ counted' = [counted EXCEPT ![t] = @ \cup maps[call[t].bucket]]
    /\ UNCHANGED <<locks, maps, always, ever>>

(* The fold function of size and the map function of clear. *)
CountBucket(t) ==
    /\ call[t].at = "find"
    /\ call[t].op = "size"
    /\ call' = [call EXCEPT ![t].at = "unlock",
                            ![t].total = @ + Cardinality(maps[call[t].bucket])]
    /\ counted' = [counted EXCEPT ![t] = @ \cup maps[call[t].bucket]]
    /\ UNCHANGED <<locks, maps, always, ever>>

ClearBucket(t) ==
    /\ call[t].at = "find"
    /\ call[t].op = "clear"
    /\ maps' = [maps EXCEPT ![call[t].bucket] = {}]
    /\ call' = [call EXCEPT ![t].at = "unlock"]
    /\ Observe
    /\ UNCHANGED locks

(* Mutant: the loops end one bucket early. *)
LastBucketEarly(t) == call[t].op \in KeyedOps \/ call[t].bucket + 2 >= N

LastBucket(t) == call[t].op \in KeyedOps \/ call[t].bucket + 1 = N

(* The loop of _map and _fold goes on. *)
UnlockAndContinue(t) ==
    /\ call[t].at = "unlock"
    /\ ~LastBucket(t)
    /\ Spin!unlock(call[t].bucket)
    /\ call' = [call EXCEPT ![t].at = "lock", ![t].bucket = @ + 1]
    /\ UNCHANGED <<maps, observers>>

UnlockAndReturn(t) ==
    /\ call[t].at = "unlock"
    /\ LastBucket(t)
    /\ Spin!unlock(call[t].bucket)
    /\ call' = [call EXCEPT ![t] = Idle]
    /\ UNCHANGED <<maps, observers>>

ThreadStep(t) ==
    \/ Lock(t) \/ FindAndAnswer(t) \/ FindAndModify(t) \/ Modify(t)
    \/ CountBucket(t) \/ ClearBucket(t) \/ UnlockAndContinue(t) \/ UnlockAndReturn(t)

Next == \E t \in Threads :
    \/ ThreadStep(t)
    \/ \E o \in KeyedOps \cup {"size", "clear"}, k \in Keys : Begin(t, o, k)

Spec == Init /\ [][Next]_vars

-----------------------------------------------------------------------------
(* Properties. *)

Inside(t) == call[t] # Idle /\ call[t].at \in {"find", "modify", "unlock"}

(* The buckets a call of size or clear has been through. *)
Passed(t) == {i \in Buckets : i < call[t].bucket}
                \cup (IF call[t].at = "unlock" THEN {call[t].bucket} ELSE {})

PassedKeys(t) == {k \in Keys : _bucket_number(k) \in Passed(t)}

Finishing(t, o) == call[t] # Idle /\ call[t].op = o
                      /\ call[t].at = "unlock" /\ LastBucket(t)

(* size adds up the buckets one after the other while others insert and    *)
(* remove, so its result need not be a size the map ever had.  But no key  *)
(* that stayed in the map is missed or counted twice, and none is counted  *)
(* that was never there.                                                   *)
SizeWithinBounds == \A t \in Threads : Finishing(t, "size") =>
    /\ Cardinality(always[t]) <= call[t].total
    /\ call[t].total <= Cardinality(ever[t])

(* When clear returns, every key that was in the map when it began has     *)
(* been out of it at some time since.                                      *)
ClearSweeps == \A t \in Threads : Finishing(t, "clear") => always[t] = {}

(* Why, as an inductive invariant: one thread inside a bucket, whose find  *)
(* stays true until its modification; size and clear have dealt with the   *)
(* buckets they passed.                                                    *)
BucketInv ==
    /\ \A i \in Buckets : \A k \in maps[i] : _bucket_number(k) = i
    /\ \A t \in Threads :
          /\ Inside(t) => locks[call[t].bucket]
          /\ call[t] # Idle /\ call[t].op \in KeyedOps
                => /\ call[t].bucket = _bucket_number(call[t].key)
                   /\ call[t].at = "unlock" <=> call[t].answer # "open"
          /\ call[t] # Idle /\ call[t].at = "modify" => Modifies(t)
    /\ \A t, u \in Threads :
          t # u /\ Inside(t) /\ Inside(u) => call[t].bucket # call[u].bucket

VisitInv == \A t \in Threads : call[t] # Idle =>
    /\ always[t] \subseteq Members /\ Members \subseteq ever[t]
    /\ counted[t] \subseteq ever[t]
    /\ call[t].op = "size" => /\ call[t].total = Cardinality(counted[t])
                              /\ counted[t] \subseteq PassedKeys(t)
                              /\ always[t] \cap PassedKeys(t) \subseteq counted[t]
    /\ call[t].op = "clear" => always[t] \cap PassedKeys(t) = {}

HashInv == TypeOK /\ BucketInv /\ VisitInv

(* insert, remove, contain and operator[] are atomic to their callers.     *)
PendingCalls == [t \in Threads |->
    IF call[t] = Idle THEN [op |-> "none"]
    ELSE [op |-> call[t].op, key |-> call[t].key, answer |-> call[t].answer]]

Set == INSTANCE KeySet WITH members <- Members, pending <- PendingCalls

ImplementsKeySet == Set!KeySetSpec

=================================================================================
