----------------------------- MODULE HashMapProofs -----------------------------
(* Theorems about HashMap, for any threads, any finite set of keys, any      *)
(* number of buckets and any hash function.                                  *)
EXTENDS HashMap, FiniteSetTheorems, TLAPS

LEMMA BucketNumber == \A k \in Keys : _bucket_number(k) \in Buckets
<1>1. \A h \in Nat : h % N \in 0 .. N - 1
  BY HashMapAssumption
<1> QED
  BY <1>1, HashMapAssumption DEF _bucket_number, Buckets

LEMMA CallLemma ==
    ASSUME TypeOK, NEW t \in Threads, call[t] # Idle
    PROVE  call[t] \in Call
BY DEF TypeOK

LEMMA MembersLemma == Members \subseteq Keys
BY DEF Members

(* What Observe does keeps the types of the observers. *)
LEMMA ObserveType ==
    ASSUME TypeOK, Observe
    PROVE  {always, ever, counted}' \subseteq [Threads -> SUBSET Keys]
<1>1. Members' \subseteq Keys
  BY DEF Members
<1> QED
  BY <1>1 DEF TypeOK, Observe

LEMMA TypeStep ==
    ASSUME TypeOK, [Next]_vars
    PROVE  TypeOK'
<1> USE DEF TypeOK, observers
<1>1. CASE UNCHANGED vars
  BY <1>1 DEF vars, Spin!SpinTypeOK
<1>2. ASSUME NEW t \in Threads, NEW o \in KeyedOps \cup {"size", "clear"},
             NEW k \in Keys, Begin(t, o, k)
      PROVE  TypeOK'
  <2>1. (IF o \in KeyedOps THEN _bucket_number(k) ELSE 0) \in Buckets
    BY BucketNumber, HashMapAssumption DEF Buckets
  <2>2. call' \in [Threads -> Call \cup {Idle}]
    BY <1>2, <2>1 DEF Begin, Call
  <2> QED
    BY <1>2, <2>2, MembersLemma DEF Begin, Spin!SpinTypeOK
<1>3. ASSUME NEW t \in Threads, ThreadStep(t)
      PROVE  TypeOK'
  <2>1. call[t] # Idle
    BY <1>3 DEF ThreadStep, Lock, FindAndAnswer, FindAndModify, Modify, CountBucket,
                ClearBucket, UnlockAndContinue, UnlockAndReturn, Idle
  <2>2. call[t] \in Call
    BY <2>1, CallLemma
  <2>3. CASE Lock(t)
    BY <2>2, <2>3 DEF Lock, Spin!lock, Spin!SpinTypeOK, Call
  <2>4. CASE FindAndAnswer(t)
    BY <2>2, <2>4 DEF FindAndAnswer, Spin!SpinTypeOK, Call
  <2>5. CASE FindAndModify(t)
    BY <2>2, <2>5 DEF FindAndModify, Spin!SpinTypeOK, Call
  <2>6. CASE Modify(t)
    <3>1. maps' \in [Buckets -> SUBSET Keys]
      BY <2>2, <2>6 DEF Modify, Call
    <3>2. call' \in [Threads -> Call \cup {Idle}]
      BY <2>2, <2>6 DEF Modify, Call
    <3> QED
      BY <2>6, <3>1, <3>2, ObserveType DEF Modify, Spin!SpinTypeOK
  <2>7. CASE CountBucket(t)
    <3>1. maps[call[t].bucket] \subseteq Keys
      BY <2>2 DEF Call
    <3>2. Cardinality(maps[call[t].bucket]) \in Nat
      BY <3>1, HashMapAssumption, FS_Subset, FS_CardinalityType
    <3>3. call[t].total + Cardinality(maps[call[t].bucket]) \in Nat
      BY <2>2, <3>2 DEF Call
    <3>4. call' \in [Threads -> Call \cup {Idle}]
      BY <2>2, <2>7, <3>3 DEF CountBucket, Call
    <3> QED
      BY <2>7, <3>1, <3>4 DEF CountBucket, Spin!SpinTypeOK
  <2>8. CASE ClearBucket(t)
    <3>1. call' \in [Threads -> Call \cup {Idle}]
      BY <2>2, <2>8 DEF ClearBucket, Call
    <3> QED
      BY <2>8, <3>1, ObserveType DEF ClearBucket, Spin!SpinTypeOK
  <2>9. CASE UnlockAndContinue(t)
    <3>1. call[t].bucket + 1 \in Buckets
      BY <2>2, <2>9, HashMapAssumption DEF UnlockAndContinue, LastBucket, Buckets, Call
    <3>2. call' \in [Threads -> Call \cup {Idle}]
      BY <2>2, <2>9, <3>1 DEF UnlockAndContinue, Call
    <3> QED
      BY <2>9, <3>2 DEF UnlockAndContinue, Spin!unlock, Spin!SpinTypeOK
  <2>10. CASE UnlockAndReturn(t)
    BY <2>10 DEF UnlockAndReturn, Spin!unlock, Spin!SpinTypeOK
  <2> QED
    BY <1>3, <2>3, <2>4, <2>5, <2>6, <2>7, <2>8, <2>9, <2>10 DEF ThreadStep
<1> QED
  BY <1>1, <1>2, <1>3 DEF Next

(* Type correctness: no call visits a bucket beyond the last.               *)
THEOREM TypeCorrect == Spec => []TypeOK
<1>1. Init => TypeOK
  BY DEF Init, TypeOK, Spin!SpinInit, Spin!SpinTypeOK
<1>2. TypeOK /\ [Next]_vars => TypeOK'
  BY TypeStep
<1> QED
  BY <1>1, <1>2, PTL DEF Spec

-----------------------------------------------------------------------------
(* The buckets: who is inside, and what the find before a modification saw. *)
KeyedAt(t) == call[t] # Idle /\ call[t].op \in KeyedOps =>
    /\ call[t].bucket = _bucket_number(call[t].key)
    /\ call[t].at = "unlock" <=> call[t].answer # "open"

InsideAlone(t) == Inside(t) =>
    /\ locks[call[t].bucket]
    /\ \A u \in Threads : u # t /\ Inside(u) => call[u].bucket # call[t].bucket

FindHolds(t) == call[t] # Idle /\ call[t].at = "modify" => Modifies(t)

HashedRight == \A i \in Buckets : \A k \in maps[i] : _bucket_number(k) = i

LEMMA BucketInvParts ==
    BucketInv <=> /\ HashedRight
                  /\ \A t \in Threads : KeyedAt(t) /\ InsideAlone(t) /\ FindHolds(t)
BY DEF BucketInv, KeyedAt, InsideAlone, FindHolds, HashedRight

(* A thread inside a bucket leaves the other threads' buckets alone. *)
LEMMA OthersLemma ==
    ASSUME TypeOK, BucketInv, NEW t \in Threads, NEW u \in Threads, u # t,
           call'[u] = call[u],
           \A i \in Buckets : ~(Inside(t) /\ i = call[t].bucket) => maps'[i] = maps[i]
    PROVE  KeyedAt(u)' /\ FindHolds(u)'
<1>1. KeyedAt(u)'
  BY BucketInvParts DEF KeyedAt, _bucket_number
<1>2. FindHolds(u)'
  <2> SUFFICES ASSUME call[u] # Idle, call[u].at = "modify"
               PROVE  Modifies(u)'
    BY DEF FindHolds
  <2>1. call[u] \in Call
    BY CallLemma
  <2>2. Inside(u)
    BY DEF Inside
  <2>3. maps'[call[u].bucket] = maps[call[u].bucket]
    BY <2>1, <2>2, BucketInvParts DEF InsideAlone, Call
  <2> QED
    BY <2>3, BucketInvParts DEF FindHolds, Modifies, Present
<1> QED
  BY <1>1, <1>2

(* The steps inside a bucket take no lock and release none. *)
LEMMA InsideStep ==
    ASSUME TypeOK, BucketInv, NEW t \in Threads, Inside(t), UNCHANGED locks,
           NEW c \in Call, call' = [call EXCEPT ![t] = c],
           c.at \in {"find", "modify", "unlock"}, c.bucket = call[t].bucket
    PROVE  \A u \in Threads : InsideAlone(u)'
<1>1. \A u \in Threads : Inside(u)' <=> Inside(u)
  BY DEF Inside, TypeOK, Idle, Call
<1>2. \A u \in Threads : call'[u].bucket = call[u].bucket
  BY DEF TypeOK
<1> QED
  BY <1>1, <1>2, BucketInvParts DEF InsideAlone

LEMMA BucketStep ==
    ASSUME TypeOK, BucketInv, [Next]_vars
    PROVE  BucketInv'
<1> USE DEF TypeOK
<1> SUFFICES /\ HashedRight'
             /\ \A u \in Threads : KeyedAt(u)' /\ InsideAlone(u)' /\ FindHolds(u)'
  <2>1. BucketInv' <=> (/\ HashedRight
                        /\ \A t \in Threads : KeyedAt(t) /\ InsideAlone(t) /\ FindHolds(t))'
    BY BucketInvParts, PTL
  <2> QED
    BY <2>1
<1>1. CASE UNCHANGED vars
  BY <1>1, BucketInvParts DEF vars, KeyedAt, InsideAlone, FindHolds, HashedRight, Inside,
     Modifies, Present, _bucket_number
<1>2. ASSUME NEW t \in Threads, NEW o \in KeyedOps \cup {"size", "clear"},
             NEW k \in Keys, Begin(t, o, k)
      PROVE  /\ HashedRight'
             /\ \A u \in Threads : KeyedAt(u)' /\ InsideAlone(u)' /\ FindHolds(u)'
  <2>1. HashedRight'
    BY <1>2, BucketInvParts DEF Begin, HashedRight, _bucket_number
  <2>2. \A u \in Threads : u # t => call'[u] = call[u]
    BY <1>2 DEF Begin
  <2>3. \A u \in Threads : Inside(u)' <=> Inside(u) /\ u # t
    BY <1>2, <2>2 DEF Begin, Inside
  <2>4. KeyedAt(t)' /\ FindHolds(t)'
    BY <1>2 DEF Begin, KeyedAt, FindHolds, _bucket_number
  <2>5. \A u \in Threads : KeyedAt(u)' /\ FindHolds(u)'
    BY <1>2, <2>2, <2>4, OthersLemma DEF Begin
  <2>6. \A u \in Threads : InsideAlone(u)'
    BY <1>2, <2>2, <2>3, BucketInvParts DEF Begin, InsideAlone
  <2> QED
    BY <2>1, <2>5, <2>6
<1>3. ASSUME NEW t \in Threads, ThreadStep(t)
      PROVE  /\ HashedRight'
             /\ \A u \in Threads : KeyedAt(u)' /\ InsideAlone(u)' /\ FindHolds(u)'
  <2>1. call[t] # Idle
    BY <1>3 DEF ThreadStep, Lock, FindAndAnswer, FindAndModify, Modify, CountBucket,
                ClearBucket, UnlockAndContinue, UnlockAndReturn, Idle
  <2>2. call[t] \in Call
    BY <2>1, CallLemma
  <2>3. \A u \in Threads : u # t => call'[u] = call[u]
    BY <1>3 DEF ThreadStep, Lock, FindAndAnswer, FindAndModify, Modify, CountBucket,
                ClearBucket, UnlockAndContinue, UnlockAndReturn
  <2>4. \A i \in Buckets : ~(Inside(t) /\ i = call[t].bucket) => maps'[i] = maps[i]
    BY <1>3, <2>1 DEF ThreadStep, Lock, FindAndAnswer, FindAndModify, Modify, CountBucket,
                ClearBucket, UnlockAndContinue, UnlockAndReturn, Inside
  <2>5. \A u \in Threads \ {t} : KeyedAt(u)' /\ FindHolds(u)'
    BY <2>3, <2>4, OthersLemma
  <2> SUFFICES HashedRight' /\ KeyedAt(t)' /\ FindHolds(t)' /\ \A u \in Threads : InsideAlone(u)'
    BY <2>5
  <2>6. KeyedAt(t)
    BY BucketInvParts
  <2>7. CASE Lock(t)
    <3>1. /\ ~locks[call[t].bucket]
          /\ call' = [call EXCEPT ![t].at = "find"]
          /\ locks' = [locks EXCEPT ![call[t].bucket] = TRUE]
          /\ maps' = maps
      BY <2>7 DEF Lock, Spin!lock
    <3>2. HashedRight'
      BY <3>1, BucketInvParts DEF HashedRight, _bucket_number
    <3>3. KeyedAt(t)' /\ FindHolds(t)'
      BY <2>1, <2>2, <2>6, <2>7, <3>1 DEF Lock, KeyedAt, FindHolds, _bucket_number, Call
    <3>4. \A u \in Threads : Inside(u)' => u = t \/ Inside(u)
      BY <2>3 DEF Inside
    <3>5. \A u \in Threads : Inside(u) => call[u].bucket # call[t].bucket
      BY <3>1, BucketInvParts DEF InsideAlone
    <3>6. \A u \in Threads : /\ call'[u].bucket = call[u].bucket
                             /\ Inside(u) => call[u].bucket \in Buckets
      BY <2>2, <2>3, <3>1, CallLemma DEF Call, Inside
    <3>7. \A u \in Threads : InsideAlone(u)'
      BY <2>2, <3>1, <3>4, <3>5, <3>6, BucketInvParts DEF InsideAlone, Spin!SpinTypeOK, Call
    <3> QED
      BY <3>2, <3>3, <3>7
  <2>8. CASE FindAndAnswer(t)
    <3> DEFINE a == IF Present(t) /\ call[t].op # "insert" THEN "yes" ELSE "no"
               c == [call[t] EXCEPT !.at = "unlock", !.answer = a]
    <3>1. c \in Call /\ call' = [call EXCEPT ![t] = c] /\ a # "open"
      BY <2>2, <2>8 DEF FindAndAnswer, Call
    <3>2. HashedRight'
      BY <2>8, BucketInvParts DEF FindAndAnswer, HashedRight, _bucket_number
    <3>3. KeyedAt(t)' /\ FindHolds(t)'
      BY <2>1, <2>2, <2>6, <3>1 DEF KeyedAt, FindHolds, _bucket_number, Call
    <3>4. Inside(t)
      BY <2>1, <2>8 DEF FindAndAnswer, Inside
    <3>5. c.at = "unlock" /\ c.bucket = call[t].bucket
      BY <2>2 DEF Call
    <3> QED
      BY <2>8, <3>1, <3>2, <3>3, <3>4, <3>5, InsideStep DEF FindAndAnswer
  <2>9. CASE FindAndModify(t)
    <3> DEFINE c == [call[t] EXCEPT !.at = "modify"]
    <3>1. c \in Call /\ call' = [call EXCEPT ![t] = c]
      BY <2>2, <2>9 DEF FindAndModify, Call
    <3>2. HashedRight'
      BY <2>9, BucketInvParts DEF FindAndModify, HashedRight, _bucket_number
    <3>3. KeyedAt(t)'
      BY <2>1, <2>2, <2>6, <2>9, <3>1 DEF FindAndModify, KeyedAt, _bucket_number, Call
    <3>4. FindHolds(t)'
      BY <2>2, <2>9, <3>1 DEF FindAndModify, FindHolds, Modifies, Present, Call
    <3>5. Inside(t)
      BY <2>1, <2>9 DEF FindAndModify, Inside
    <3>6. c.at = "modify" /\ c.bucket = call[t].bucket
      BY <2>2 DEF Call
    <3> QED
      BY <2>9, <3>1, <3>2, <3>3, <3>4, <3>5, <3>6, InsideStep DEF FindAndModify
  <2>10. CASE Modify(t)
    <3> DEFINE c == [call[t] EXCEPT !.at = "unlock", !.answer = "yes"]
    <3>1. c \in Call /\ call' = [call EXCEPT ![t] = c]
      BY <2>2, <2>10 DEF Modify, Call
    <3>2. Modifies(t)
      BY <2>1, <2>10, BucketInvParts DEF Modify, FindHolds
    <3>3. call[t].op \in KeyedOps
      BY <3>2 DEF Modifies, KeyedOps
    <3>4. HashedRight'
      BY <2>1, <2>2, <2>6, <2>10, <3>3, BucketInvParts
         DEF Modify, HashedRight, KeyedAt, _bucket_number, Call
    <3>5. KeyedAt(t)' /\ FindHolds(t)'
      BY <2>1, <2>2, <2>6, <3>1 DEF KeyedAt, FindHolds, _bucket_number, Call
    <3>6. Inside(t)
      BY <2>1, <2>10 DEF Modify, Inside
    <3>7. c.at = "unlock" /\ c.bucket = call[t].bucket
      BY <2>2 DEF Call
    <3> QED
      BY <2>10, <3>1, <3>4, <3>5, <3>6, <3>7, InsideStep DEF Modify
  <2>11. CASE CountBucket(t)
    <3> DEFINE n == call[t].total + Cardinality(maps[call[t].bucket])
               c == [call[t] EXCEPT !.at = "unlock", !.total = n]
    <3>1. maps[call[t].bucket] \subseteq Keys
      BY <2>2 DEF Call
    <3>2. Cardinality(maps[call[t].bucket]) \in Nat
      BY <3>1, HashMapAssumption, FS_Subset, FS_CardinalityType
    <3>3. n \in Nat
      BY <2>2, <3>2 DEF Call
    <3>4. c \in Call /\ call' = [call EXCEPT ![t] = c]
      BY <2>2, <2>11, <3>3 DEF CountBucket, Call
    <3>5. HashedRight'
      BY <2>11, BucketInvParts DEF CountBucket, HashedRight, _bucket_number
    <3>6. KeyedAt(t)' /\ FindHolds(t)'
      BY <2>1, <2>2, <2>11, <3>4 DEF CountBucket, KeyedAt, FindHolds, KeyedOps, Call
    <3>7. Inside(t)
      BY <2>1, <2>11 DEF CountBucket, Inside
    <3>8. c.at = "unlock" /\ c.bucket = call[t].bucket
      BY <2>2 DEF Call
    <3> QED
      BY <2>11, <3>4, <3>5, <3>6, <3>7, <3>8, InsideStep DEF CountBucket
  <2>12. CASE ClearBucket(t)
    <3> DEFINE c == [call[t] EXCEPT !.at = "unlock"]
    <3>1. c \in Call /\ call' = [call EXCEPT ![t] = c]
      BY <2>2, <2>12 DEF ClearBucket, Call
    <3>2. HashedRight'
      BY <2>2, <2>12, BucketInvParts DEF ClearBucket, HashedRight, _bucket_number, Call
    <3>3. KeyedAt(t)' /\ FindHolds(t)'
      BY <2>1, <2>2, <2>12, <3>1 DEF ClearBucket, KeyedAt, FindHolds, KeyedOps, Call
    <3>4. Inside(t)
      BY <2>1, <2>12 DEF ClearBucket, Inside
    <3>5. c.at = "unlock" /\ c.bucket = call[t].bucket
      BY <2>2 DEF Call
    <3> QED
      BY <2>12, <3>1, <3>2, <3>3, <3>4, <3>5, InsideStep DEF ClearBucket
  <2>13. ASSUME UnlockAndContinue(t) \/ UnlockAndReturn(t)
         PROVE  HashedRight' /\ KeyedAt(t)' /\ FindHolds(t)' /\ \A u \in Threads : InsideAlone(u)'
    <3>1. /\ locks' = [locks EXCEPT ![call[t].bucket] = FALSE]
          /\ maps' = maps
          /\ ~Inside(t)'
          /\ Inside(t)
      BY <2>1, <2>2, <2>13
         DEF UnlockAndContinue, UnlockAndReturn, Spin!unlock, Inside, Idle, Call
    <3>2. HashedRight'
      BY <3>1, BucketInvParts DEF HashedRight, _bucket_number
    <3>3. KeyedAt(t)' /\ FindHolds(t)'
      BY <2>2, <2>13
         DEF UnlockAndContinue, UnlockAndReturn, LastBucket, KeyedAt, FindHolds, Idle, Call
    <3>4. \A u \in Threads : u # t => call'[u] = call[u] /\ (Inside(u)' <=> Inside(u))
      BY <2>3 DEF Inside
    <3>5. \A u \in Threads : Inside(u) /\ u # t => call[u].bucket # call[t].bucket
                                                     /\ call[u].bucket \in Buckets
      BY <3>1, BucketInvParts, CallLemma DEF InsideAlone, Inside, Call
    <3>6. \A u \in Threads : Inside(u) /\ u # t => locks'[call[u].bucket]
      BY <3>1, <3>5, BucketInvParts DEF InsideAlone, Spin!SpinTypeOK
    <3>7. \A u \in Threads : InsideAlone(u)'
      BY <3>1, <3>4, <3>6, BucketInvParts DEF InsideAlone
    <3> QED
      BY <3>2, <3>3, <3>7
  <2> QED
    BY <1>3, <2>7, <2>8, <2>9, <2>10, <2>11, <2>12, <2>13 DEF ThreadStep
<1> QED
  BY <1>1, <1>2, <1>3 DEF Next

-----------------------------------------------------------------------------
(* The visits of size and clear. *)
VisitAt(t) == call[t] # Idle =>
    /\ always[t] \subseteq Members /\ Members \subseteq ever[t]
    /\ counted[t] \subseteq ever[t]
    /\ call[t].op = "size" => /\ call[t].total = Cardinality(counted[t])
                              /\ counted[t] \subseteq PassedKeys(t)
                              /\ always[t] \cap PassedKeys(t) \subseteq counted[t]
    /\ call[t].op = "clear" => always[t] \cap PassedKeys(t) = {}

LEMMA VisitInvParts == VisitInv <=> \A t \in Threads : VisitAt(t)
BY DEF VisitInv, VisitAt

(* A call that neither passes a bucket nor counts: whatever the others do,   *)
(* it keeps fewer keys in always and sees more in ever.                      *)
LEMMA ObserversLemma ==
    ASSUME NEW u \in Threads, VisitAt(u),
           call'[u] # Idle => /\ call[u] # Idle
                              /\ call'[u].op = call[u].op
                              /\ call'[u].total = call[u].total
                              /\ PassedKeys(u)' = PassedKeys(u),
           counted'[u] = counted[u],
           always'[u] \subseteq always[u], always'[u] \subseteq Members',
           ever[u] \subseteq ever'[u], Members' \subseteq ever'[u]
    PROVE  VisitAt(u)'
<1> SUFFICES ASSUME call'[u] # Idle
             PROVE  VisitAt(u)'
  BY DEF VisitAt
<1>1. call'[u].op = "size" => /\ call'[u].total = Cardinality(counted'[u])
                              /\ counted'[u] \subseteq PassedKeys(u)'
                              /\ always'[u] \cap PassedKeys(u)' \subseteq counted'[u]
  BY DEF VisitAt
<1>2. call'[u].op = "clear" => always'[u] \cap PassedKeys(u)' = {}
  BY DEF VisitAt
<1>3. counted'[u] \subseteq ever'[u]
  BY DEF VisitAt
<1> QED
  BY <1>1, <1>2, <1>3 DEF VisitAt

(* The same for a thread whose call does not change. *)
LEMMA OthersVisit ==
    ASSUME NEW u \in Threads, VisitAt(u), call'[u] = call[u], counted'[u] = counted[u],
           always'[u] \subseteq always[u], call[u] # Idle => always'[u] \subseteq Members',
           ever[u] \subseteq ever'[u], call[u] # Idle => Members' \subseteq ever'[u]
    PROVE  VisitAt(u)'
<1>1. PassedKeys(u)' = PassedKeys(u)
  BY DEF PassedKeys, Passed, _bucket_number
<1> QED
  BY <1>1, ObserversLemma DEF VisitAt

LEMMA SameMembers == maps' = maps => Members' = Members
BY DEF Members, _bucket_number

(* The buckets size or clear has passed before and after its function. *)
LEMMA PassedLemma ==
    ASSUME NEW t \in Threads, call[t] \in Call
    PROVE  /\ call[t].at # "unlock" =>
                 PassedKeys(t) = {k \in Keys : _bucket_number(k) < call[t].bucket}
           /\ call[t].at = "unlock" =>
                 PassedKeys(t) = {k \in Keys : _bucket_number(k) <= call[t].bucket}
<1>1. call[t].bucket \in Int /\ \A k \in Keys : _bucket_number(k) \in Int
  BY BucketNumber DEF Call, Buckets
<1>2. Passed(t) = IF call[t].at = "unlock" THEN {i \in Buckets : i <= call[t].bucket}
                                           ELSE {i \in Buckets : i < call[t].bucket}
  BY <1>1 DEF Passed, Call, Buckets
<1> QED
  BY <1>2, BucketNumber DEF PassedKeys

(* The keys of a bucket are the members that hash to it. *)
LEMMA BucketKeys ==
    ASSUME TypeOK, BucketInv, NEW b \in Buckets
    PROVE  maps[b] = {k \in Members : _bucket_number(k) = b}
BY BucketInvParts DEF TypeOK, HashedRight, Members

(* size counts a bucket it has not passed. *)
LEMMA CountLemma ==
    ASSUME TypeOK, BucketInv, VisitInv, NEW t \in Threads, CountBucket(t)
    PROVE  VisitAt(t)'
<1> DEFINE b == call[t].bucket
<1>1. /\ call[t] # Idle /\ call[t].at = "find" /\ call[t].op = "size"
      /\ call' = [call EXCEPT ![t].at = "unlock", ![t].total = @ + Cardinality(maps[b])]
      /\ counted' = [counted EXCEPT ![t] = @ \cup maps[b]]
      /\ always' = always /\ ever' = ever /\ maps' = maps
  BY DEF CountBucket, Idle, observers
<1>2. call[t] \in Call /\ b \in Buckets
  BY <1>1, CallLemma DEF Call
<1>3. /\ call'[t].op = "size" /\ call'[t].at = "unlock" /\ call'[t].bucket = b
      /\ call'[t].total = call[t].total + Cardinality(maps[b])
      /\ counted'[t] = counted[t] \cup maps[b]
  BY <1>1, <1>2 DEF Call, TypeOK
<1>4. Members' = Members
  BY <1>1, SameMembers
<1>5. /\ always[t] \subseteq Members /\ Members \subseteq ever[t]
      /\ counted[t] \subseteq ever[t]
      /\ call[t].total = Cardinality(counted[t])
      /\ counted[t] \subseteq PassedKeys(t)
      /\ always[t] \cap PassedKeys(t) \subseteq counted[t]
  BY <1>1, VisitInvParts DEF VisitAt
<1>6. maps[b] = {k \in Members : _bucket_number(k) = b}
  BY <1>2, BucketKeys
<1>7. PassedKeys(t) = {k \in Keys : _bucket_number(k) < b}
  BY <1>1, <1>2, PassedLemma
<1>8. PassedKeys(t)' = {k \in Keys : _bucket_number(k) <= b}
  <2>1. TypeOK'
    BY TypeStep DEF Next, ThreadStep
  <2>2. call'[t] \in Call
    BY <1>3, <2>1 DEF TypeOK, Idle
  <2>3. Passed(t)' = {i \in Buckets : i < b} \cup {b}
    BY <1>3 DEF Passed
  <2>4. b \in Int /\ \A k \in Keys : _bucket_number(k) \in Int
    BY <1>2, BucketNumber DEF Buckets
  <2> QED
    BY <1>2, <2>3, <2>4, BucketNumber DEF PassedKeys, _bucket_number
<1>9. b \in Int /\ \A k \in Keys : _bucket_number(k) \in Int
  BY <1>2, BucketNumber DEF Buckets
<1>10. counted[t] \cap maps[b] = {}
  BY <1>5, <1>6, <1>7, <1>9
<1>11. IsFiniteSet(counted[t]) /\ IsFiniteSet(maps[b])
  <2>1. counted[t] \subseteq Keys /\ maps[b] \subseteq Keys
    BY <1>2 DEF TypeOK
  <2> QED
    BY <2>1, HashMapAssumption, FS_Subset
<1>12. Cardinality(counted'[t]) = call'[t].total
  <2>1. Cardinality(counted[t] \cup maps[b])
           = Cardinality(counted[t]) + Cardinality(maps[b]) - Cardinality(counted[t] \cap maps[b])
    BY <1>11, FS_Union
  <2>2. Cardinality(counted[t] \cap maps[b]) = 0
    BY <1>10, FS_EmptySet
  <2>3. Cardinality(counted[t]) \in Nat /\ Cardinality(maps[b]) \in Nat
    BY <1>11, FS_CardinalityType
  <2> QED
    BY <1>3, <1>5, <2>1, <2>2, <2>3
<1>13. counted'[t] \subseteq PassedKeys(t)'
  BY <1>3, <1>5, <1>6, <1>7, <1>8, <1>9, MembersLemma
<1>14. always'[t] \cap PassedKeys(t)' \subseteq counted'[t]
  BY <1>1, <1>3, <1>5, <1>6, <1>7, <1>8, <1>9
<1>15. counted'[t] \subseteq ever'[t]
  BY <1>1, <1>3, <1>5, <1>6
<1> QED
  BY <1>1, <1>3, <1>4, <1>5, <1>12, <1>13, <1>14, <1>15 DEF VisitAt

(* clear leaves no key in the bucket it has reached. *)
LEMMA ClearLemma ==
    ASSUME TypeOK, BucketInv, VisitInv, NEW t \in Threads, ClearBucket(t)
    PROVE  VisitAt(t)'
<1> DEFINE b == call[t].bucket
<1>1. /\ call[t] # Idle /\ call[t].at = "find" /\ call[t].op = "clear"
      /\ call' = [call EXCEPT ![t].at = "unlock"]
      /\ maps' = [maps EXCEPT ![b] = {}]
      /\ always'[t] = always[t] \cap Members'
      /\ ever'[t] = ever[t] \cup Members'
      /\ counted' = counted
  BY DEF ClearBucket, Idle, Observe
<1>2. call[t] \in Call /\ b \in Buckets
  BY <1>1, CallLemma DEF Call
<1>3. call'[t].op = "clear" /\ call'[t].at = "unlock" /\ call'[t].bucket = b
  BY <1>1, <1>2 DEF Call, TypeOK
<1>4. always[t] \cap PassedKeys(t) = {} /\ counted[t] \subseteq ever[t]
  BY <1>1, VisitInvParts DEF VisitAt
<1>5. b \in Int /\ \A k \in Keys : _bucket_number(k) \in Int
  BY <1>2, BucketNumber DEF Buckets
<1>6. PassedKeys(t) = {k \in Keys : _bucket_number(k) < b}
  BY <1>1, <1>2, PassedLemma
<1>7. PassedKeys(t)' = {k \in Keys : _bucket_number(k) <= b}
  <2>1. Passed(t)' = {i \in Buckets : i < b} \cup {b}
    BY <1>3 DEF Passed
  <2> QED
    BY <1>2, <1>5, <2>1, BucketNumber DEF PassedKeys, _bucket_number
<1>8. \A k \in Members' : _bucket_number(k) # b
  BY <1>1, <1>2 DEF Members, _bucket_number, TypeOK
<1>9. always'[t] \cap PassedKeys(t)' = {}
  BY <1>1, <1>4, <1>5, <1>6, <1>7, <1>8
<1> QED
  BY <1>1, <1>3, <1>4, <1>9 DEF VisitAt

LEMMA VisitStep ==
    ASSUME TypeOK, BucketInv, VisitInv, [Next]_vars
    PROVE  VisitInv'
<1> USE DEF TypeOK
<1> SUFFICES ASSUME NEW u \in Threads
             PROVE  VisitAt(u)'
  <2>1. VisitInv' <=> (\A t \in Threads : VisitAt(t))'
    BY VisitInvParts, PTL
  <2> QED
    BY <2>1
<1>0. VisitAt(u)
  BY VisitInvParts
<1>1. CASE UNCHANGED vars
  BY <1>0, <1>1, OthersVisit, SameMembers DEF vars, observers, VisitAt
<1>2. ASSUME NEW t \in Threads, NEW o \in KeyedOps \cup {"size", "clear"},
             NEW k \in Keys, Begin(t, o, k)
      PROVE  VisitAt(u)'
  <2>1. Members' = Members
    BY <1>2, SameMembers DEF Begin
  <2>2. CASE u # t
    BY <1>0, <1>2, <2>1, <2>2, OthersVisit DEF Begin, VisitAt
  <2>3. CASE u = t
    <3>1. /\ always'[t] = Members /\ ever'[t] = Members /\ counted'[t] = {}
          /\ call'[t].total = 0 /\ call'[t].op = o /\ call'[t].at = "lock"
          /\ o \in {"size", "clear"} => call'[t].bucket = 0
      BY <1>2 DEF Begin, KeyedOps
    <3>2. o \in {"size", "clear"} => PassedKeys(t)' = {}
      BY <3>1, BucketNumber, HashMapAssumption DEF PassedKeys, Passed, Buckets
    <3>3. Cardinality({}) = 0
      BY FS_EmptySet
    <3> QED
      BY <2>1, <2>3, <3>1, <3>2, <3>3 DEF VisitAt
  <2> QED
    BY <2>2, <2>3
<1>3. ASSUME NEW t \in Threads, ThreadStep(t)
      PROVE  VisitAt(u)'
  <2>1. call[t] # Idle
    BY <1>3 DEF ThreadStep, Lock, FindAndAnswer, FindAndModify, Modify, CountBucket,
                ClearBucket, UnlockAndContinue, UnlockAndReturn, Idle
  <2>2. call[t] \in Call
    BY <2>1, CallLemma
  <2>3. \/ Members' = Members /\ always' = always /\ ever' = ever
        \/ Observe
    BY <1>3, SameMembers
       DEF ThreadStep, Lock, FindAndAnswer, FindAndModify, Modify, CountBucket,
           ClearBucket, UnlockAndContinue, UnlockAndReturn, observers
  <2>4. call[u] # Idle => /\ always'[u] \subseteq always[u] /\ always'[u] \subseteq Members'
                          /\ ever[u] \subseteq ever'[u] /\ Members' \subseteq ever'[u]
    BY <1>0, <2>3 DEF Observe, VisitAt
  <2>5. always'[u] \subseteq always[u] /\ ever[u] \subseteq ever'[u]
    BY <2>3 DEF Observe
  <2>6. CASE u # t
    <3>1. call'[u] = call[u] /\ counted'[u] = counted[u]
      BY <1>3, <2>6
         DEF ThreadStep, Lock, FindAndAnswer, FindAndModify, Modify, CountBucket, Observe,
             ClearBucket, UnlockAndContinue, UnlockAndReturn, observers
    <3> QED
      BY <1>0, <2>4, <2>5, <3>1, OthersVisit
  <2>7. CASE u = t /\ CountBucket(t)
    BY <2>7, CountLemma
  <2>8. CASE u = t /\ ClearBucket(t)
    BY <2>8, ClearLemma
  <2>9. CASE u = t /\ (FindAndAnswer(t) \/ FindAndModify(t) \/ Modify(t))
    <3>1. Modify(t) => call[t].op \in KeyedOps
      BY <2>1, BucketInvParts DEF Modify, FindHolds, Modifies, KeyedOps
    <3>2. call[t].op \in KeyedOps
      BY <2>9, <3>1 DEF FindAndAnswer, FindAndModify, Modifies, KeyedOps
    <3>3. call'[t].op \in KeyedOps /\ counted' = counted
      BY <2>2, <2>9, <3>2
         DEF FindAndAnswer, FindAndModify, Modify, Observe, observers, Call
    <3>4. counted'[u] \subseteq ever'[u]
      BY <1>0, <2>1, <2>4, <2>9, <3>3 DEF VisitAt
    <3> QED
      BY <2>1, <2>4, <2>9, <3>3, <3>4 DEF VisitAt, KeyedOps
  <2>10. CASE u = t /\ UnlockAndReturn(t)
    BY <2>10 DEF UnlockAndReturn, VisitAt
  <2>11. CASE u = t /\ (Lock(t) \/ UnlockAndContinue(t))
    <3>1. /\ call'[t].op = call[t].op /\ call'[t].total = call[t].total
          /\ counted' = counted
      BY <2>2, <2>11 DEF Lock, UnlockAndContinue, observers, Call
    <3>2. Passed(t)' = Passed(t)
      <4>1. CASE Lock(t)
        BY <2>2, <4>1 DEF Lock, Passed, Call
      <4>2. CASE UnlockAndContinue(t)
        <5>1. call[t].bucket \in Int
          BY <2>2 DEF Call, Buckets
        <5>2. /\ Passed(t)' = {i \in Buckets : i < call[t].bucket + 1}
              /\ Passed(t) = {i \in Buckets : i < call[t].bucket} \cup {call[t].bucket}
          BY <2>2, <4>2 DEF UnlockAndContinue, Passed, Call
        <5> QED
          BY <2>2, <5>1, <5>2 DEF Buckets, Call
      <4> QED
        BY <2>11, <4>1, <4>2
    <3>3. PassedKeys(t)' = PassedKeys(t)
      BY <3>2 DEF PassedKeys, _bucket_number
    <3> QED
      BY <1>0, <2>1, <2>4, <2>11, <3>1, <3>3, ObserversLemma
  <2> QED
    BY <1>3, <2>6, <2>7, <2>8, <2>9, <2>10, <2>11 DEF ThreadStep
<1> QED
  BY <1>1, <1>2, <1>3 DEF Next

(* The buckets are locked, hashed and visited as HashInv says.              *)
THEOREM HashInvCorrect == Spec => []HashInv
<1>1. Init => HashInv
  BY DEF Init, TypeOK, Spin!SpinInit, Spin!SpinTypeOK, HashInv, BucketInv, VisitInv, Inside, Idle
<1>2. HashInv /\ [Next]_vars => HashInv'
  BY TypeStep, BucketStep, VisitStep DEF HashInv
<1> QED
  BY <1>1, <1>2, PTL DEF Spec

(* A call of size or clear in its last bucket has passed them all. *)
LEMMA PassedAll ==
    ASSUME TypeOK, NEW t \in Threads, NEW o \in {"size", "clear"}, Finishing(t, o)
    PROVE  PassedKeys(t) = Keys
<1>1. call[t] \in Call /\ call[t].at = "unlock" /\ call[t].bucket + 1 = N
  BY CallLemma DEF Finishing, LastBucket, KeyedOps
<1>2. PassedKeys(t) = {k \in Keys : _bucket_number(k) <= call[t].bucket}
  BY <1>1, PassedLemma
<1> QED
  BY <1>1, <1>2, BucketNumber, HashMapAssumption DEF Buckets, Call

(* size is bounded by the keys that stayed and the keys that were there.    *)
THEOREM SizeWithinBoundsCorrect == Spec => []SizeWithinBounds
<1>1. HashInv => SizeWithinBounds
  <2> SUFFICES ASSUME HashInv, NEW t \in Threads, Finishing(t, "size")
               PROVE  /\ Cardinality(always[t]) <= call[t].total
                      /\ call[t].total <= Cardinality(ever[t])
    BY DEF SizeWithinBounds
  <2>1. always[t] \subseteq Keys /\ counted[t] \subseteq Keys /\ ever[t] \subseteq Keys
    BY DEF HashInv, TypeOK
  <2>2. /\ call[t].total = Cardinality(counted[t])
        /\ always[t] \subseteq counted[t] /\ counted[t] \subseteq ever[t]
    BY <2>1, PassedAll DEF HashInv, VisitInv, Finishing
  <2>3. IsFiniteSet(counted[t]) /\ IsFiniteSet(ever[t])
    BY <2>1, HashMapAssumption, FS_Subset
  <2> QED
    BY <2>2, <2>3, FS_Subset
<1> QED
  BY <1>1, HashInvCorrect, PTL

(* clear removes every key it found, though perhaps not all at one moment.  *)
THEOREM ClearSweepsCorrect == Spec => []ClearSweeps
<1>1. HashInv => ClearSweeps
  <2> SUFFICES ASSUME HashInv, NEW t \in Threads, Finishing(t, "clear")
               PROVE  always[t] = {}
    BY DEF ClearSweeps
  <2>1. always[t] \subseteq Keys
    BY DEF HashInv, TypeOK
  <2> QED
    BY <2>1, PassedAll DEF HashInv, VisitInv, Finishing
<1> QED
  BY <1>1, HashInvCorrect, PTL

-----------------------------------------------------------------------------
(* The refinement: a call takes effect when FindAndAnswer answers it or      *)
(* Modify changes the bucket.                                                *)
Pending(t) ==
    IF call[t] = Idle THEN [op |-> "none"]
    ELSE [op |-> call[t].op, key |-> call[t].key, answer |-> call[t].answer]

LEMMA PendingLemma == PendingCalls = [t \in Threads |-> Pending(t)]
BY DEF PendingCalls, Pending

LEMMA PendingExcept ==
    ASSUME NEW t \in Threads, NEW p, Pending(t)' = p,
           \A u \in Threads : u # t => call'[u] = call[u]
    PROVE  PendingCalls' = [PendingCalls EXCEPT ![t] = p]
<1>1. \A u \in Threads : u # t => Pending(u)' = Pending(u)
  BY DEF Pending
<1>2. PendingCalls' = [u \in Threads |-> Pending(u)']
  BY DEF PendingCalls, Pending
<1> QED
  BY <1>1, <1>2, PendingLemma

(* What a keyed call finds in its bucket is what the abstract call finds.    *)
LEMMA PresentLemma ==
    ASSUME TypeOK, BucketInv, NEW t \in Threads, call[t] # Idle, call[t].op \in KeyedOps
    PROVE  /\ call[t].key \in Keys
           /\ call[t].bucket = _bucket_number(call[t].key)
           /\ Present(t) <=> call[t].key \in Members
<1>1. call[t] \in Call
  BY CallLemma
<1> QED
  BY <1>1, BucketInvParts DEF KeyedAt, Present, Members, Call

LEMMA RefinementStep ==
    ASSUME TypeOK, BucketInv, [Next]_vars
    PROVE  [Set!KeySetNext]_Set!keySetVars
<1> USE DEF TypeOK
<1>1. CASE UNCHANGED vars
  BY <1>1, SameMembers DEF vars, Set!keySetVars, PendingCalls
<1>2. ASSUME NEW t \in Threads, NEW o \in KeyedOps \cup {"size", "clear"},
             NEW k \in Keys, Begin(t, o, k)
      PROVE  Set!Invoke(t)
  <2>1. Pending(t)' = [op |-> o, key |-> k, answer |-> "open"]
    BY <1>2 DEF Begin, Pending, Idle
  <2>2. PendingCalls' = [PendingCalls EXCEPT ![t] = [op |-> o, key |-> k, answer |-> "open"]]
    BY <1>2, <2>1, PendingExcept DEF Begin
  <2>3. PendingCalls[t] = [op |-> "none"]
    BY <1>2 DEF Begin, PendingCalls
  <2>4. Members' = Members
    BY <1>2, SameMembers DEF Begin
  <2> QED
    BY <2>2, <2>3, <2>4 DEF Set!Invoke, Set!NotCalling, Set!KeyedOps, KeyedOps
<1>3. ASSUME NEW t \in Threads, ThreadStep(t)
      PROVE  [Set!KeySetNext]_Set!keySetVars
  <2>1. call[t] # Idle
    BY <1>3 DEF ThreadStep, Lock, FindAndAnswer, FindAndModify, Modify, CountBucket,
                ClearBucket, UnlockAndContinue, UnlockAndReturn, Idle
  <2>2. call[t] \in Call
    BY <2>1, CallLemma
  <2>3. \A u \in Threads : u # t => call'[u] = call[u]
    BY <1>3 DEF ThreadStep, Lock, FindAndAnswer, FindAndModify, Modify, CountBucket,
                ClearBucket, UnlockAndContinue, UnlockAndReturn
  <2>4. PendingCalls[t] = [op |-> call[t].op, key |-> call[t].key, answer |-> call[t].answer]
    BY <2>1 DEF PendingCalls
  <2>5. PendingCalls \in [Threads -> {Pending(u) : u \in Threads}]
    BY PendingLemma
  <2>6. CASE Lock(t) \/ FindAndModify(t) \/ CountBucket(t) \/ UnlockAndContinue(t)
    <3>1. /\ call'[t].op = call[t].op /\ call'[t].key = call[t].key
          /\ call'[t].answer = call[t].answer /\ call'[t].at # "idle"
      BY <2>2, <2>6 DEF Lock, FindAndModify, CountBucket, UnlockAndContinue, Call
    <3>2. Pending(t)' = PendingCalls[t]
      BY <2>4, <3>1 DEF Pending, Idle
    <3>3. PendingCalls' = PendingCalls
      BY <2>3, <2>5, <3>2, PendingExcept
    <3>4. Members' = Members
      BY <2>6, SameMembers DEF Lock, FindAndModify, CountBucket, UnlockAndContinue
    <3> QED
      BY <3>3, <3>4 DEF Set!keySetVars
  <2>7. CASE FindAndAnswer(t) \/ Modify(t)
    <3> DEFINE a == call'[t].answer
               p == [op |-> call[t].op, key |-> call[t].key, answer |-> a]
    <3>1. Modify(t) => Modifies(t)
      BY <2>1, BucketInvParts DEF Modify, FindHolds
    <3>2. call[t].op \in KeyedOps
      BY <2>7, <3>1 DEF FindAndAnswer, Modifies, KeyedOps
    <3>3. call[t].answer = "open"
      BY <2>1, <2>7, <3>2, BucketInvParts DEF FindAndAnswer, Modify, KeyedAt
    <3>4. /\ call'[t].op = call[t].op /\ call'[t].key = call[t].key /\ call'[t].at = "unlock"
      BY <2>2, <2>7 DEF FindAndAnswer, Modify, Call
    <3>5. Pending(t)' = p
      BY <3>4 DEF Pending, Idle
    <3>6. PendingCalls' = [PendingCalls EXCEPT ![t] = p]
      BY <2>3, <3>5, PendingExcept
    <3>7. p = [PendingCalls[t] EXCEPT !.answer = a]
      BY <2>4
    <3>8. /\ call[t].key \in Keys
          /\ call[t].bucket = _bucket_number(call[t].key)
          /\ Present(t) <=> call[t].key \in Members
      BY <2>1, <3>2, PresentLemma
    <3>9. a = IF Set!Answer(call[t].op, call[t].key) THEN "yes" ELSE "no"
      <4>1. CASE FindAndAnswer(t)
        <5>1. a = IF Present(t) /\ call[t].op # "insert" THEN "yes" ELSE "no"
          BY <2>2, <4>1 DEF FindAndAnswer, Call
        <5>2. ~Modifies(t)
          BY <4>1 DEF FindAndAnswer
        <5> QED
          BY <3>2, <3>8, <5>1, <5>2 DEF Modifies, Set!Answer, KeyedOps
      <4>2. CASE Modify(t)
        <5>1. a = "yes"
          BY <2>2, <4>2 DEF Modify, Call
        <5> QED
          BY <3>1, <3>8, <4>2, <5>1 DEF Modifies, Set!Answer
      <4> QED
        BY <2>7, <4>1, <4>2
    <3>10. Members' = Set!MembersAfter(call[t].op, call[t].key)
      <4>1. CASE FindAndAnswer(t)
        <5>1. Members' = Members /\ ~Modifies(t)
          BY <4>1, SameMembers DEF FindAndAnswer
        <5> QED
          BY <3>2, <3>8, <5>1 DEF Modifies, Set!MembersAfter, KeyedOps
      <4>2. CASE Modify(t)
        <5> DEFINE b == call[t].bucket
        <5>1. b \in Buckets
          BY <2>2 DEF Call
        <5>2. maps' = [maps EXCEPT ![b] = IF call[t].op = "remove"
                                          THEN @ \ {call[t].key} ELSE @ \cup {call[t].key}]
          BY <4>2 DEF Modify
        <5>3. CASE call[t].op = "remove"
          <6>1. Members' = Members \ {call[t].key}
            BY <3>8, <5>1, <5>2, <5>3, BucketNumber DEF Members, _bucket_number
          <6> QED
            BY <5>3, <6>1 DEF Set!MembersAfter
        <5>4. CASE call[t].op # "remove"
          <6>1. Members' = Members \cup {call[t].key}
            BY <3>8, <5>1, <5>2, <5>4, BucketNumber DEF Members, _bucket_number
          <6>2. call[t].op \in {"insert", "subscript"}
            BY <3>1, <4>2, <5>4 DEF Modifies
          <6> QED
            BY <6>1, <6>2 DEF Set!MembersAfter
        <5> QED
          BY <5>3, <5>4
      <4> QED
        BY <2>7, <4>1, <4>2
    <3>11. /\ PendingCalls[t].op = call[t].op /\ PendingCalls[t].key = call[t].key
           /\ PendingCalls[t].answer = "open"
      BY <2>4, <3>3
    <3>12. Set!KeyedOps = KeyedOps
      BY DEF Set!KeyedOps, KeyedOps
    <3> HIDE DEF p, a
    <3>13. PendingCalls' = [PendingCalls EXCEPT ![t].answer =
                              IF Set!Answer(call[t].op, call[t].key) THEN "yes" ELSE "no"]
      BY <3>6, <3>7, <3>9
    <3>14. Set!Effect(t)
      BY <3>2, <3>10, <3>11, <3>12, <3>13 DEF Set!Effect
    <3> QED
      BY <3>14 DEF Set!KeySetNext
  <2>8. CASE ClearBucket(t)
    <3>1. /\ call'[t].op = call[t].op /\ call'[t].key = call[t].key
          /\ call'[t].answer = call[t].answer /\ call'[t].at = "unlock"
          /\ call[t].op = "clear"
      BY <2>2, <2>8 DEF ClearBucket, Call
    <3>2. Pending(t)' = PendingCalls[t]
      BY <2>4, <3>1 DEF Pending, Idle
    <3>3. PendingCalls' = PendingCalls
      BY <2>3, <2>5, <3>2, PendingExcept
    <3>4. Members' \subseteq Members
      BY <2>2, <2>8 DEF ClearBucket, Members, _bucket_number, Call
    <3>5. \E gone \in SUBSET Members : Members' = Members \ gone
      <4>1. Members \ Members' \in SUBSET Members /\ Members' = Members \ (Members \ Members')
        BY <3>4
      <4> QED
        BY <4>1
    <3>6. PendingCalls[t].op = "clear"
      BY <2>4, <3>1
    <3>7. Set!Sweep(t)
      BY <3>3, <3>5, <3>6 DEF Set!Sweep
    <3> QED
      BY <3>7 DEF Set!KeySetNext
  <2>9. CASE UnlockAndReturn(t)
    <3>1. Pending(t)' = [op |-> "none"]
      BY <2>9 DEF UnlockAndReturn, Pending
    <3>2. PendingCalls' = [PendingCalls EXCEPT ![t] = [op |-> "none"]]
      BY <2>3, <3>1, PendingExcept
    <3>3. PendingCalls[t].op # "none"
      BY <2>2, <2>4 DEF Call, KeyedOps
    <3>4. call[t].op \in KeyedOps => call[t].answer # "open"
      BY <2>1, <2>9, BucketInvParts DEF UnlockAndReturn, KeyedAt
    <3>5. Members' = Members
      BY <2>9, SameMembers DEF UnlockAndReturn
    <3>6. Set!Return(t)
      BY <2>4, <3>2, <3>3, <3>4, <3>5 DEF Set!Return, Set!NotCalling, Set!KeyedOps, KeyedOps
    <3> QED
      BY <3>6 DEF Set!KeySetNext
  <2> QED
    BY <1>3, <2>6, <2>7, <2>8, <2>9 DEF ThreadStep
<1> QED
  BY <1>1, <1>2, <1>3 DEF Next, Set!KeySetNext

(* insert, remove, contain and operator[] are atomic to their callers.      *)
THEOREM KeySetImplemented == Spec => ImplementsKeySet
<1>1. Init => Set!KeySetInit
  <2> SUFFICES ASSUME Init
               PROVE  Members = {} /\ PendingCalls = [t \in Threads |-> [op |-> "none"]]
    BY DEF Set!KeySetInit, Set!NotCalling
  <2>1. Members = {}
    BY BucketNumber DEF Init, Members
  <2>2. PendingCalls = [t \in Threads |-> [op |-> "none"]]
    BY DEF Init, PendingCalls
  <2> QED
    BY <2>1, <2>2
<1>2. HashInv /\ [Next]_vars => [Set!KeySetNext]_Set!keySetVars
  BY RefinementStep DEF HashInv
<1> QED
  BY <1>1, <1>2, HashInvCorrect, PTL DEF Spec, ImplementsKeySet, Set!KeySetSpec

================================================================================
