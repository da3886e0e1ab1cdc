------------------------------- MODULE YQueryProofs -------------------------------
(* Theorems about YQuery, for any generator, context and number of keys.    *)
EXTENDS YQuery, DataLemmas

-----------------------------------------------------------------------------
(* What is drawn.                                                          *)

LEMMA SuccessorType == ASSUME NEW s \in Seed PROVE Successor(s) \in Seed
<1>1. 2^Width \in Nat \ {0}
  BY RandomAssumption, PowerPositive
<1>2. s * Multiplier + Increment \in Nat
  BY <1>1, RandomAssumption DEF Seed
<1>3. (s * Multiplier + Increment) % 2^Width \in 0 .. 2^Width - 1
  BY <1>1, <1>2
<1> QED
  BY <1>3 DEF Successor, Seed

(* Upper divides by a power of two, and Composed shifts by one.             *)
LEMMA ComposedType ==
    ASSUME _seed \in Seed, NEW upper \in 1 .. Width, NEW lower \in 1 .. Width
    PROVE  Composed(upper, lower) \in Nat
<1>1. 2^Width \in Nat \ {0} /\ Width \in Nat
  BY RandomAssumption, PowerPositive
<1>2. ASSUME NEW s \in Seed PROVE Successor(s) \in Seed
  BY SuccessorType
<1>3. ASSUME NEW s \in Seed, NEW bits \in 1 .. Width PROVE Upper(s, bits) \in Nat
  <2>1. 2^(Width - bits) \in Nat \ {0}
    BY <1>1, PowerPositive
  <2>2. s \in Nat
    BY <1>1 DEF Seed
  <2> QED
    BY <2>1, <2>2 DEF Upper
<1>4. 2^lower \in Nat
  BY <1>1, PowerPositive
<1> DEFINE s == Successor(_seed)
           r == Successor(s)
<1>5. s \in Seed /\ r \in Seed
  BY <1>2
<1>6. /\ Upper(s, upper) \in Nat /\ Upper(s, lower) \in Nat
      /\ Upper(r, upper) \in Nat /\ Upper(r, lower) \in Nat
  BY <1>3, <1>5
<1> HIDE DEF s, r
<1>7. /\ Upper(s, upper) * 2^lower + Upper(r, lower) \in Nat
      /\ Upper(r, upper) * 2^lower + Upper(s, lower) \in Nat
  BY <1>4, <1>6
<1> QED
  BY <1>7 DEF Composed, s, r

LEMMA AdvanceType == ASSUME _seed \in Seed, Advance PROVE _seed' \in Seed
BY SuccessorType DEF Advance

LEMMA UniformRange ==
    ASSUME _seed \in Seed, NEW a \in Nat, NEW b \in Nat, a < b
    PROVE  uniform_dist(a, b) \in a .. b
<1>1. WordBits \in 1 .. Width
  BY RandomAssumption
<1>2. Composed(WordBits, WordBits) \in Nat
  BY <1>1, ComposedType
<1>3. b - a + 1 \in Nat \ {0}
  OBVIOUS
<1>4. Composed(WordBits, WordBits) % (b - a + 1) \in 0 .. b - a
  BY <1>2, <1>3
<1> QED
  BY <1>4 DEF uniform_dist

(* Zipf::value counts some of the keys_per_table - 1 cuts.                  *)
LEMMA ValueRange == ASSUME NEW u PROVE value(u) \in 0 .. keys_per_table - 1
<1>1. keys_per_table \in Nat /\ keys_per_table > 1
  BY QueryAssumption
<1>2. DOMAIN Cuts = 1 .. keys_per_table - 1
  BY QueryAssumption
<1>3. IsFiniteSet(1 .. keys_per_table - 1)
      /\ Cardinality(1 .. keys_per_table - 1) = keys_per_table - 1
  BY <1>1, FS_Interval
<1> DEFINE K == {k \in 1 .. keys_per_table - 1 : Cuts[k] <= u}
<1>4. IsFiniteSet(K) /\ Cardinality(K) <= keys_per_table - 1
  BY <1>3, FS_Subset
<1>5. Cardinality(K) \in Nat
  BY <1>4, FS_CardinalityType
<1>6. value(u) = Cardinality(K)
  BY <1>2 DEF value
<1> HIDE DEF K
<1> QED
  BY <1>1, <1>4, <1>5, <1>6

LEMMA KeyRange == ASSUME _seed \in Seed PROVE Key \in 0 .. keys_per_table - 1
<1>1. keys_per_table - 1 \in Nat /\ 0 < keys_per_table - 1
  BY QueryAssumption
<1>2. uniform_dist(0, keys_per_table - 1) \in 0 .. keys_per_table - 1
  BY <1>1, UniformRange
<1> QED
  BY <1>2, ValueRange DEF Key

-----------------------------------------------------------------------------
(* The loops: every key of the query is drawn for one operation.            *)

LEMMA QueryInitInv == QueryInit => QueryInv
<1> SUFFICES ASSUME QueryInit PROVE QueryInv
  OBVIOUS
<1>1. Range(Y_KEY) = {} /\ IsInjective(Y_KEY)
  BY NoItems DEF QueryInit
<1> QED
  BY <1>1, QueryAssumption DEF QueryInit, init_seed, QueryInv, QueryIsWorkload

LEMMA QueryStep == QueryInv /\ [QueryNext]_queryVars => QueryInv'
<1> SUFFICES ASSUME QueryInv, [QueryNext]_queryVars PROVE QueryInv'
  OBVIOUS
<1> USE DEF QueryInv
<1>1. Len(Y_KEY) \in Nat /\ Len(UPDATE) \in Nat
  OBVIOUS
<1>2. keys_per_table \in Nat /\ keys_per_transaction \in Nat /\ Percent \in Nat /\ Percent > 1
  BY QueryAssumption
<1>3. CASE DrawReadOnly
  <2>1. _seed' \in Seed
    BY <1>3, AdvanceType DEF DrawReadOnly
  <2>2. readOnly' \in Nat
    BY <1>2, <1>3, UniformRange DEF DrawReadOnly
  <2> QED
    BY <1>3, <2>1, <2>2 DEF DrawReadOnly, QueryIsWorkload
<1>4. CASE NextRead
  <2>1. UPDATE' \in Seq(BOOLEAN) /\ Len(UPDATE') = Len(UPDATE) + 1
    BY <1>4 DEF NextRead
  <2> QED
    BY <1>1, <1>2, <1>4, <2>1 DEF NextRead, AtOperation, QueryIsWorkload
<1>5. CASE DrawReadOrWrite
  <2>1. _seed' \in Seed
    BY <1>5, AdvanceType DEF DrawReadOrWrite
  <2>2. UPDATE' \in Seq(BOOLEAN) /\ Len(UPDATE') = Len(UPDATE) + 1
    BY <1>5 DEF DrawReadOrWrite
  <2> QED
    BY <1>1, <1>2, <1>5, <2>1, <2>2 DEF DrawReadOrWrite, AtOperation, QueryIsWorkload
<1>6. CASE DrawNewKey
  <2>1. _seed' \in Seed
    BY <1>6, AdvanceType DEF DrawNewKey
  <2>2. Key \in 0 .. keys_per_table - 1
    BY KeyRange
  <2>3. Key \in Nat
    BY <1>2, <2>2
  <2> DEFINE k == Key
  <2>4. k \in Nat /\ k \notin Range(Y_KEY) /\ Y_KEY' = Append(Y_KEY, k)
    BY <1>6, <2>3 DEF DrawNewKey
  <2>5. k \in 0 .. keys_per_table - 1
    BY <2>2
  <2> HIDE DEF k
  <2>6. /\ Y_KEY' \in Seq(Nat)
        /\ Range(Y_KEY') = Range(Y_KEY) \cup {k}
        /\ IsInjective(Y_KEY')
    BY <2>4, AppendItems DEF QueryIsWorkload
  <2>7. Len(Y_KEY') = Len(Y_KEY) + 1
    BY <2>4
  <2>8. Len(Y_KEY') = Len(UPDATE') /\ UNCHANGED <<UPDATE, readOnly>>
    BY <1>1, <1>6, <2>7 DEF DrawNewKey, AtKey
  <2> QED
    BY <1>1, <1>2, <2>1, <2>5, <2>6, <2>7, <2>8 DEF QueryIsWorkload
<1>7. CASE DrawKnownKey
  <2>1. _seed' \in Seed
    BY <1>7, AdvanceType DEF DrawKnownKey
  <2> QED
    BY <1>7, <2>1 DEF DrawKnownKey, QueryIsWorkload
<1>8. CASE UNCHANGED queryVars
  BY <1>8 DEF queryVars, QueryIsWorkload
<1> QED
  BY <1>3, <1>4, <1>5, <1>6, <1>7, <1>8 DEF QueryNext

(* Whatever the generator draws, a query names rows of the table, each at   *)
(* most once, and no more of them than it has operations.                   *)
THEOREM QueryIsWorkloadCorrect == QuerySpec => []QueryIsWorkload
<1>1. QueryInv => QueryIsWorkload
  BY DEF QueryInv
<1> QED
  BY <1>1, QueryInitInv, QueryStep, PTL DEF QuerySpec

=================================================================================
