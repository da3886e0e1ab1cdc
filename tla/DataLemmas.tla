------------------------------- MODULE DataLemmas -------------------------------
(***************************************************************************)
(* Lemmas about data that several proofs need: sequences, powers of two,   *)
(* and sums over finite sets.                                              *)
(*                                                                         *)
(* Where data calls for induction, the argument is a smallest              *)
(* counterexample: every set of naturals has a least element, every set of *)
(* subsets of a finite set a minimal one.                                  *)
(***************************************************************************)
EXTENDS Integers, Sequences, Functions, SequenceTheorems, FiniteSetTheorems,
        WellFoundedInduction, TLAPS

-----------------------------------------------------------------------------
(* Smallest counterexamples.                                               *)

(* A set of naturals has a least one.                                      *)
LEMMA LeastNatural ==
    ASSUME NEW T, T \subseteq Nat, T # {}
    PROVE  \E n \in T : \A m \in T : n <= m
<1> DEFINE R == {p \in Nat \X Nat : p[1] < p[2]}
<1>1. IsWellFoundedOn(R, Nat)
  BY NatLessThanWellFounded DEF OpToRel
<1>2. PICK n \in T : \A m \in T : ~ (<<m, n>> \in R)
  <2> HIDE DEF R
  <2> QED
    BY <1>1, WFMin
<1>3. ASSUME NEW m \in T PROVE n <= m
  <2>1. m \in Nat /\ n \in Nat /\ ~ (<<m, n>> \in R)
    BY <1>2
  <2>2. ~ (m < n)
    BY <2>1
  <2> QED
    BY <2>1, <2>2
<1> QED
  BY <1>3

(* A set of subsets of a finite set has a minimal one.                      *)
LEMMA MinimalSubset ==
    ASSUME NEW S, IsFiniteSet(S), NEW T, T \subseteq SUBSET S, T # {}
    PROVE  \E t \in T : \A u \in T : u \subseteq t => u = t
<1>1. T \subseteq FiniteSubsetsOf(S)
  BY FS_FiniteSubsetsOfFinite
<1>2. PICK t \in T : \A u \in T : ~ (<<u, t>> \in StrictSubsetOrdering(S))
  BY <1>1, FS_StrictSubsetOrderingWellFounded, WFMin
<1> QED
  BY <1>2 DEF StrictSubsetOrdering

-----------------------------------------------------------------------------
(* Powers of two.                                                          *)

(* A power of two counts the subsets of a set.                              *)
LEMMA PowerCounts ==
    ASSUME NEW k \in Nat
    PROVE  IsFiniteSet(SUBSET (1 .. k)) /\ Cardinality(SUBSET (1 .. k)) = 2^k
<1>1. IsFiniteSet(1 .. k) /\ Cardinality(1 .. k) = k
  BY FS_Interval
<1> QED
  BY <1>1, FS_SUBSET

LEMMA PowerPositive == ASSUME NEW k \in Nat PROVE 2^k \in Nat \ {0}
<1>1. SUBSET (1 .. k) # {}
  OBVIOUS
<1> QED
  BY <1>1, PowerCounts, FS_CardinalityType, FS_EmptySet

LEMMA PowerDoubles == ASSUME NEW k \in Nat PROVE 2^(k + 1) = 2 * 2^k
<1> DEFINE A == SUBSET (1 .. k)
           F == [s \in A |-> s \cup {k + 1}]
           B == {F[s] : s \in A}
<1>1. SUBSET (1 .. k + 1) = A \cup B
  <2>1. ASSUME NEW s \in SUBSET (1 .. k + 1) PROVE s \in A \cup B
    <3>1. CASE k + 1 \notin s
      <4>1. \A i \in 1 .. k + 1 : i # k + 1 => i \in 1 .. k
        OBVIOUS
      <4> QED
        BY <3>1, <4>1
    <3>2. CASE k + 1 \in s
      <4>1. s \ {k + 1} \in A /\ s = F[s \ {k + 1}]
        BY <3>2
      <4> QED
        BY <4>1
    <3> QED
      BY <3>1, <3>2
  <2>2. ASSUME NEW s \in A PROVE s \in SUBSET (1 .. k + 1) /\ F[s] \in SUBSET (1 .. k + 1)
    OBVIOUS
  <2>3. ASSUME NEW s \in B PROVE s \in SUBSET (1 .. k + 1)
    BY <2>2
  <2> HIDE DEF A, B
  <2> QED
    BY <2>1, <2>2, <2>3
<1>2. A \cap B = {}
  <2>1. k + 1 \notin 1 .. k
    OBVIOUS
  <2>2. \A s \in A : k + 1 \notin s
    BY <2>1
  <2>3. \A s \in B : k + 1 \in s
    OBVIOUS
  <2> HIDE DEF A, B
  <2> QED
    BY <2>2, <2>3
<1>3. F \in Bijection(A, B)
  <2>1. \A s, t \in A : F[s] = F[t] => s = t
    OBVIOUS
  <2> HIDE DEF A
  <2> QED
    BY <2>1 DEF Bijection, Injection, Surjection, IsInjective
<1>4. IsFiniteSet(A) /\ Cardinality(A) = 2^k /\ 2^k \in Nat
  BY PowerCounts, PowerPositive
<1>5. IsFiniteSet(B) /\ Cardinality(B) = Cardinality(A)
  <2> HIDE DEF A, B, F
  <2> QED
    BY <1>3, <1>4, FS_Bijection DEF ExistsBijection
<1>6. Cardinality(A \cup B) = Cardinality(A) + Cardinality(B)
  <2> HIDE DEF A, B
  <2> QED
    <3>1. Cardinality({}) = 0
      BY FS_EmptySet
    <3>2. Cardinality(A) \in Nat /\ Cardinality(B) \in Nat
      BY <1>4, <1>5
    <3>3. Cardinality(A \cup B) = Cardinality(A) + Cardinality(B) - Cardinality(A \cap B)
      BY <1>4, <1>5, FS_Union
    <3>4. Cardinality(A \cap B) = 0
      BY <1>2, <3>1
    <3> QED
      BY <3>2, <3>3, <3>4
<1>7. Cardinality(SUBSET (1 .. k + 1)) = 2^(k + 1)
  <2>1. k + 1 \in Nat
    OBVIOUS
  <2> QED
    BY <2>1, PowerCounts
<1>8. Cardinality(A \cup B) = 2^(k + 1)
  BY <1>1, <1>7
<1> HIDE DEF A, B
<1> QED
  BY <1>4, <1>5, <1>6, <1>8

LEMMA PowerGrows == ASSUME NEW k \in Nat PROVE k < 2^k
<1> DEFINE T == {n \in Nat : ~ (n < 2^n)}
<1> SUFFICES ASSUME T # {} PROVE FALSE
  OBVIOUS
<1>1. PICK n \in T : \A m \in T : n <= m
  <2>1. T \subseteq Nat
    OBVIOUS
  <2> HIDE DEF T
  <2> QED
    BY <2>1, LeastNatural
<1>2. n # 0
  BY PowerPositive
<1>3. n - 1 \in Nat /\ n - 1 < 2^(n - 1)
  BY <1>1, <1>2
<1>4. 2^(n - 1) \in Nat /\ 2^n = 2 * 2^(n - 1)
  BY <1>3, PowerDoubles, PowerPositive
<1> QED
  BY <1>3, <1>4

-----------------------------------------------------------------------------
(* Sums, of the values of a function over a finite set.                    *)

(* SumFunctionOnSet unfolds a function h on the subsets of S.               *)
Element(s) == CHOOSE x \in s : TRUE

Unfolds(f, S, h) ==
    h = [s \in SUBSET S |-> IF s = {} THEN 0 ELSE f[Element(s)] + h[s \ {Element(s)}]]

LEMMA UnfoldsAt ==
    ASSUME NEW f, NEW S, NEW h, Unfolds(f, S, h), NEW s \in SUBSET S
    PROVE  h[s] = IF s = {} THEN 0 ELSE f[Element(s)] + h[s \ {Element(s)}]
BY DEF Unfolds

LEMMA UnfoldsOnce ==
    ASSUME NEW f, NEW g, NEW S, NEW R, IsFiniteSet(S), S \subseteq R,
           \A x \in S : f[x] = g[x],
           NEW h, NEW k, Unfolds(f, S, h), Unfolds(g, R, k)
    PROVE  h[S] = k[S]
<1> DEFINE T == {s \in SUBSET S : h[s] # k[s]}
<1> SUFFICES ASSUME T # {} PROVE FALSE
  OBVIOUS
<1>1. PICK t \in T : \A u \in T : u \subseteq t => u = t
  <2>1. T \subseteq SUBSET S
    OBVIOUS
  <2> HIDE DEF T
  <2> QED
    BY <2>1, MinimalSubset
<1>2. t # {}
  BY UnfoldsAt
<1>3. Element(t) \in t /\ t \ {Element(t)} # t /\ t \ {Element(t)} \in SUBSET S
  BY <1>2 DEF Element
<1>4. h[t \ {Element(t)}] = k[t \ {Element(t)}]
  BY <1>1, <1>3
<1>5. h[t] = f[Element(t)] + h[t \ {Element(t)}]
  BY <1>2, UnfoldsAt
<1>6. k[t] = g[Element(t)] + k[t \ {Element(t)}]
  BY <1>2, UnfoldsAt
<1> QED
  BY <1>3, <1>4, <1>5, <1>6

LEMMA Unfolding ==
    ASSUME NEW f, NEW S, IsFiniteSet(S)
    PROVE  \E h : Unfolds(f, S, h)
<1> DEFINE T == {s \in SUBSET S : ~ \E h : Unfolds(f, s, h)}
<1> SUFFICES ASSUME T # {} PROVE FALSE
  OBVIOUS
<1>1. PICK t \in T : \A u \in T : u \subseteq t => u = t
  <2>1. T \subseteq SUBSET S
    OBVIOUS
  <2> HIDE DEF T
  <2> QED
    BY <2>1, MinimalSubset
<1> DEFINE H(s) == CHOOSE h : Unfolds(f, s, h)
           k == [s \in SUBSET t |->
                    IF s = {} THEN 0 ELSE f[Element(s)] + H(s \ {Element(s)})[s \ {Element(s)}]]
<1>2. ASSUME NEW s \in SUBSET t, s # t PROVE Unfolds(f, s, H(s))
  BY <1>1, <1>2
<1>3. ASSUME NEW s \in SUBSET t, s # {}
      PROVE  k[s \ {Element(s)}] = H(s \ {Element(s)})[s \ {Element(s)}]
  <2> DEFINE u == s \ {Element(s)}
  <2>1. Element(s) \in s /\ u \in SUBSET t /\ u # t
    BY <1>3 DEF Element
  <2>2. Unfolds(f, u, H(u))
    BY <1>2, <2>1
  <2>3. CASE u = {}
    BY <2>2, <2>3, UnfoldsAt
  <2>4. CASE u # {}
    <3> DEFINE v == u \ {Element(u)}
    <3>1. Element(u) \in u /\ v \in SUBSET t /\ v # t /\ v \in SUBSET u
      BY <2>1, <2>4 DEF Element
    <3>2. Unfolds(f, v, H(v)) /\ IsFiniteSet(v)
      BY <1>2, <3>1, FS_Subset
    <3>3. H(v)[v] = H(u)[v]
      <4> HIDE DEF H, v, u
      <4> QED
        BY <2>2, <3>1, <3>2, UnfoldsOnce
    <3>4. H(u)[u] = f[Element(u)] + H(u)[v]
      <4>1. u \in SUBSET u
        OBVIOUS
      <4> HIDE DEF H, u
      <4> QED
        BY <2>2, <2>4, <4>1, UnfoldsAt
    <3>5. k[u] = f[Element(u)] + H(v)[v]
      <4> HIDE DEF H
      <4> QED
        BY <2>1, <2>4
    <3> QED
      BY <3>3, <3>4, <3>5
  <2> QED
    BY <2>3, <2>4
<1>4. Unfolds(f, t, k)
  <2>1. ASSUME NEW s \in SUBSET t
        PROVE  k[s] = IF s = {} THEN 0 ELSE f[Element(s)] + k[s \ {Element(s)}]
    <3>1. s # {} => k[s \ {Element(s)}] = H(s \ {Element(s)})[s \ {Element(s)}]
      BY <1>3
    <3> HIDE DEF H
    <3>2. k[s] = IF s = {} THEN 0 ELSE f[Element(s)] + H(s \ {Element(s)})[s \ {Element(s)}]
      OBVIOUS
    <3> QED
      BY <3>1, <3>2
  <2>2. k = [s \in SUBSET t |-> k[s]]
    OBVIOUS
  <2> HIDE DEF k
  <2> QED
    BY <2>1, <2>2 DEF Unfolds
<1> QED
  BY <1>1, <1>4

LEMMA SumUnfolds ==
    ASSUME NEW f, NEW S, IsFiniteSet(S)
    PROVE  \E h : Unfolds(f, S, h) /\ SumFunctionOnSet(f, S) = h[S]
<1> DEFINE k == CHOOSE h : Unfolds(f, S, h)
<1>1. Unfolds(f, S, k)
  BY Unfolding
<1>2. SumFunctionOnSet(f, S) = k[S]
  BY DEF Unfolds, Element, SumFunctionOnSet, FoldFunctionOnSet, MapThenFoldSet
<1> QED
  BY <1>1, <1>2

(* The sum over a set only depends on the values there.                     *)
LEMMA SumOfSame ==
    ASSUME NEW f, NEW g, NEW S, IsFiniteSet(S), \A x \in S : f[x] = g[x]
    PROVE  SumFunctionOnSet(f, S) = SumFunctionOnSet(g, S)
BY SumUnfolds, UnfoldsOnce

LEMMA SumOfNone == ASSUME NEW f PROVE SumFunctionOnSet(f, {}) = 0
<1>1. PICK h : Unfolds(f, {}, h) /\ SumFunctionOnSet(f, {}) = h[{}]
  BY SumUnfolds, FS_EmptySet
<1> QED
  BY <1>1, UnfoldsAt

LEMMA SumOfSome ==
    ASSUME NEW f, NEW S, IsFiniteSet(S), S # {}
    PROVE  SumFunctionOnSet(f, S) =
              f[Element(S)] + SumFunctionOnSet(f, S \ {Element(S)})
<1> DEFINE R == S \ {Element(S)}
<1>1. PICK h : Unfolds(f, S, h) /\ SumFunctionOnSet(f, S) = h[S]
  BY SumUnfolds
<1>2. IsFiniteSet(R)
  BY FS_Subset
<1>3. PICK k : Unfolds(f, R, k) /\ SumFunctionOnSet(f, R) = k[R]
  BY <1>2, SumUnfolds
<1>4. h[R] = k[R]
  <2> HIDE DEF R
  <2> QED
    BY <1>1, <1>2, <1>3, UnfoldsOnce DEF R
<1>5. h[S] = f[Element(S)] + h[R]
  BY <1>1, UnfoldsAt
<1> QED
  BY <1>1, <1>3, <1>4, <1>5

LEMMA SumType ==
    ASSUME NEW f, NEW S, IsFiniteSet(S), \A x \in S : f[x] \in Int
    PROVE  SumFunctionOnSet(f, S) \in Int
<1> DEFINE T == {s \in SUBSET S : SumFunctionOnSet(f, s) \notin Int}
<1> SUFFICES ASSUME T # {} PROVE FALSE
  OBVIOUS
<1>1. PICK t \in T : \A u \in T : u \subseteq t => u = t
  <2>1. T \subseteq SUBSET S
    OBVIOUS
  <2> HIDE DEF T
  <2> QED
    BY <2>1, MinimalSubset
<1>2. t # {} /\ IsFiniteSet(t)
  <2>1. SumFunctionOnSet(f, t) \notin Int /\ t \in SUBSET S
    OBVIOUS
  <2> HIDE DEF T
  <2>2. t # {}
    BY <2>1, SumOfNone
  <2>3. IsFiniteSet(t)
    BY <2>1, FS_Subset
  <2> QED
    BY <2>2, <2>3
<1>3. Element(t) \in t /\ t \ {Element(t)} # t
  BY <1>2 DEF Element
<1>4. SumFunctionOnSet(f, t \ {Element(t)}) \in Int
  BY <1>1, <1>3
<1>5. SumFunctionOnSet(f, t) = f[Element(t)] + SumFunctionOnSet(f, t \ {Element(t)})
  BY <1>2, SumOfSome
<1> QED
  BY <1>3, <1>4, <1>5

(* Any element may be taken out first.                                      *)
LEMMA SumTakesOut ==
    ASSUME NEW f, NEW S, IsFiniteSet(S), \A x \in S : f[x] \in Int, NEW y \in S
    PROVE  SumFunctionOnSet(f, S) = f[y] + SumFunctionOnSet(f, S \ {y})
<1> DEFINE Sum(s) == SumFunctionOnSet(f, s)
           T == {s \in SUBSET S : \E x \in s : Sum(s) # f[x] + Sum(s \ {x})}
<1> SUFFICES ASSUME T # {} PROVE FALSE
  OBVIOUS
<1>1. PICK t \in T : \A u \in T : u \subseteq t => u = t
  <2>1. T \subseteq SUBSET S
    OBVIOUS
  <2> HIDE DEF T
  <2> QED
    BY <2>1, MinimalSubset
<1>2. PICK x \in t : Sum(t) # f[x] + Sum(t \ {x})
  OBVIOUS
<1> DEFINE e == Element(t)
<1>3. e \in t
  BY DEF Element
<1>4. \A s \in SUBSET S : Sum(s) \in Int
  BY SumType, FS_Subset
<1>5. Sum(t) = f[e] + Sum(t \ {e})
  BY SumOfSome, FS_Subset
<1>6. x # e
  BY <1>2, <1>5
<1>7. ASSUME NEW u \in SUBSET t, u # t, NEW z \in u
      PROVE  Sum(u) = f[z] + Sum(u \ {z})
  BY <1>1, <1>7
<1>8. /\ Sum(t \ {e}) = f[x] + Sum((t \ {e}) \ {x})
      /\ Sum(t \ {x}) = f[e] + Sum((t \ {x}) \ {e})
  BY <1>3, <1>6, <1>7
<1>9. (t \ {x}) \ {e} = (t \ {e}) \ {x} /\ (t \ {e}) \ {x} \in SUBSET S
  OBVIOUS
<1>10. f[x] \in Int /\ f[e] \in Int /\ Sum((t \ {e}) \ {x}) \in Int
  BY <1>3, <1>4, <1>9
<1> HIDE DEF Sum, e
<1> QED
  BY <1>2, <1>5, <1>8, <1>9, <1>10

LEMMA SumChanges ==
    ASSUME NEW f, NEW g, NEW S, IsFiniteSet(S), \A x \in S : f[x] \in Int,
           NEW y \in S, NEW a \in Int, g[y] = f[y] + a,
           \A x \in S \ {y} : g[x] = f[x]
    PROVE  SumFunctionOnSet(g, S) = SumFunctionOnSet(f, S) + a
<1>1. IsFiniteSet(S \ {y})
  BY FS_Subset
<1>2. \A x \in S : g[x] \in Int
  OBVIOUS
<1>3. SumFunctionOnSet(f, S) = f[y] + SumFunctionOnSet(f, S \ {y})
  BY SumTakesOut
<1>4. SumFunctionOnSet(g, S) = g[y] + SumFunctionOnSet(g, S \ {y})
  BY <1>2, SumTakesOut
<1>5. SumFunctionOnSet(g, S \ {y}) = SumFunctionOnSet(f, S \ {y})
  BY <1>1, SumOfSame
<1>6. SumFunctionOnSet(f, S \ {y}) \in Int
  BY <1>1, SumType
<1> QED
  BY <1>3, <1>4, <1>5, <1>6

LEMMA SumOfNothing ==
    ASSUME NEW f, NEW S, IsFiniteSet(S), \A x \in S : f[x] = 0
    PROVE  SumFunctionOnSet(f, S) = 0
<1> DEFINE T == {s \in SUBSET S : SumFunctionOnSet(f, s) # 0}
<1> SUFFICES ASSUME T # {} PROVE FALSE
  OBVIOUS
<1>1. PICK t \in T : \A u \in T : u \subseteq t => u = t
  <2>1. T \subseteq SUBSET S
    OBVIOUS
  <2> HIDE DEF T
  <2> QED
    BY <2>1, MinimalSubset
<1>2. t \subseteq S /\ SumFunctionOnSet(f, t) # 0 /\ IsFiniteSet(t)
  BY FS_Subset
<1>3. t # {}
  BY <1>2, SumOfNone
<1> DEFINE e == Element(t)
<1>4. SumFunctionOnSet(f, t) = f[e] + SumFunctionOnSet(f, t \ {e})
  BY <1>2, <1>3, SumOfSome
<1>5. e \in t
  BY <1>3 DEF Element
<1>6. t \ {e} \notin T
  BY <1>1, <1>5
<1>7. SumFunctionOnSet(f, t \ {e}) = 0 /\ f[e] = 0
  BY <1>2, <1>5, <1>6
<1> QED
  BY <1>2, <1>4, <1>7

(* One more item.                                                           *)
LEMMA SumAdds ==
    ASSUME NEW f, NEW g, NEW S, IsFiniteSet(S), NEW y, y \notin S,
           \A x \in S \cup {y} : g[x] \in Int, \A x \in S : f[x] = g[x]
    PROVE  SumFunctionOnSet(g, S \cup {y}) = SumFunctionOnSet(f, S) + g[y]
<1> DEFINE R == S \cup {y}
<1>1. IsFiniteSet(R) /\ R \ {y} = S /\ y \in R
  BY FS_AddElement
<1>2. SumFunctionOnSet(g, R) = g[y] + SumFunctionOnSet(g, S)
  BY <1>1, SumTakesOut
<1>3. SumFunctionOnSet(g, S) \in Int
  BY SumType
<1>4. SumFunctionOnSet(f, S) = SumFunctionOnSet(g, S)
  BY SumOfSame
<1>5. g[y] \in Int
  OBVIOUS
<1> HIDE DEF R
<1> QED
  BY <1>2, <1>3, <1>4, <1>5 DEF R

LEMMA SumOfNaturals ==
    ASSUME NEW f, NEW S, IsFiniteSet(S), \A x \in S : f[x] \in Nat
    PROVE  /\ SumFunctionOnSet(f, S) \in Nat
           /\ \A x \in S : f[x] <= SumFunctionOnSet(f, S)
<1> DEFINE T == {s \in SUBSET S : SumFunctionOnSet(f, s) \notin Nat}
<1>1. T = {}
  <2> SUFFICES ASSUME T # {} PROVE FALSE
    OBVIOUS
  <2>1. PICK t \in T : \A u \in T : u \subseteq t => u = t
    <3>1. T \subseteq SUBSET S
      OBVIOUS
    <3> HIDE DEF T
    <3> QED
      BY <3>1, MinimalSubset
  <2>2. t # {} /\ IsFiniteSet(t)
    <3>1. SumFunctionOnSet(f, t) \notin Nat /\ t \in SUBSET S
      OBVIOUS
    <3> HIDE DEF T
    <3>2. t # {}
      BY <3>1, SumOfNone
    <3>3. IsFiniteSet(t)
      BY <3>1, FS_Subset
    <3> QED
      BY <3>2, <3>3
  <2>3. Element(t) \in t /\ t \ {Element(t)} # t
    BY <2>2 DEF Element
  <2>4. SumFunctionOnSet(f, t \ {Element(t)}) \in Nat
    BY <2>1, <2>3
  <2>5. SumFunctionOnSet(f, t) = f[Element(t)] + SumFunctionOnSet(f, t \ {Element(t)})
    BY <2>2, SumOfSome
  <2> QED
    BY <2>3, <2>4, <2>5
<1>2. ASSUME NEW x \in S PROVE f[x] <= SumFunctionOnSet(f, S)
  <2>1. SumFunctionOnSet(f, S) = f[x] + SumFunctionOnSet(f, S \ {x})
    BY SumTakesOut
  <2>2. SumFunctionOnSet(f, S \ {x}) \in Nat
    BY <1>1
  <2> QED
    BY <2>1, <2>2
<1> QED
  BY <1>1, <1>2

-----------------------------------------------------------------------------
(* Sequences that grow at their end and shrink from their head: the sets of *)
(* a transaction and the loops over them, and the queues.                   *)

LEMMA AppendItems ==
    ASSUME NEW S, NEW s \in Seq(S), NEW x \in S
    PROVE  /\ Append(s, x) \in Seq(S)
           /\ Range(Append(s, x)) = Range(s) \cup {x}
           /\ IsInjective(s) /\ x \notin Range(s) => IsInjective(Append(s, x))
<1>1. /\ Append(s, x) \in Seq(S)
      /\ DOMAIN s = 1 .. Len(s)
      /\ Len(s) \in Nat
      /\ DOMAIN Append(s, x) = 1 .. Len(s) + 1
      /\ \A i \in 1 .. Len(s) : Append(s, x)[i] = s[i]
      /\ Append(s, x)[Len(s) + 1] = x
  OBVIOUS
<1>2. Range(Append(s, x)) = Range(s) \cup {x}
  <2>1. ASSUME NEW y \in Range(Append(s, x)) PROVE y \in Range(s) \cup {x}
    <3>1. PICK i \in 1 .. Len(s) + 1 : y = Append(s, x)[i]
      BY <1>1 DEF Range
    <3>2. CASE i \in 1 .. Len(s)
      BY <1>1, <3>1, <3>2 DEF Range
    <3>3. CASE i = Len(s) + 1
      BY <1>1, <3>1, <3>3
    <3> QED
      BY <1>1, <3>2, <3>3
  <2>2. ASSUME NEW y \in Range(s) PROVE y \in Range(Append(s, x))
    <3>1. PICK i \in 1 .. Len(s) : y = s[i]
      BY <1>1 DEF Range
    <3>2. i \in 1 .. Len(s) + 1
      BY <1>1
    <3> QED
      BY <1>1, <3>1, <3>2 DEF Range
  <2>3. x \in Range(Append(s, x))
    <3>1. Len(s) + 1 \in 1 .. Len(s) + 1
      BY <1>1
    <3> QED
      BY <1>1, <3>1 DEF Range
  <2> QED
    BY <2>1, <2>2, <2>3
<1>3. ASSUME IsInjective(s), x \notin Range(s) PROVE IsInjective(Append(s, x))
  BY <1>1, <1>3 DEF IsInjective, Range
<1> QED
  BY <1>1, <1>2, <1>3

LEMMA WalkItems ==
    ASSUME NEW S, NEW s \in Seq(S), s # <<>>
    PROVE  /\ Head(s) \in S /\ Head(s) \in Range(s)
           /\ Tail(s) \in Seq(S)
           /\ Range(Tail(s)) \subseteq Range(s)
           /\ IsInjective(s) => /\ IsInjective(Tail(s))
                                /\ Range(Tail(s)) = Range(s) \ {Head(s)}
<1>1. /\ Head(s) \in S
      /\ Tail(s) \in Seq(S)
      /\ Len(s) \in Nat \ {0}
      /\ DOMAIN s = 1 .. Len(s)
      /\ DOMAIN Tail(s) = 1 .. Len(s) - 1
      /\ \A i \in 1 .. Len(s) - 1 : Tail(s)[i] = s[i + 1]
      /\ Head(s) = s[1]
  BY HeadTailProperties, EmptySeq, LenProperties
<1>2. Head(s) \in Range(s)
  BY <1>1 DEF Range
<1>3. ASSUME NEW y \in Range(Tail(s))
      PROVE  \E i \in 2 .. Len(s) : y = s[i]
  <2>1. PICK i \in 1 .. Len(s) - 1 : y = s[i + 1]
    BY <1>1, <1>3 DEF Range
  <2>2. i + 1 \in 2 .. Len(s)
    BY <1>1
  <2> QED
    BY <2>1, <2>2
<1>4. Range(Tail(s)) \subseteq Range(s)
  BY <1>1, <1>3 DEF Range
<1>5. ASSUME IsInjective(s) PROVE IsInjective(Tail(s))
  BY <1>1, <1>5 DEF IsInjective
<1>6. ASSUME IsInjective(s) PROVE Range(Tail(s)) = Range(s) \ {Head(s)}
  <2>1. Head(s) \notin Range(Tail(s))
    BY <1>1, <1>3, <1>6 DEF IsInjective
  <2>2. ASSUME NEW y \in Range(s), y # Head(s) PROVE y \in Range(Tail(s))
    <3>1. PICK i \in 1 .. Len(s) : y = s[i]
      BY <1>1 DEF Range
    <3>2. i - 1 \in 1 .. Len(s) - 1 /\ y = s[(i - 1) + 1]
      BY <1>1, <2>2, <3>1
    <3> QED
      BY <1>1, <3>2 DEF Range
  <2> QED
    BY <1>4, <2>1, <2>2
<1> QED
  BY <1>1, <1>2, <1>4, <1>5, <1>6

LEMMA NoItems == Range(<<>>) = {} /\ IsInjective(<<>>)
BY DEF Range, IsInjective

(* Four queues one after the other: an item is pushed to the last, or is    *)
(* popped from one and pushed to the one before it, which leaves the four,  *)
(* one after the other, as they were.                                       *)
InARow(T, s, a, m, c) ==
    /\ \A x \in T : s \o (a \o (m \o Append(c, x))) = Append(s \o (a \o (m \o c)), x)
    /\ c # <<>> => Append(m, Head(c)) \o Tail(c) = m \o c
    /\ m # <<>> => Append(a, Head(m)) \o (Tail(m) \o c) = a \o (m \o c)
    /\ a # <<>> => Append(s, Head(a)) \o (Tail(a) \o (m \o c)) = s \o (a \o (m \o c))

Passes(s, t, u) == t # <<>> => Append(s, Head(t)) \o (Tail(t) \o u) = s \o (t \o u)

LEMMA PassHead ==
    ASSUME NEW S, NEW s \in Seq(S), NEW t \in Seq(S), NEW u \in Seq(S)
    PROVE  Passes(s, t, u)
<1> SUFFICES ASSUME t # <<>>
             PROVE  Append(s, Head(t)) \o (Tail(t) \o u) = s \o (t \o u)
  BY DEF Passes
<1> DEFINE left == Append(s, Head(t)) \o (Tail(t) \o u)
           right == s \o (t \o u)
<1>1. left \in Seq(S) /\ right \in Seq(S) /\ Len(left) = Len(right)
  OBVIOUS
<1>2. \A i \in 1 .. Len(right) : left[i] = right[i]
  OBVIOUS
<1> QED
  BY <1>1, <1>2, SeqEqual

LEMMA PassHeadToEnd ==
    \A S : \A s, t \in Seq(S) : t # <<>> => Append(s, Head(t)) \o Tail(t) = s \o t
<1> SUFFICES ASSUME NEW S, NEW s \in Seq(S), NEW t \in Seq(S), t # <<>>
             PROVE  Append(s, Head(t)) \o Tail(t) = s \o t
  OBVIOUS
<1> DEFINE left == Append(s, Head(t)) \o Tail(t)
<1>1. left \in Seq(S) /\ s \o t \in Seq(S) /\ Len(left) = Len(s \o t)
  OBVIOUS
<1>2. \A i \in 1 .. Len(s \o t) : left[i] = (s \o t)[i]
  OBVIOUS
<1> QED
  BY <1>1, <1>2, SeqEqual

LEMMA QueuesInARow ==
    ASSUME NEW T, NEW s \in Seq(T), NEW a \in Seq(T), NEW m \in Seq(T), NEW c \in Seq(T)
    PROVE  InARow(T, s, a, m, c)
<1>1. PICK u \in Seq(T) : u = m \o c
  BY ConcatProperties
<1>2. ASSUME NEW x \in T
      PROVE  s \o (a \o (m \o Append(c, x))) = Append(s \o (a \o (m \o c)), x)
  <2> DEFINE left == s \o (a \o (m \o Append(c, x)))
             right == Append(s \o (a \o (m \o c)), x)
  <2>1. left \in Seq(T) /\ right \in Seq(T) /\ Len(left) = Len(right)
    OBVIOUS
  <2>2. \A i \in 1 .. Len(right) : left[i] = right[i]
    OBVIOUS
  <2> QED
    BY <2>1, <2>2, SeqEqual
<1>3. c # <<>> => Append(m, Head(c)) \o Tail(c) = m \o c
  BY PassHeadToEnd
<1>4. Passes(a, m, c)
  BY PassHead
<1>5. Passes(s, a, u)
  BY PassHead
<1> QED
  BY <1>1, <1>2, <1>3, <1>4, <1>5 DEF InARow, Passes

LEMMA ItemLengths ==
    ASSUME NEW S, NEW s \in Seq(S), NEW x \in S
    PROVE  /\ Len(s) \in Nat /\ (Len(s) = 0 <=> s = <<>>)
           /\ Len(Append(s, x)) = Len(s) + 1 /\ Append(s, x) # <<>>
           /\ s # <<>> => Len(Tail(s)) = Len(s) - 1 /\ (Tail(s) = <<>> <=> Len(s) = 1)
<1>1. Len(s) \in Nat /\ (Len(s) = 0 <=> s = <<>>)
  BY EmptySeq, LenProperties
<1>2. Append(s, x) \in Seq(S) /\ Len(Append(s, x)) = Len(s) + 1
  BY AppendProperties
<1>3. Append(s, x) # <<>>
  BY <1>1, <1>2, EmptySeq
<1>4. ASSUME s # <<>>
      PROVE  Len(Tail(s)) = Len(s) - 1 /\ (Tail(s) = <<>> <=> Len(s) = 1)
  <2>1. Tail(s) \in Seq(S) /\ Len(Tail(s)) = Len(s) - 1
    BY <1>4, HeadTailProperties
  <2> QED
    BY <1>1, <2>1, EmptySeq
<1> QED
  BY <1>1, <1>2, <1>3, <1>4

=================================================================================
