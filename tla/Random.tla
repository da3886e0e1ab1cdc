---------------------------------- MODULE Random ----------------------------------
(***************************************************************************)
(* utils/Random.h: a linear congruential generator of Width bits, of which *)
(* a draw returns the upper ones.  next() and next_double() put two draws  *)
(* together in one sum, and C++ does not say which operand of + is         *)
(* evaluated first: upperFirst is the choice of the compiler.              *)
(***************************************************************************)
EXTENDS Naturals, FiniteSets

CONSTANTS Width,         \* 48 bits of _seed
          Multiplier,    \* 0x5DEECE66D, modulo 2^Width
          Increment,     \* 0xB
          WordBits,      \* 32, the bits of each draw of next()
          UpperBits,     \* 26, the bits of the draws of next_double()
          LowerBits      \* 27

ASSUME RandomAssumption ==
    /\ Width \in Nat /\ WordBits \in 1 .. Width
    /\ UpperBits \in 1 .. Width /\ LowerBits \in 1 .. Width
    /\ Multiplier \in 0 .. 2^Width - 1 /\ Increment \in 0 .. 2^Width - 1

VARIABLES _seed, upperFirst

Seed == 0 .. 2^Width - 1

(* init_seed: the exclusive or with the multiplier gives every seed for    *)
(* some time.                                                              *)
init_seed == _seed \in Seed /\ upperFirst \in BOOLEAN

(* Mutant: the increment is left out. *)
SuccessorMultiplies(s) == (s * Multiplier) % 2^Width

Successor(s) == (s * Multiplier + Increment) % 2^Width

(* What next(bits) returns once it has stored s. *)
Upper(s, bits) == s \div 2^(Width - bits)

(* Two draws, the upper one of them shifted by the bits of the lower. *)
Composed(upper, lower) ==
    LET s == Successor(_seed)
        r == Successor(s)
    IN  IF upperFirst THEN Upper(s, upper) * 2^lower + Upper(r, lower)
                      ELSE Upper(r, upper) * 2^lower + Upper(s, lower)

Advance == _seed' = Successor(Successor(_seed)) /\ UNCHANGED upperFirst

(* Both numbers that follow are of the form uniform_dist(a, b), a < b, and *)
(* next_double() * 2^(UpperBits + LowerBits).                              *)
uniform_dist(a, b) == a + (Composed(WordBits, WordBits) % (b - a + 1))

next_double == Composed(UpperBits, LowerBits)

=================================================================================
