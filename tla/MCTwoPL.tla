-------------------------------- MODULE MCTwoPL --------------------------------
(* An instance of TwoPL for TLC. *)
EXTENDS TwoPL

CONSTANTS t1, t2, w1, w2, c1, c2, a, b, c, none

TwoArrive == <<t1, t2>>
AnyId == TxnId

(* The rows a and b are only updated, row c is only read. *)
UpdatedAndRead == [k \in Keys |-> IF k = c THEN {"read"} ELSE {"write"}]

U(k) == [update |-> TRUE, key |-> k]
R(k) == [update |-> FALSE, key |-> k]

Pair(p, q) == [t \in Txns |-> IF t = t1 THEN p ELSE q]

(* Updates of one row, of different rows, of two in one order and in       *)
(* opposite orders, and a query that also reads.                           *)
Workloads == {Pair(<<U(a)>>, <<U(a)>>),
              Pair(<<U(a)>>, <<U(b)>>),
              Pair(<<U(a), U(b)>>, <<U(a), U(b)>>),
              Pair(<<U(a), U(b)>>, <<U(b), U(a)>>),
              Pair(<<U(a), U(b)>>, <<U(b)>>),
              Pair(<<R(c), U(a)>>, <<U(a)>>)}

===============================================================================
