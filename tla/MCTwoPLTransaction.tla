-------------------------- MODULE MCTwoPLTransaction --------------------------
(* Instances of TwoPLTransaction for TLC. *)
EXTENDS TwoPLTransaction

CONSTANTS t1, t2, a, b, c, none

(* The rows a and b are only updated, row c is read and updated. *)
OneMixed == [k \in Keys |-> IF k = c THEN {"read", "write"} ELSE {"write"}]
OnlyRead == [k \in Keys |-> {"read"}]

U(k) == [update |-> TRUE, key |-> k]
R(k) == [update |-> FALSE, key |-> k]

Pair(p, q) == [t \in Txns |-> IF t = t1 THEN p ELSE q]

(* Both transactions update one or both of the rows a and b, in any order. *)
UpdateWorkloads ==
    [Txns -> {<<U(a)>>, <<U(b)>>, <<U(a), U(b)>>, <<U(b), U(a)>>}]

(* One reads row c and updates row a, in either order; the other updates   *)
(* both or reads c.                                                        *)
ReadWorkloads ==
    {Pair(p, q) : p \in {<<R(c), U(a)>>, <<U(a), R(c)>>},
                  q \in {<<U(c), U(a)>>, <<R(c)>>}}

Workloads == UpdateWorkloads \cup ReadWorkloads

(* A transaction that reads c is refused a by one that updates both.       *)
RefusedReader == {Pair(<<R(c), U(a)>>, <<U(a), U(c)>>)}

(* Both read row a. *)
TwoReaders == {Pair(<<R(a)>>, <<R(a)>>)}

===============================================================================
