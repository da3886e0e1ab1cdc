------------------------------ MODULE MCDeterminism ------------------------------
(* An instance of Determinism for TLC. *)
EXTENDS Determinism, Sequences

CONSTANTS t1, t2, a, none

OnlyUpdated == [k \in Keys |-> {"write"}]

(* Both transactions update the one row. *)
SameUpdate == {[t \in Txns |-> <<[update |-> TRUE, key |-> a]>>]}

===================================================================================
