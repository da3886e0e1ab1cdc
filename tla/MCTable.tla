--------------------------------- MODULE MCTable ---------------------------------
(* An instance of Table for TLC. *)
EXTENDS Table

CONSTANTS t1, t2, k1, b1

OneBucket == [k \in Keys |-> b1]

=================================================================================
