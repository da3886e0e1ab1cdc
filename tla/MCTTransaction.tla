----------------------------- MODULE MCTTransaction -----------------------------
(* Instances of TTransaction for TLC. *)
EXTENDS TTransaction, TLC

CONSTANTS x1, x2

Interchangeable == Permutations(Workers)

(* The boundary of the restocking: 19 - 10 < 10 and 20 - 10 = 10. *)
BoundaryStock == [r \in StockRows |-> IF r[3] = 1 THEN 19 ELSE 20]

=================================================================================
