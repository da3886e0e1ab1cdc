------------------------------- MODULE MCHashMap -------------------------------
(* An instance of HashMap for TLC. *)
EXTENDS HashMap

CONSTANTS t1, t2, k1, k2, k3

(* Two keys share a bucket, the third is alone in the other. *)
TwoBuckets == [k \in Keys |-> IF k = k3 THEN 3 ELSE 2]

=================================================================================
