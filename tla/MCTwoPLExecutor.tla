---------------------------- MODULE MCTwoPLExecutor ----------------------------
(* Instances of TwoPLExecutor for TLC. *)
EXTENDS TwoPLExecutor

CONSTANTS t1, t2, t3, w1, w2, c1, c2

ThreeArrive == <<t1, t2, t3>>
TwoArrive == <<t1, t2>>

===============================================================================
