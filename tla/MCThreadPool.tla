------------------------------ MODULE MCThreadPool ------------------------------
(* Instances of ThreadPool for TLC. *)
EXTENDS ThreadPool

CONSTANTS w1, w2, w3, e1, e2, x1, x2, x3, none

=================================================================================
