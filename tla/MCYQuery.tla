-------------------------------- MODULE MCYQuery --------------------------------
(* An instance of YQuery for TLC. *)
EXTENDS YQuery

(* The patterns of YContext, with its percentages in quarters. *)
AllPatterns ==
    [skewPattern : {"BOTH", "READ", "WRITE"}, isUniform : BOOLEAN,
     readOnlyTransaction : {1}, readWriteRatio : {2}]

(* Zipf::value for four keys and a zipfFactor of 0.5, in 1024ths: zeta(4)  *)
(* is 2.784 and eta 0.757.                                                 *)
HalfZipf == <<368, 628, 843>>

===============================================================================
