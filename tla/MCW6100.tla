------------------------------ MODULE MCW6100 ------------------------------
(* The driver object on small instances. *)
EXTENDS W6100, TLC

CONSTANTS c1, c2

MCConfigs == {c1, c2}
ConfigSymmetry == Permutations(MCConfigs)
=============================================================================
