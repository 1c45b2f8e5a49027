---------------------------- MODULE MCResources ----------------------------
(* Resources with more objects than handles, so that indices are reused.   *)
EXTENDS Resources, TLC

ObjectSymmetry == Permutations(Object)
=============================================================================
