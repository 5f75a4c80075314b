---------------------------- MODULE MCCallTracking ----------------------------
(* Instances of CallTracking for TLC. *)
EXTENDS CallTracking, TLC

Symmetry == Permutations(Procs) \cup Permutations(Keys)

===============================================================================
