---------------------------- MODULE MCMessageQueue ----------------------------
(* Instances of MessageQueue for TLC. *)
EXTENDS MessageQueue, TLC

Symmetry == Permutations(Handlers) \cup Permutations(Keys)

===============================================================================
