------------------------------ MODULE MCSignaling ------------------------------
(* Instances of Signaling for TLC. *)
EXTENDS Signaling, TLC

\* Connections and bridges are interchangeable for the safety runs.
Symmetry == Permutations(Conns) \cup Permutations(Bridges)

===============================================================================
