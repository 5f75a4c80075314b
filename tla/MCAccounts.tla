------------------------------ MODULE MCAccounts ------------------------------
(* Instances of Accounts for TLC. *)
EXTENDS Accounts, TLC

\* Keys, requests and runs of `register` are interchangeable.
Symmetry == Permutations(Keys) \cup Permutations(Procs) \cup Permutations(Commands)

===============================================================================
