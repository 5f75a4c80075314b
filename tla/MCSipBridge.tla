------------------------------ MODULE MCSipBridge ------------------------------
(* Instances of SipBridge for TLC. *)
EXTENDS SipBridge, TLC

CONSTANTS c1, c2, c3, phone1, phone2, k1

\* c1 and c2 are of one line, c3 is of another caller for the same user.
MCCaller  == c1 :> phone1 @@ c2 :> phone1 @@ c3 :> phone2
MCDialled == c1 :> k1 @@ c2 :> k1 @@ c3 :> k1
MCInbound == {c1, c2, c3}

\* Handlers are interchangeable.
Symmetry == Permutations(Handlers)

===============================================================================
