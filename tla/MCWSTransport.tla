---------------------------- MODULE MCWSTransport ----------------------------
(* Instances of WSTransport for TLC: every call asks for the same connection. *)
EXTENDS WSTransport, TLC

CONSTANTS k1, s1, s2, c1, c2

CallSymmetry == Permutations(Subs)

OneKey == [s \in Subs |-> k1]
=============================================================================
