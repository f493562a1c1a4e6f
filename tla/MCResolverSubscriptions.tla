----------------------- MODULE MCResolverSubscriptions -----------------------
(* Instances of ResolverSubscriptions for TLC. *)
EXTENDS ResolverSubscriptions, TLC

CONSTANTS s1, s2, t1, t2, h1, h2, c1, c2

\* All subscriptions belong to one connection.
OneConnection == [s \in Subs |-> c1]

\* The first subscription has a connection of its own.
TwoConnections == [s \in Subs |-> IF s = s1 THEN c1 ELSE c2]

\* Trigger structs are interchangeable; so are subscriptions of one kind and connection.
TrigSymmetry == Permutations(Trigs)
FullSymmetry == Permutations(Trigs) \cup Permutations(Subs)

=============================================================================
