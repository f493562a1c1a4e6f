------------------------- MODULE ScheduledExecution -------------------------
(***************************************************************************)
(* The trees that FetchExecution builds call by call against those of the   *)
(* recursion in FetchTree. For TLC only.                                    *)
(***************************************************************************)
EXTENDS FetchExecution

Recursion == INSTANCE FetchTree

\* The calls of schedule make the tree of the recursion, as far as can be told from
\* which fetches wait for which: neither the way colors are spread nor the
\* splicing and unwrapping of nodes changes that.
CallsMakeTheTree ==
    phase = "build" /\ calls = {} =>
        \A C \in WeaklyConnectedComponents(graph, DOMAIN graph), inline \in BOOLEAN :
            LET parts == PartOf(built[inline], C)
                tree1 == Recursion!Leaves(Recursion!Schedule(graph, C, inline))
            IN Dominates(parts, tree1) /\ Dominates(tree1, parts)

\* What the comment of dominates claims: its test on predecessors is sufficient
\* and exact, the inlined tree of a component passes it exactly when it is never
\* slower than the tree of waves, however long each fetch takes.
DominanceIsExact ==
    phase = "build" /\ calls = {} =>
        \A C \in WeaklyConnectedComponents(graph, DOMAIN graph) :
            Dominates(PartOf(built[TRUE], C), PartOf(built[FALSE], C))
                <=> Recursion!NeverSlower(Recursion!Schedule(graph, C, TRUE),
                                          Recursion!Schedule(graph, C, FALSE))
=============================================================================
