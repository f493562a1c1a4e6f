-------------------------- MODULE MCFetchExecution --------------------------
(* Instances of FetchExecution for TLC. *)
EXTENDS ScheduledExecution

CONSTANTS Size,      \* fetches in the plans that are executed
          PlanSize,  \* fetches in the plans that are only organized
          SmallSize, \* fetches in those with dependencies in all directions, and
                     \* with a scheduler that may fail
          Outside    \* fetches of the latter that may depend on one outside the tree

\* Dependencies point at lower ids, or at 0, which is outside the tree.
Graphs(n, out) ==
    {[f \in 1..n |-> {d \in 0..n : <<f, d>> \in edges}] :
        edges \in SUBSET ({e \in (1..n) \X (1..n) : e[2] < e[1]} \cup (out \X {0}))}

\* Equal fetches have equal dependencies, up to equal fetches.
Firsts(g) ==
    {first \in [DOMAIN g -> DOMAIN g] : \A f \in DOMAIN g :
        /\ first[f] <= f /\ first[first[f]] = first[f]
        /\ {first[d] : d \in g[f]} = {first[d] : d \in g[first[f]]}}

\* Entity fetches have a dependency.
Subs(g) ==
    {sub \in [DOMAIN g -> {NoSub, "a"}] : \A f \in DOMAIN g : g[f] = {} => sub[f] = NoSub}

Plan(g, first, sub, multi, scheduler, skip) ==
    [deps |-> g, first |-> first, sub |-> sub, multi |-> multi,
     scheduler |-> scheduler, skipLoader |-> skip]

PlansOver(graphs) ==
    UNION {{Plan(g, first, sub, sub # [f \in DOMAIN g |-> NoSub], b, FALSE) :
               first \in Firsts(g), sub \in Subs(g), b \in BOOLEAN} : g \in graphs}

ExecutedPlans == PlansOver(Graphs(Size, {}))

PrintedPlans ==
    {Plan(g, [f \in DOMAIN g |-> f], [f \in DOMAIN g |-> NoSub], TRUE, TRUE, TRUE) :
        g \in Graphs(PlanSize, Outside)}

\* All acyclic graphs: the planner, and merging, also make fetches depend on
\* higher ids.
AcyclicPlans ==
    PlansOver({g \in [1..SmallSize -> SUBSET (1..SmallSize)] : Acyclic(g)})

AllPlans == ExecutedPlans \cup PrintedPlans \cup AcyclicPlans

\* Trees of two places that lose, repeat or misplace fetches of a small graph, or get
\* it right. (Beside the scheduler's own.)
AnyTrees(g) ==
    UNION {SUBSET {Leaf(f, << <<kind, i>> >>) : f \in DOMAIN g, i \in 1..2} :
              kind \in {"sequence", "parallel"}}

AllSchedules(g) ==
    IF Cardinality(DOMAIN g) <= SmallSize /\ Mentioned(g) \subseteq 1..SmallSize
    THEN AnyTrees(g) ELSE {}
=============================================================================
