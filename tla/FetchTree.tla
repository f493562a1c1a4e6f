------------------------------ MODULE FetchTree ------------------------------
(***************************************************************************)
(* The scheduler of v2/pkg/engine/postprocess as functions of the graph:    *)
(* components, coloring, the two candidate trees of a component, and how    *)
(* long a tree takes. For TLC only: the operators are recursive.            *)
(***************************************************************************)
EXTENDS FetchGraph, SequencesExt, FiniteSetsExt

Single(f)    == [kind |-> "single", id |-> f, nodes |-> <<>>]
Node(k, ns)  == [kind |-> k, id |-> -1, nodes |-> ns]
Nil          == Node("nil", <<>>)

\* A node as the set of the Single nodes below it.
RECURSIVE Leaves(_)
Leaves(node) ==
    IF node.kind = "single" THEN {Leaf(node.id, <<>>)}
    ELSE UNION {{Leaf(leaf.id, << <<node.kind, i>> >> \o leaf.path) :
                    leaf \in Leaves(node.nodes[i])} : i \in DOMAIN node.nodes}

\* minReachableFetchID.
LowestID(node) == Min(FetchIDs(Leaves(node)))

\* Everything reachable from the set S along succ, S included.
RECURSIVE Closure(_, _)
Closure(succ(_), S) ==
    LET next == S \cup UNION {succ(f) : f \in S}
    IN IF next = S THEN S ELSE Closure(succ, next)

Children(g, f) == {c \in DOMAIN g : f \in g[c]}

-----------------------------------------------------------------------------
(* scheduleFetches.                                                         *)

\* combineOf: nils dropped, children of the same kind spliced, a single child
\* unwrapped. The children of a Parallel are ordered by their lowest fetch id.
CombineOf(kind, ns) ==
    LET kept == SelectSeq(ns, LAMBDA n : n.kind # "nil")
        out  == FlattenSeq([i \in DOMAIN kept |->
                    IF kept[i].kind = kind THEN kept[i].nodes ELSE <<kept[i]>>])
        sorted == IF kind = "parallel"
                  THEN SortSeq(out, LAMBDA a, b : LowestID(a) < LowestID(b))
                  ELSE out
    IN CASE Len(out) = 0 -> Nil
         [] Len(out) = 1 -> out[1]
         [] OTHER        -> Node(kind, sorted)

ParallelOf(ns) == CombineOf("parallel", ns)
SequenceOf(ns) == CombineOf("sequence", ns)

\* weaklyConnectedComponents, ordered by their lowest id.
Components(g, S) ==
    LET Neighbours(f) == (Parents(g, f) \cup Children(g, f)) \cap S
    IN SetToSortSeq({Closure(Neighbours, {f}) : f \in S}, LAMBDA a, b : Min(a) < Min(b))

Shared == -1

\* colorExclusive: a work list of fetches and the color they are reached with.
RECURSIVE Color(_, _, _, _)
Color(g, S, queue, color) ==
    IF queue = {} THEN color
    ELSE LET next == CHOOSE q \in queue : TRUE
             f    == next[1]
             rest == queue \ {next}
             seen == f \in DOMAIN color
             c    == IF seen THEN Shared ELSE next[2]
         IN IF f \notin S \/ (seen /\ color[f] \in {next[2], Shared})
            THEN Color(g, S, rest, color)
            ELSE Color(g, S, rest \cup {<<k, c>> : k \in Children(g, f)},
                       [x \in DOMAIN color \cup {f} |-> IF x = f THEN c ELSE color[x]])

Roots(g, S) == {f \in S : g[f] \cap S = {}}

ColorExclusive(g, S) ==
    Color(g, S, UNION {{<<k, r>> : k \in Children(g, r)} : r \in Roots(g, S)},
          [x \in {} |-> Shared])

\* schedule: components in parallel; in a component the ready roots, each with
\* the fetches it inlines, and then the rest.
RECURSIVE Schedule(_, _, _)
Schedule(g, S, inline) ==
    LET comps == Components(g, S)
        roots == Roots(g, S)
        color == IF inline THEN ColorExclusive(g, S) ELSE [x \in {} |-> Shared]
        own(r) == {f \in DOMAIN color : color[f] = r}
        branch(r) == SequenceOf(<<Single(r), Schedule(g, own(r), inline)>>)
        scheduled == roots \cup UNION {own(r) : r \in roots}
        order == SetToSortSeq(roots, <)
    IN CASE S = {} -> Nil
         [] Cardinality(S) = 1 -> Single(CHOOSE f \in S : TRUE)
         [] Len(comps) > 1 ->
              ParallelOf([i \in DOMAIN comps |-> Schedule(g, comps[i], inline)])
         [] OTHER ->
              SequenceOf(<<ParallelOf([i \in DOMAIN order |-> branch(order[i])]),
                           Schedule(g, S \ scheduled, inline)>>)

-----------------------------------------------------------------------------
\* The time a tree takes when a fetch f takes time[f].
RECURSIVE Makespan(_, _, _)
Makespan(kind, nodes, time) ==
    IF nodes = <<>> THEN 0
    ELSE LET n == Head(nodes)
             first == IF n.kind = "single" THEN time[n.id] ELSE Makespan(n.kind, n.nodes, time)
             rest  == Makespan(kind, Tail(nodes), time)
         IN IF kind = "sequence" THEN first + rest ELSE Max({first, rest})

\* Durations of 0 and 1 tell two trees apart: a makespan is the weight of the
\* heaviest chain of fetches that wait for each other.
NeverSlower(a, b) ==
    \A time \in [FetchIDs(Leaves(a)) \cup FetchIDs(Leaves(b)) -> 0..1] :
        Makespan("sequence", <<a>>, time) <= Makespan("sequence", <<b>>, time)
=============================================================================
