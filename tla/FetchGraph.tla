----------------------------- MODULE FetchGraph -----------------------------
(***************************************************************************)
(* Dependency graphs of fetches and fetch trees, as the postprocessing of   *)
(* plans (v2/pkg/engine/postprocess) and the Loader look at them.           *)
(*                                                                         *)
(* A graph maps the id of each fetch of a tree to its DependsOnFetchIDs,    *)
(* which may name fetches outside the tree. A tree is the set of its Single *)
(* nodes, each with the path that leads to it from the root: the kind of    *)
(* each node on the way and which of its children comes next.               *)
(***************************************************************************)
EXTENDS Integers, Sequences, FiniteSets

Parents(g, f) == g[f] \cap DOMAIN g

Mentioned(g) == DOMAIN g \cup UNION {g[f] : f \in DOMAIN g}

Closed(g, S) == \A f \in S \cap DOMAIN g : g[f] \subseteq S

\* nodeDependsOn: the dependencies of f, and those of each that is in the tree.
DependsOn(g, f) ==
    LET closed == {S \in SUBSET Mentioned(g) : g[f] \subseteq S /\ Closed(g, S)}
    IN {d \in Mentioned(g) : \A S \in closed : d \in S}

\* No fetches wait for each other in a circle.
Acyclic(g) == \A S \in SUBSET DOMAIN g : S # {} => \E f \in S : g[f] \cap S = {}

\* The comparison orderSequenceByDependencies sorts the fetches with.
ComesFirst(g, a, b) ==
    LET da == DependsOn(g, a)
        db == DependsOn(g, b)
    IN \/ da = db /\ a < b
       \/ da # db /\ a \in db
       \/ /\ da # db /\ a \notin db /\ b \notin da
          /\ \/ Cardinality(da) < Cardinality(db)
             \/ Cardinality(da) = Cardinality(db) /\ a < b

\* The graph in which the work of f is done by rep[f]: dependencies of fetches
\* that became one are united, and dependents are pointed at it.
Rewired(g, rep) ==
    [m \in {rep[f] : f \in DOMAIN g} |->
        {IF d \in DOMAIN g THEN rep[d] ELSE d :
            d \in UNION {g[f] : f \in {e \in DOMAIN g : rep[e] = m}}} \ {m}]

-----------------------------------------------------------------------------

Paths == Seq({"sequence", "parallel"} \X Nat)

Leaf(f, path) == [id |-> f, path |-> path]

FetchIDs(tree) == {leaf.id : leaf \in tree}

\* Two paths part at a Sequence, p towards an earlier child.
Precedes(p, q) ==
    \E k \in DOMAIN p \cap DOMAIN q :
        /\ \A j \in 1..(k - 1) : p[j] = q[j]
        /\ p[k][1] = "sequence" /\ q[k][1] = "sequence" /\ p[k][2] < q[k][2]

\* treePredecessors: what has completed in the tree before f is started.
Predecessors(tree, f) ==
    {e \in FetchIDs(tree) : \E a, b \in tree :
        a.id = e /\ b.id = f /\ Precedes(a.path, b.path)}

\* validateSchedule. (Sequence and Parallel are the only kinds it descends.)
ValidSchedule(tree, g) ==
    /\ \A leaf \in tree : leaf.path \in Paths
    /\ FetchIDs(tree) = DOMAIN g
    /\ \A a, b \in tree : a.id = b.id => a = b
    /\ \A f \in DOMAIN g : Parents(g, f) \subseteq Predecessors(tree, f)

\* dominates: each fetch waits for no more than it does in the other tree.
\* Mutant: the trees are compared the wrong way round.
DominatesSwapped(a, b) ==
    /\ FetchIDs(a) = FetchIDs(b)
    /\ \A f \in FetchIDs(a) : Predecessors(b, f) \subseteq Predecessors(a, f)
Dominates(a, b) ==
    /\ FetchIDs(a) = FetchIDs(b)
    /\ \A f \in FetchIDs(a) : Predecessors(a, f) \subseteq Predecessors(b, f)

\* createParallelNodes leaves a Sequence of Parallel nodes. (A wave of one fetch
\* is that fetch, which is no different from a Parallel node around it.)
TreeInWaves(waves) ==
    UNION {{Leaf(f, << <<"sequence", i>>, <<"parallel", f>> >>) : f \in waves[i]} :
               i \in DOMAIN waves}

-----------------------------------------------------------------------------
(* scheduleFetches. A call of schedule is made for a set of fetches, whose  *)
(* tree is to be at a path, and with or without inlining.                   *)

\* No dependency leaves C within S.
Joined(g, S, C) == \A a \in C, b \in S \ C : a \notin g[b] /\ b \notin g[a]

\* weaklyConnectedComponents: the one f is in, and all.
Component(g, S, f) ==
    {e \in S : \A C \in SUBSET S : f \in C /\ Joined(g, S, C) => e \in C}
WeaklyConnectedComponents(g, S) == {Component(g, S, f) : f \in S}

ReadyRoots(g, S) == {f \in S : g[f] \cap S = {}}

\* colorExclusive: the fetches of S reached from the root r, and from no other.
\* Mutant: and maybe from others.
ReachedFrom(g, S, r) ==
    {f \in S \ ReadyRoots(g, S) :
        r \in DependsOn([e \in S |-> g[e] \cap S], f) \cap ReadyRoots(g, S)}
Exclusive(g, S, r) ==
    {f \in S \ ReadyRoots(g, S) :
        DependsOn([e \in S |-> g[e] \cap S], f) \cap ReadyRoots(g, S) = {r}}

Call(S, path, inline) == [set |-> S, path |-> path, inline |-> inline]

First(S) == CHOOSE m \in S : \A e \in S : m <= e

\* The calls made on behalf of one for more than one fetch: for each component, the
\* Parallel is ordered by the lowest ids; or for each root and what it inlines, and
\* then for the rest. (The calls for a root, and those for no fetch, return at once.)
Subcalls(g, c) ==
    LET parts   == WeaklyConnectedComponents(g, c.set)
        roots   == ReadyRoots(g, c.set)
        own(r)  == IF c.inline THEN Exclusive(g, c.set, r) ELSE {}
        rest    == c.set \ (roots \cup UNION {own(r) : r \in roots})
        at(S, way) == Call(S, c.path \o way, c.inline)
        branch(r, i) == << <<"sequence", 1>>, <<"parallel", r>>, <<"sequence", i>> >>
    IN IF parts # {c.set}
       THEN {at(P, << <<"parallel", First(P)>> >>) : P \in parts}
       ELSE {at({r}, branch(r, 1)) : r \in roots}
              \cup {at(own(r), branch(r, 2)) : r \in roots}
              \cup {at(rest, << <<"sequence", 2>> >>)}

IsSingle(c) == \E f \in c.set : c.set = {f}

\* The part of a tree that holds the fetches of S.
PartOf(tree, S) == {leaf \in tree : leaf.id \in S}
=============================================================================
