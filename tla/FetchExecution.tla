--------------------------- MODULE FetchExecution ---------------------------
(***************************************************************************)
(* From the flat list of fetches the planner leaves to the end of the       *)
(* Loader's walk: duplicates are removed, the tree is organized, and the    *)
(* Loader resolves it with a goroutine for each child of a Parallel node.   *)
(* A fetch is prepared and merged under the lock of the DataBuffer, loaded  *)
(* outside it, and recorded as errored under it again.                      *)
(*                                                                         *)
(* A tree is only taken when it is valid. To see what the validation and    *)
(* the fallback are for, trees the scheduler does not build can be handed   *)
(* to it too.                                                               *)
(***************************************************************************)
EXTENDS FetchGraph

CONSTANTS Plans,  \* the plans to consider: the dependencies of the fetches (deps),
                  \* for each fetch the first one that equals it (first), its
                  \* subgraph (sub), the postprocessor's options (multi, scheduler)
                  \* and ExecutionOptions.SkipLoader (skipLoader)
          Schedules(_),  \* trees a scheduler that fails may make of a graph
          Moves   \* which failures happen

\* The subgraph of a fetch that cannot be merged with others: it is no entity
\* fetch, or a precondition of mergeGroup fails.
NoSub == "none"

\* What the planner guarantees: finitely many fetches that do not wait for each
\* other in a circle, and equal fetches have equal dependencies, up to equal ones.
IsPlan(p) ==
    /\ p.deps \in [DOMAIN p.deps -> SUBSET Nat]
    /\ Mentioned(p.deps) \subseteq Nat /\ IsFiniteSet(Mentioned(p.deps))
    /\ Acyclic(p.deps)
    /\ p.first \in [DOMAIN p.deps -> DOMAIN p.deps]
    /\ \A f \in DOMAIN p.deps :
         /\ p.first[p.first[f]] = p.first[f]
         /\ {p.first[d] : d \in Parents(p.deps, f)}
               = {p.first[d] : d \in Parents(p.deps, p.first[f])}
    /\ DOMAIN p.sub = DOMAIN p.deps
    /\ {p.multi, p.scheduler, p.skipLoader} \subseteq BOOLEAN

ASSUME PlansAssumption == \A p \in Plans : IsPlan(p)

VARIABLES plan,
          phase,    \* of postprocessing, then of the walk
          graph,    \* dependencies of the fetches of the tree
          rep,      \* the fetch of the tree that does the work of a planned one
          waves,    \* root.ChildNodes while createParallelNodes groups them
          calls,    \* of schedule that are still to be made
          built,    \* the trees they have built, without and with inlining
          tree,
          status,   \* of each fetch of the tree
          errored   \* Loader.erroredFetchIDs

scheduling == <<calls, built>>

vars == <<plan, phase, graph, rep, waves, scheduling, tree, status, errored>>

Planned == DOMAIN plan.deps

Init ==
    /\ plan \in Plans
    /\ phase = "flat"
    /\ graph = plan.deps /\ rep = [f \in Planned |-> f]
    /\ waves = <<>> /\ tree = {}
    /\ calls = {} /\ built = [inline \in BOOLEAN |-> {}]
    /\ status = <<>> /\ errored = {}

-----------------------------------------------------------------------------
(* Postprocessing.                                                          *)

\* organizeFetchTree: the waves are needed to find what can be merged, and in
\* place of the scheduler.
Organizing == IF plan.scheduler /\ ~plan.multi THEN "schedule" ELSE "waves"

\* deduplicateSingleFetches: a fetch that equals an earlier one is removed and
\* those that depend on it are pointed at the one that stays.
\* Mutant: the dependents keep the id of the removed fetch.
DeduplicateOnly ==
    /\ phase = "flat" /\ phase' = Organizing
    /\ rep' = plan.first
    /\ graph' = [f \in {plan.first[e] : e \in Planned} |-> graph[f]]
    /\ UNCHANGED <<plan, waves, tree, status, errored, scheduling>>
Deduplicate ==
    /\ phase = "flat" /\ phase' = Organizing
    /\ rep' = plan.first
    /\ graph' = [f \in {plan.first[e] : e \in Planned} |->
                    {IF d \in Planned THEN plan.first[d] ELSE d : d \in graph[f]}]
    /\ UNCHANGED <<plan, waves, tree, status, errored, scheduling>>

Provided == UNION {waves[i] : i \in DOMAIN waves}
Rest     == DOMAIN graph \ Provided

\* One round of createParallelNodes: the first of the fetches that are left, in
\* the order of orderSequenceByDependencies, opens a wave, and those whose
\* dependencies the earlier waves provide join it.
\* Mutant: the fetch that opens the wave counts as provided.
NextWaveEager ==
    /\ phase \in {"waves", "fallback"}
    /\ \E f \in Rest :
         /\ \A e \in Rest \ {f} : ComesFirst(graph, f, e)
         /\ waves' = Append(waves, {f} \cup {e \in Rest : graph[e] \subseteq Provided \cup {f}})
    /\ UNCHANGED <<plan, phase, graph, rep, tree, status, errored, scheduling>>
NextWave ==
    /\ phase \in {"waves", "fallback"}
    /\ \E f \in Rest :
         /\ \A e \in Rest \ {f} : ComesFirst(graph, f, e)
         /\ waves' = Append(waves, {f} \cup {e \in Rest : graph[e] \subseteq Provided})
    /\ UNCHANGED <<plan, phase, graph, rep, tree, status, errored, scheduling>>

\* The fetches of one wave that go to the subgraph of f.
Group(f) ==
    {m \in DOMAIN graph : plan.sub[m] = plan.sub[f]
                            /\ \E i \in DOMAIN waves : {f, m} \subseteq waves[i]}

\* createMultiFetch: the one that is left of the group of f has the lowest id.
Survivor(f) ==
    IF plan.multi /\ plan.sub[f] # NoSub
    THEN CHOOSE m \in Group(f) : \A e \in Group(f) : m <= e
    ELSE f

\* The other members are dropped from their Parallel node.
Merged == [i \in DOMAIN waves |-> {f \in waves[i] : Survivor(f) = f}]

CreateMultiFetch ==
    /\ phase = "waves" /\ Rest = {}
    /\ graph' = Rewired(graph, [f \in DOMAIN graph |-> Survivor(f)])
    /\ rep' = [f \in Planned |-> Survivor(rep[f])]
    /\ waves' = Merged
    /\ tree' = IF plan.scheduler THEN tree ELSE TreeInWaves(Merged)
    /\ phase' = IF plan.scheduler THEN "schedule" ELSE "organized"
    /\ UNCHANGED <<plan, status, errored, scheduling>>

\* buildScheduleTree calls schedule for each component, without and with inlining.
BuildScheduleTree ==
    /\ phase = "schedule" /\ phase' = "build"
    /\ calls' = {Call(C, << <<"parallel", First(C)>> >>, inline) :
                    C \in WeaklyConnectedComponents(graph, DOMAIN graph), inline \in BOOLEAN}
    /\ UNCHANGED <<plan, graph, rep, waves, built, tree, status, errored>>

\* All calls of schedule at one depth of the recursion.
Schedule ==
    /\ phase = "build" /\ calls # {}
    /\ calls' = UNION {{d \in Subcalls(graph, c) : d.set # {}} : c \in {c \in calls : ~IsSingle(c)}}
    /\ built' = [inline \in BOOLEAN |->
                    built[inline] \cup {Leaf(First(c.set), c.path) :
                        c \in {c \in calls : IsSingle(c) /\ c.inline = inline}}]
    /\ UNCHANGED <<plan, phase, graph, rep, waves, tree, status, errored>>

\* For each component the inlined tree, if it dominates.
\* Mutant: the inlined tree, whatever it is.
InlinedTree == built[TRUE]
ScheduleTree ==
    UNION {LET inlined == PartOf(built[TRUE], C)
               barrier == PartOf(built[FALSE], C)
           IN IF Dominates(inlined, barrier) THEN inlined ELSE barrier :
              C \in WeaklyConnectedComponents(graph, DOMAIN graph)}

\* validateSchedule, and what organizeFetchTree does when scheduling fails: the
\* waves are built (again), nothing is merged any more.
ScheduleFetches ==
    /\ phase = "build" /\ calls = {}
    /\ \E t \in {ScheduleTree} \cup Schedules(graph) :
         IF ValidSchedule(t, graph)
         THEN phase' = "organized" /\ tree' = t /\ waves' = waves
         ELSE phase' = "fallback" /\ tree' = tree /\ waves' = <<>>
    /\ UNCHANGED <<plan, graph, rep, status, errored, scheduling>>

FallBack ==
    /\ phase = "fallback" /\ Rest = {} /\ phase' = "organized"
    /\ tree' = TreeInWaves(waves)
    /\ UNCHANGED <<plan, graph, rep, waves, status, errored, scheduling>>

-----------------------------------------------------------------------------
(* The walk. resolveFetchNode is called on the root; a Parallel waits for   *)
(* all children and fails if one did, a Sequence stops at the first failure.*)

Ended == {"merged", "skipped", "failed"}

\* The goroutine of f is at the call of resolveSingle: on the way to it every
\* earlier child of a Sequence has returned, and without an error.
\* Mutant: a fetch that failed keeps the others from being started.
StartedWithContext(f) ==
    /\ \A e \in Predecessors(tree, f) : status[e] \in {"merged", "skipped"}
    /\ \A e \in DOMAIN graph : status[e] # "failed"
Started(f) == \A e \in Predecessors(tree, f) : status[e] \in {"merged", "skipped"}

StartWalk ==
    /\ phase = "organized" /\ ~plan.skipLoader /\ phase' = "walk"
    /\ status' = [f \in DOMAIN graph |-> "idle"]
    /\ UNCHANGED <<plan, graph, rep, waves, tree, errored, scheduling>>

\* preparePhase: skipped when a dependency is errored, and then errored itself.
\* Rendering or authorization may fail for good, or leave nothing to load.
\* Mutant: a skipped fetch is not recorded.
PrepareForgetsSkipped(f) ==
    /\ phase = "walk" /\ status[f] = "idle" /\ Started(f)
    /\ IF graph[f] \cap errored # {}
       THEN status' = [status EXCEPT ![f] = "skipped"]
       ELSE \E s \in {"load", "loaded", "failed"} :
              /\ s = "load" \/ (s = "loaded" /\ "NothingToLoad" \in Moves)
                            \/ (s = "failed" /\ "PrepareFails" \in Moves)
              /\ status' = [status EXCEPT ![f] = s]
    /\ UNCHANGED <<plan, phase, graph, rep, waves, tree, errored, scheduling>>
Prepare(f) ==
    /\ phase = "walk" /\ status[f] = "idle" /\ Started(f)
    /\ IF graph[f] \cap errored # {}
       THEN /\ status' = [status EXCEPT ![f] = "skipped"]
            /\ errored' = errored \cup {f}
       ELSE /\ \E s \in {"load", "loaded", "failed"} :
                 /\ s = "load" \/ (s = "loaded" /\ "NothingToLoad" \in Moves)
                               \/ (s = "failed" /\ "PrepareFails" \in Moves)
                 /\ status' = [status EXCEPT ![f] = s]
            /\ UNCHANGED errored
    /\ UNCHANGED <<plan, phase, graph, rep, waves, tree, scheduling>>

\* loadPhase, outside the lock.
Load(f) ==
    /\ phase = "walk" /\ status[f] = "load"
    /\ \E s \in {"loaded", "error"} :
         /\ s = "error" => "LoadFails" \in Moves
         /\ status' = [status EXCEPT ![f] = s]
    /\ UNCHANGED <<plan, phase, graph, rep, waves, tree, errored, scheduling>>

\* recordErroredFetchID.
Record(f) ==
    /\ phase = "walk" /\ status[f] = "error"
    /\ status' = [status EXCEPT ![f] = "loaded"] /\ errored' = errored \cup {f}
    /\ UNCHANGED <<plan, phase, graph, rep, waves, tree, scheduling>>

\* mergePhase: a failed load renders its error and is no failure of the walk.
Merge(f) ==
    /\ phase = "walk" /\ status[f] = "loaded"
    /\ \E s \in {"merged", "failed"} :
         /\ s = "failed" => "MergeFails" \in Moves /\ f \notin errored
         /\ status' = [status EXCEPT ![f] = s]
    /\ UNCHANGED <<plan, phase, graph, rep, waves, tree, errored, scheduling>>

ReturnWalk ==
    /\ phase = "walk" /\ phase' = "returned"
    /\ \A f \in DOMAIN graph : Started(f) => status[f] \in Ended
    /\ UNCHANGED <<plan, graph, rep, waves, tree, status, errored, scheduling>>

FetchStep(f) == Prepare(f) \/ Load(f) \/ Record(f) \/ Merge(f)

Postprocess ==
    \/ Deduplicate \/ NextWave \/ CreateMultiFetch
    \/ BuildScheduleTree \/ Schedule \/ ScheduleFetches \/ FallBack

Resolve == StartWalk \/ ReturnWalk \/ \E f \in DOMAIN graph : FetchStep(f)

Next == Postprocess \/ Resolve

Spec == Init /\ [][Next]_vars

\* Goroutines that can run do, and a load ends.
FairSpec == Spec /\ WF_vars(ReturnWalk) /\ WF_vars(\E f \in DOMAIN graph : FetchStep(f))

-----------------------------------------------------------------------------
(* Properties.                                                              *)

CallsOK ==
    /\ calls \subseteq [set : SUBSET Planned, path : Paths, inline : BOOLEAN]
    /\ built \in [BOOLEAN -> SUBSET [id : Planned, path : Paths]]

TypeOK ==
    /\ IsPlan(plan)
    /\ phase \in {"flat", "waves", "schedule", "build", "fallback",
                 "organized", "walk", "returned"}
    /\ DOMAIN graph \subseteq Planned
    /\ graph \in [DOMAIN graph -> SUBSET Mentioned(plan.deps)]
    /\ rep \in [Planned -> DOMAIN graph]
    /\ waves \in Seq(SUBSET DOMAIN graph)
    /\ CallsOK
    /\ status \in [DOMAIN status -> {"idle", "load", "error", "loaded"} \cup Ended]
    /\ phase \in {"walk", "returned"} => DOMAIN status = DOMAIN graph
    /\ errored \subseteq DOMAIN status

\* The comparison of orderSequenceByDependencies mixes the ids of the fetches, what
\* they depend on and how many those are; it is an order all the same, so sorting
\* with it is well defined, and it puts each fetch behind its dependencies.
OrderIsTotal ==
    phase \in {"waves", "fallback"} /\ waves = <<>> =>
        \A a, b \in DOMAIN graph :
            /\ a # b => ComesFirst(graph, a, b) \/ ComesFirst(graph, b, a)
            /\ ComesFirst(graph, a, b) =>
                 /\ ~ComesFirst(graph, b, a)
                 /\ \A c \in DOMAIN graph : ComesFirst(graph, b, c) => ComesFirst(graph, a, c)
            /\ a \in graph[b] => ComesFirst(graph, a, b)

\* The tree of the scheduler is valid, so the fallback is only there for a scheduler
\* that errs; and in plans with merging, which have waves to compare with, when all
\* dependencies are in the tree no fetch waits in it for one that it does not wait for
\* in the waves createParallelNodes made.
ScheduleIsBest ==
    phase = "build" /\ calls = {} =>
        /\ ValidSchedule(ScheduleTree, graph)
        /\ plan.multi /\ (\A f \in DOMAIN graph : graph[f] \subseteq DOMAIN graph)
              => Dominates(ScheduleTree, TreeInWaves(waves))

\* Through deduplication and merging, with the scheduler and without, and whatever
\* tree the scheduler comes up with: the tree that is executed does the work of
\* each planned fetch once, and after that of the fetches it depends on.
TreeIsSound ==
    phase = "organized" =>
        /\ ValidSchedule(tree, graph)
        /\ \A f \in Planned :
             /\ rep[f] \in FetchIDs(tree)
             /\ \A d \in Parents(plan.deps, f) : rep[d] \in Predecessors(tree, rep[f])

\* The fetch that does the work of a planned one starts after those that do the
\* work of its dependencies have been merged into the response, or skipped.
WaitsForDependencies ==
    phase \in {"walk", "returned"} =>
        \A f \in Planned : status[rep[f]] # "idle" =>
            \A d \in Parents(plan.deps, f) : status[rep[d]] \in {"merged", "skipped"}

\* A fetch is sent to its subgraph only if nothing it depends on, directly or
\* not, is errored, and each errored fetch is or depends on one that was sent
\* and failed.
ErrorsSpreadDown ==
    phase \in {"walk", "returned"} =>
        /\ \A f \in DOMAIN graph : status[f] \in {"load", "loaded"} =>
               DependsOn(graph, f) \cap errored = {}
        /\ \A f \in errored : status[f] = "skipped" =>
               \E d \in DependsOn(graph, f) : d \in errored /\ status[d] = "merged"

\* A walk leaves a fetch out only if one that the tree puts before it failed for
\* good, never because of a sibling, and it leaves no fetch in the middle.
LeftOutForCause ==
    phase = "returned" =>
        \A f \in DOMAIN graph :
            \/ status[f] \in Ended
            \/ status[f] = "idle" /\ \E e \in Predecessors(tree, f) : status[e] = "failed"

\* A walk returns, whatever fails, and has then left out nothing without cause.
WalkReturns == phase = "walk" ~> phase = "returned" /\ LeftOutForCause
=============================================================================
