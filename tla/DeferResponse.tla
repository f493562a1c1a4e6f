---------------------------- MODULE DeferResponse ----------------------------
(***************************************************************************)
(* Resolver.ResolveGraphQLDeferResponse: the initial frame, then one frame  *)
(* for each deferred fragment, resolved by concurrent goroutines along the  *)
(* tree of fragments. A fragment is fetched outside the lock of the         *)
(* DataBuffer; its frame is rendered, counted and flushed under it, which   *)
(* is one step. Data is reduced to which fragments' anchors survived a      *)
(* render, rendering and writing to whether they fail.                      *)
(***************************************************************************)
EXTENDS Integers, FiniteSets

CONSTANTS Defers,   \* ids of the @defer fragments, each assumed to have a fetch group
          Root,     \* the parent of the top-level ones
          Parents,  \* the shapes of the tree to consider
          Moves     \* which failures happen

ASSUME ConstantsAssumption ==
    /\ IsFiniteSet(Defers) /\ Root \notin Defers
    /\ Parents \subseteq [Defers -> Defers \cup {Root}]

VARIABLES
    parent,       \* DeferDescriptor.ParentID
    phase,        \* program counter of ResolveGraphQLDeferResponse
    group,        \* program counter of resolveDeferSingle for a fragment
    outstanding,  \* the shared counter
    announced,    \* ids in the pending entries of the frames on the wire
    completed,    \* ids in their completed entries
    hasNext,      \* of the last frame on the wire, "none" before the first
    ended         \* calls of writer.Complete

vars == <<parent, phase, group, outstanding, announced, completed, hasNext, ended>>

\* waiting: not reached yet. orphan: counted by a frame that was lost, and never
\* resolved. lost: its own frame was lost.
GroupStates == {"waiting", "fetch", "fetched", "failed", "done", "lost", "orphan"}

\* Types of the variables.
TypeOK ==
    /\ parent \in Parents
    /\ phase \in {"initial", "defers", "returned"}
    /\ group \in [Defers -> GroupStates]
    /\ outstanding \in Nat
    /\ announced \in SUBSET Defers /\ completed \in SUBSET Defers
    /\ hasNext \in {"none", "true", "false"}
    /\ ended \in 0..1

Init ==
    /\ parent \in Parents
    /\ phase = "initial"
    /\ group = [d \in Defers |-> "waiting"]
    /\ outstanding = 0
    /\ announced = {} /\ completed = {}
    /\ hasNext = "none"
    /\ ended = 0

Children(d) == {c \in Defers : parent[c] = d}

HasNext(more) == IF more THEN "true" ELSE "false"

\* pruneDeadDefers and the walk of resolveDeferTree: only the fragments that
\* were announced as live are resolved, each in a goroutine of its own.
Schedule(g, live) == [d \in Defers |-> IF d \in live THEN "fetch" ELSE g[d]]

-----------------------------------------------------------------------------

\* The pre-fetch authorizer, the initial fetch, its render or its flush fails:
\* nothing is on the wire and Complete is not registered yet.
InitialFails ==
    /\ phase = "initial" /\ "InitialFails" \in Moves
    /\ phase' = "returned"
    /\ UNCHANGED <<parent, group, outstanding, announced, completed, hasNext, ended>>

\* The initial frame announces the top-level fragments whose anchor survived.
\* Mutant: every fragment with no live parent is counted, nested ones too.
InitialFrameCountsAll(live) ==
    /\ phase = "initial"
    /\ live \in SUBSET Children(Root)
    /\ announced' = live /\ hasNext' = HasNext(live # {})
    /\ outstanding' = Cardinality(Defers)
    /\ group' = Schedule(group, live)
    /\ phase' = "defers"
    /\ UNCHANGED <<parent, completed, ended>>
InitialFrame(live) ==
    /\ phase = "initial"
    /\ live \in SUBSET Children(Root)
    /\ announced' = live /\ hasNext' = HasNext(live # {})
    /\ outstanding' = Cardinality(live)
    /\ group' = Schedule(group, live)
    /\ phase' = "defers"
    /\ UNCHANGED <<parent, completed, ended>>

\* ResolveFetchNode of the fragment's own loader, outside the lock. Subgraph
\* errors are data; a hard error fails the fragment.
Fetched(d) ==
    /\ group[d] = "fetch"
    /\ group' = [group EXCEPT ![d] = "fetched"]
    /\ UNCHANGED <<parent, phase, outstanding, announced, completed, hasNext, ended>>

FetchFails(d) ==
    /\ group[d] = "fetch" /\ "FetchFails" \in Moves
    /\ group' = [group EXCEPT ![d] = "failed"]
    /\ UNCHANGED <<parent, phase, outstanding, announced, completed, hasNext, ended>>

\* ResolveDeferBatch: announces the live children, completes the fragment,
\* counts both, says whether more is to come.
\* Mutant: the count is only taken down when the children are resolved.
RenderForgetsChildren(d, live) ==
    /\ group[d] = "fetched"
    /\ live \in SUBSET Children(d)
    /\ outstanding' = outstanding - 1
    /\ announced' = announced \cup live /\ completed' = completed \cup {d}
    /\ hasNext' = HasNext(outstanding' # 0)
    /\ group' = Schedule([group EXCEPT ![d] = "done"], live)
    /\ UNCHANGED <<parent, phase, ended>>
Render(d, live) ==
    /\ group[d] = "fetched"
    /\ live \in SUBSET Children(d)
    /\ outstanding' = outstanding + Cardinality(live) - 1
    /\ announced' = announced \cup live /\ completed' = completed \cup {d}
    /\ hasNext' = HasNext(outstanding' # 0)
    /\ group' = Schedule([group EXCEPT ![d] = "done"], live)
    /\ UNCHANGED <<parent, phase, ended>>

\* ResolveDeferError: completes the fragment with the error. Its children were
\* never announced and are not resolved.
\* Mutant: the failed fragment is not counted down.
RenderErrorUncounted(d) ==
    /\ group[d] = "failed"
    /\ completed' = completed \cup {d}
    /\ hasNext' = HasNext(outstanding # 0)
    /\ group' = [group EXCEPT ![d] = "done"]
    /\ UNCHANGED <<parent, phase, outstanding, announced, ended>>
RenderError(d) ==
    /\ group[d] = "failed"
    /\ outstanding' = outstanding - 1
    /\ completed' = completed \cup {d}
    /\ hasNext' = HasNext(outstanding' # 0)
    /\ group' = [group EXCEPT ![d] = "done"]
    /\ UNCHANGED <<parent, phase, announced, ended>>

\* Writing or flushing the frame fails after the counter was changed: the error
\* ends the Sequence, so the children that were counted are not resolved.
FrameLost(d, live) ==
    /\ "WriteFails" \in Moves
    /\ \/ group[d] = "fetched" /\ live \in SUBSET Children(d)
       \/ group[d] = "failed" /\ live = {}
    /\ outstanding' = outstanding + Cardinality(live) - 1
    /\ group' = [e \in Defers |-> IF e = d THEN "lost"
                                  ELSE IF e \in live THEN "orphan" ELSE group[e]]
    /\ UNCHANGED <<parent, phase, announced, completed, hasNext, ended>>

\* resolveDeferTree has joined every goroutine; the deferred Complete runs.
\* Mutant: the first goroutine that ends lets the response end.
ReturnEarly ==
    /\ phase = "defers"
    /\ \E d \in Defers : group[d] \in {"done", "lost"}
    /\ phase' = "returned" /\ ended' = ended + 1
    /\ UNCHANGED <<parent, group, outstanding, announced, completed, hasNext>>
\* Mutant: waits for the counter instead of the goroutines.
ReturnAtZero ==
    /\ phase = "defers" /\ outstanding = 0
    /\ phase' = "returned" /\ ended' = ended + 1
    /\ UNCHANGED <<parent, group, outstanding, announced, completed, hasNext>>
Return ==
    /\ phase = "defers"
    /\ \A d \in Defers : group[d] \notin {"fetch", "fetched", "failed"}
    /\ phase' = "returned" /\ ended' = ended + 1
    /\ UNCHANGED <<parent, group, outstanding, announced, completed, hasNext>>

GroupStep(d) ==
    \/ Fetched(d) \/ FetchFails(d) \/ RenderError(d)
    \/ \E live \in SUBSET Defers : Render(d, live) \/ FrameLost(d, live)

InitialStep == InitialFails \/ \E live \in SUBSET Defers : InitialFrame(live)

Next == InitialStep \/ Return \/ \E d \in Defers : GroupStep(d)

Spec == Init /\ [][Next]_vars

\* Fetches end (the HTTP client has a timeout) and goroutines that can run do.
FairSpec == Spec /\ WF_vars(InitialStep) /\ WF_vars(Return)
                 /\ \A d \in Defers : WF_vars(GroupStep(d))

-----------------------------------------------------------------------------
(* Properties. *)

Active == {d \in Defers : group[d] \in {"fetch", "fetched", "failed"}}
Orphans == {d \in Defers : group[d] = "orphan"}

\* The counter that concurrent frames share is exactly the number of fragments
\* that are counted and have not had their frame, the children of a lost frame
\* included.
OutstandingExact == outstanding = Cardinality(Active \cup Orphans)

\* hasNext:false is on the wire only when nobody is working any more, no lost frame left
\* counted fragments behind, and every announced fragment has had its frame or lost it.
\* Conversely, where nobody is working the last frame said hasNext:false, unless a frame
\* was lost: the last one may be the lost one.
FinalFrameIsFinal ==
    LET lost == {d \in Defers : group[d] = "lost"}
    IN  /\ hasNext = "false" => /\ Active \cup Orphans = {}
                                /\ announced \subseteq completed \cup lost
        /\ hasNext = "true" => Active # {} \/ lost # {}

\* A frame completes what an earlier frame announced, no fragment is announced
\* before its parent's frame, and those with a frame are the completed ones.
CompletedWasAnnounced ==
    /\ completed \subseteq announced
    /\ \A d \in announced : parent[d] = Root \/ parent[d] \in completed
    /\ \A d \in Defers : d \in completed <=> group[d] = "done"

\* Complete comes after the last frame, and a stream that is closed without
\* hasNext:false has lost a frame.
ClosedAfterLastFrame ==
    ended = 1 => /\ Active = {}
                 /\ hasNext = "false" \/ \E d \in Defers : group[d] = "lost"

\* Once the initial frame is out, every goroutine ends and the stream is closed,
\* whatever is lost on the way.
StreamIsClosed == phase = "defers" ~> ended = 1

Delivery == INSTANCE IncrementalDelivery WITH
    Fragments <- Defers,
    open <- Active \cup Orphans,
    used <- {d \in Defers : group[d] # "waiting"},
    done <- completed,
    wire <- hasNext

\* The frames on the wire are a run of IncrementalDelivery.
RefinesIncrementalDelivery == Delivery!Spec
=============================================================================
