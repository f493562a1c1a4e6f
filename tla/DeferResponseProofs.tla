------------------------- MODULE DeferResponseProofs -------------------------
(***************************************************************************)
(* Safety of DeferResponse and its refinement of IncrementalDelivery, for   *)
(* any number of fragments and any shape of their tree.                     *)
(***************************************************************************)
EXTENDS DeferResponse, FiniteSetTheorems, TLAPS

Counted == Active \cup Orphans

Lost == {d \in Defers : group[d] = "lost"}

\* Nobody is resolved, or counted, before its parent's frame was rendered.
Reached ==
    \A d \in Defers : group[d] # "waiting" =>
        parent[d] = Root \/ group[parent[d]] \in {"done", "lost"}

\* What is on the wire follows from where the fragments are.
WireMatches ==
    /\ completed = {d \in Defers : group[d] = "done"}
    /\ announced = {d \in Defers : group[d] \in {"fetch", "fetched", "failed", "done"}}
                   \cup (announced \cap Lost)
    /\ hasNext = "none" => \A d \in Defers : group[d] = "waiting"
    /\ hasNext = "false" => Counted = {}
    /\ hasNext = "true" => Counted # {} \/ Lost # {}

OrphansHaveLostParent == Orphans # {} => Lost # {}

PhaseMatches ==
    /\ phase = "initial" => hasNext = "none" /\ ended = 0
    /\ phase = "defers" => hasNext # "none" /\ ended = 0
    /\ ended = 1 => hasNext # "none"
    /\ phase = "returned" => Active = {}

AnnouncedInOrder ==
    \A d \in announced : parent[d] = Root \/ parent[d] \in completed

DeferInv ==
    /\ TypeOK /\ OutstandingExact /\ Reached /\ WireMatches
    /\ OrphansHaveLostParent /\ PhaseMatches /\ AnnouncedInOrder

-----------------------------------------------------------------------------

\* The count after a frame: one fragment leaves, the children it announces come.
LEMMA CountAfterFrame ==
    ASSUME NEW S, IsFiniteSet(S), NEW d \in S, NEW L, IsFiniteSet(L), L \cap S = {}
    PROVE  Cardinality((S \ {d}) \cup L) = Cardinality(S) + Cardinality(L) - 1
<1>1. IsFiniteSet(S \ {d}) /\ Cardinality(S \ {d}) = Cardinality(S) - 1
  BY FS_RemoveElement
<1>2. (S \ {d}) \cap L = {}
  OBVIOUS
<1>3. Cardinality((S \ {d}) \cup L)
        = Cardinality(S \ {d}) + Cardinality(L) - Cardinality((S \ {d}) \cap L)
  BY <1>1, FS_Union
<1>4. Cardinality({}) = 0 /\ Cardinality(S) \in Nat /\ Cardinality(L) \in Nat
  BY FS_EmptySet, FS_CardinalityType
<1>5. Cardinality((S \ {d}) \cap L) = 0
  BY <1>2, <1>4
<1>6. Cardinality((S \ {d}) \cup L) = (Cardinality(S) - 1) + Cardinality(L) - 0
  BY <1>1, <1>3, <1>5
<1> QED
  BY <1>4, <1>6

LEMMA SetsFinite ==
    /\ IsFiniteSet(Counted)
    /\ \A S \in SUBSET Defers : IsFiniteSet(S) /\ Cardinality(S) \in Nat
                                /\ (Cardinality(S) = 0 <=> S = {})
<1>1. IsFiniteSet(Defers)
  BY ConstantsAssumption
<1>2. \A S \in SUBSET Defers : IsFiniteSet(S)
  BY <1>1, FS_Subset
<1>3. \A S \in SUBSET Defers : Cardinality(S) \in Nat /\ (Cardinality(S) = 0 <=> S = {})
  BY <1>2, FS_CardinalityType, FS_EmptySet
<1>4. Counted \in SUBSET Defers
  BY DEF Counted, Active, Orphans
<1> QED
  BY <1>2, <1>3, <1>4

LEMMA InitDeferInv == Init => DeferInv
<1> SUFFICES ASSUME Init PROVE DeferInv
  OBVIOUS
<1> USE DEF Init
<1>1. Counted = {} /\ Active = {} /\ Orphans = {} /\ Lost = {}
  BY DEF Counted, Active, Orphans, Lost
<1>2. Cardinality({}) = 0
  BY FS_EmptySet
<1>3. TypeOK
  BY DEF TypeOK, GroupStates
<1>4. OutstandingExact
  BY <1>1, <1>2 DEF OutstandingExact, Counted
<1> QED
  BY <1>1, <1>3, <1>4
  DEF DeferInv, Reached, WireMatches, OrphansHaveLostParent, PhaseMatches, AnnouncedInOrder

-----------------------------------------------------------------------------

\* A fragment that is being resolved has no child that was reached, so the
\* children its frame counts are new.
LEMMA ChildrenWait ==
    ASSUME DeferInv, NEW d \in Defers, d \in Active,
           NEW live \in SUBSET Children(d)
    PROVE  /\ \A c \in live : c \in Defers /\ group[c] = "waiting"
           /\ d \notin live /\ live \cap Counted = {} /\ d \in Counted
           /\ phase = "defers" /\ hasNext = "true"
<1> USE ConstantsAssumption DEF DeferInv, TypeOK
<1>1. d # Root /\ group[d] \in {"fetch", "fetched", "failed"}
  BY DEF Active
<1>2. \A c \in live : c \in Defers /\ parent[c] = d
  BY DEF Children
<1>3. \A c \in live : group[c] = "waiting"
  BY <1>1, <1>2 DEF Reached
<1>4. d \in Counted
  BY DEF Counted
<1>5. phase = "defers" /\ hasNext = "true"
  BY <1>1, <1>4 DEF WireMatches, PhaseMatches, Active
<1> QED
  BY <1>1, <1>2, <1>3, <1>4, <1>5 DEF Counted, Active, Orphans

\* The set of counted fragments after a frame, on the wire or lost.
LEMMA CountedAfterFrame ==
    ASSUME DeferInv, NEW d \in Defers, d \in Active,
           NEW live \in SUBSET Children(d),
           outstanding' = outstanding + Cardinality(live) - 1,
           Counted' = (Counted \ {d}) \cup live
    PROVE  /\ OutstandingExact' /\ outstanding' \in Nat
           /\ outstanding' = 0 <=> Counted' = {}
<1>1. live \cap Counted = {} /\ d \in Counted
  BY ChildrenWait
<1>2. live \in SUBSET Defers /\ Counted \in SUBSET Defers
  BY DEF Children, Counted, Active, Orphans
<1>3. IsFiniteSet(live) /\ IsFiniteSet(Counted)
  BY <1>2, SetsFinite
<1>4. Cardinality(Counted') = Cardinality(Counted) + Cardinality(live) - 1
  BY <1>1, <1>3, CountAfterFrame
<1>5. outstanding = Cardinality(Counted)
  BY DEF DeferInv, OutstandingExact, Counted
<1>6. outstanding' = Cardinality(Counted')
  BY <1>4, <1>5
<1>7. Counted' \in SUBSET Defers
  BY <1>2
<1>8. Cardinality(Counted') \in Nat /\ (Cardinality(Counted') = 0 <=> Counted' = {})
  BY <1>7, SetsFinite
<1> QED
  BY <1>6, <1>8 DEF OutstandingExact, Counted

-----------------------------------------------------------------------------

LEMMA InitialFrameKeeps ==
    ASSUME DeferInv, NEW live \in SUBSET Defers, InitialFrame(live)
    PROVE  DeferInv'
<1> USE DEF InitialFrame, DeferInv, TypeOK
<1>1. \A d \in Defers : group[d] = "waiting"
  BY DEF WireMatches, PhaseMatches
<1>2. group' = [d \in Defers |-> IF d \in live THEN "fetch" ELSE "waiting"]
  BY <1>1 DEF Schedule
<1>3. Active' = live /\ Orphans' = {} /\ Counted' = live /\ Lost' = {}
  BY <1>2 DEF Active, Orphans, Counted, Lost
<1>4. Cardinality(live) \in Nat
  BY SetsFinite
<1>5. TypeOK'
  BY <1>2, <1>4 DEF GroupStates, HasNext
<1>6. OutstandingExact'
  BY <1>3 DEF OutstandingExact, Counted
<1>7. Reached'
  BY <1>2 DEF Reached, Children
<1>8. completed = {} /\ ended = 0
  BY <1>1 DEF WireMatches, PhaseMatches
<1>9. WireMatches'
  BY <1>2, <1>3, <1>8 DEF WireMatches, HasNext
<1> QED
  BY <1>3, <1>5, <1>6, <1>7, <1>8, <1>9
  DEF OrphansHaveLostParent, PhaseMatches, AnnouncedInOrder, HasNext, Children

LEMMA FetchKeeps ==
    ASSUME DeferInv, NEW d \in Defers, Fetched(d) \/ FetchFails(d)
    PROVE  DeferInv'
<1> USE DEF Fetched, FetchFails, DeferInv, TypeOK
<1>1. /\ group[d] = "fetch"
      /\ \E s \in {"fetched", "failed"} : group' = [group EXCEPT ![d] = s]
      /\ UNCHANGED <<parent, phase, outstanding, announced, completed, hasNext, ended>>
  OBVIOUS
<1>2. Active' = Active /\ Orphans' = Orphans /\ Counted' = Counted /\ Lost' = Lost
  BY <1>1 DEF Active, Orphans, Counted, Lost
<1>3. TypeOK'
  BY <1>1 DEF GroupStates
<1>4. Reached'
  BY <1>1, ConstantsAssumption DEF Reached
<1>5. WireMatches'
  BY <1>1, <1>2 DEF WireMatches
<1> QED
  BY <1>1, <1>2, <1>3, <1>4, <1>5
  DEF OutstandingExact, OrphansHaveLostParent, PhaseMatches, AnnouncedInOrder

LEMMA RenderKeeps ==
    ASSUME DeferInv, NEW d \in Defers, NEW live \in SUBSET Defers, Render(d, live)
    PROVE  DeferInv'
<1> USE DEF Render, DeferInv, TypeOK
<1>1. d \in Active /\ live \in SUBSET Children(d)
  BY DEF Active
<1>2. /\ \A c \in live : c \in Defers /\ group[c] = "waiting"
      /\ d \notin live /\ live \cap Counted = {} /\ d \in Counted
      /\ phase = "defers" /\ hasNext = "true"
  BY <1>1, ChildrenWait
<1>3. group' = [e \in Defers |-> IF e \in live THEN "fetch"
                                 ELSE IF e = d THEN "done" ELSE group[e]]
  BY <1>2 DEF Schedule
<1>4. /\ Active' = (Active \ {d}) \cup live
      /\ Orphans' = Orphans /\ Lost' = Lost
  BY <1>2, <1>3 DEF Active, Orphans, Lost
<1>5. Counted' = (Counted \ {d}) \cup live
  BY <1>1, <1>4 DEF Counted, Active, Orphans
<1>6. OutstandingExact' /\ outstanding' \in Nat /\ (outstanding' = 0 <=> Counted' = {})
  BY <1>1, <1>5, CountedAfterFrame
<1>7. TypeOK'
  BY <1>3, <1>6 DEF GroupStates, HasNext
<1>8. Reached'
  <2> SUFFICES ASSUME NEW e \in Defers, group'[e] # "waiting"
               PROVE  parent[e] = Root \/ group'[parent[e]] \in {"done", "lost"}
    BY DEF Reached
  <2>1. parent[e] \in Defers \cup {Root}
    BY ConstantsAssumption
  <2>2. CASE e \in live
    BY <1>2, <1>3, <2>2 DEF Children
  <2>3. CASE e \notin live
    BY <1>2, <1>3, <2>1, <2>3 DEF Reached
  <2> QED
    BY <2>2, <2>3
<1>9. WireMatches'
  <2>1. completed' = {e \in Defers : group'[e] = "done"}
    BY <1>2, <1>3 DEF WireMatches
  <2>2. announced' = {e \in Defers : group'[e] \in {"fetch", "fetched", "failed", "done"}}
                     \cup (announced' \cap Lost')
    <3>1. {e \in Defers : group'[e] \in {"fetch", "fetched", "failed", "done"}}
            = {e \in Defers : group[e] \in {"fetch", "fetched", "failed", "done"}} \cup live
      BY <1>2, <1>3
    <3>2. live \cap Lost = {}
      BY <1>2 DEF Lost
    <3> QED
      BY <1>4, <3>1, <3>2 DEF WireMatches
  <2>3. hasNext' = "false" <=> Counted' = {}
    BY <1>6 DEF HasNext
  <2>4. hasNext' \in {"true", "false"}
    BY DEF HasNext
  <2> QED
    BY <2>1, <2>2, <2>3, <2>4 DEF WireMatches
<1>10. AnnouncedInOrder'
  BY DEF AnnouncedInOrder, Children
<1>11. PhaseMatches'
  BY <1>2 DEF PhaseMatches, HasNext
<1>12. OrphansHaveLostParent'
  BY <1>4 DEF OrphansHaveLostParent
<1> QED
  BY <1>6, <1>7, <1>8, <1>9, <1>10, <1>11, <1>12

LEMMA RenderErrorKeeps ==
    ASSUME DeferInv, NEW d \in Defers, RenderError(d)
    PROVE  DeferInv'
<1> USE DEF RenderError, DeferInv, TypeOK
<1>1. d \in Active /\ {} \in SUBSET Children(d)
  BY DEF Active
<1>2. d \in Counted /\ phase = "defers" /\ hasNext = "true"
  BY <1>1, ChildrenWait
<1>3. /\ Active' = Active \ {d}
      /\ Orphans' = Orphans /\ Lost' = Lost
  BY DEF Active, Orphans, Lost
<1>4. Counted' = (Counted \ {d}) \cup {}
  BY <1>1, <1>3 DEF Counted, Active, Orphans
<1>5. outstanding' = outstanding + Cardinality({}) - 1
  BY FS_EmptySet
<1>6. OutstandingExact' /\ outstanding' \in Nat /\ (outstanding' = 0 <=> Counted' = {})
  BY <1>1, <1>4, <1>5, CountedAfterFrame
<1>7. TypeOK'
  BY <1>6 DEF GroupStates, HasNext
<1>8. Reached'
  BY ConstantsAssumption DEF Reached
<1>9. WireMatches'
  BY <1>3, <1>6 DEF WireMatches, HasNext
<1>10. AnnouncedInOrder'
  BY DEF AnnouncedInOrder
<1> QED
  BY <1>2, <1>3, <1>6, <1>7, <1>8, <1>9, <1>10
  DEF OrphansHaveLostParent, PhaseMatches, HasNext

LEMMA FrameLostKeeps ==
    ASSUME DeferInv, NEW d \in Defers, NEW live \in SUBSET Defers, FrameLost(d, live)
    PROVE  DeferInv'
<1> USE DEF FrameLost, DeferInv, TypeOK
<1>1. d \in Active /\ live \in SUBSET Children(d)
  BY DEF Active
<1>2. /\ \A c \in live : c \in Defers /\ group[c] = "waiting"
      /\ d \notin live /\ live \cap Counted = {} /\ d \in Counted
      /\ phase = "defers" /\ hasNext = "true"
  BY <1>1, ChildrenWait
<1>3. /\ Active' = Active \ {d}
      /\ Orphans' = Orphans \cup live /\ Lost' = Lost \cup {d}
  BY <1>2 DEF Active, Orphans, Lost
<1>4. Counted' = (Counted \ {d}) \cup live
  BY <1>1, <1>3 DEF Counted, Active, Orphans
<1>5. OutstandingExact' /\ outstanding' \in Nat
  BY <1>1, <1>4, CountedAfterFrame
<1>6. TypeOK'
  BY <1>5 DEF GroupStates
<1>7. Reached'
  BY <1>2, ConstantsAssumption DEF Reached, Children
<1>8. WireMatches'
  <2>1. completed' = {e \in Defers : group'[e] = "done"}
    BY <1>1, <1>2 DEF WireMatches, Active
  <2>2. d \in announced
    BY <1>1 DEF WireMatches, Active
  <2>3. {e \in Defers : group'[e] \in {"fetch", "fetched", "failed", "done"}}
          = {e \in Defers : group[e] \in {"fetch", "fetched", "failed", "done"}} \ {d}
    BY <1>2
  <2>4. announced' = {e \in Defers : group'[e] \in {"fetch", "fetched", "failed", "done"}}
                     \cup (announced' \cap Lost')
    BY <1>3, <2>2, <2>3 DEF WireMatches
  <2> QED
    BY <1>2, <1>3, <2>1, <2>4 DEF WireMatches
<1> QED
  BY <1>2, <1>3, <1>5, <1>6, <1>7, <1>8
  DEF OrphansHaveLostParent, PhaseMatches, AnnouncedInOrder

LEMMA EndsKeep ==
    ASSUME DeferInv, InitialFails \/ Return \/ UNCHANGED vars
    PROVE  DeferInv'
<1> USE DEF DeferInv, TypeOK
<1>1. UNCHANGED <<parent, group, outstanding, announced, completed, hasNext>>
  BY DEF InitialFails, Return, vars
<1>2. Active' = Active /\ Orphans' = Orphans /\ Counted' = Counted /\ Lost' = Lost
  BY <1>1 DEF Active, Orphans, Counted, Lost
<1>3. TypeOK'
  BY <1>1 DEF InitialFails, Return, vars, PhaseMatches
<1>4. PhaseMatches'
  <2>1. CASE InitialFails
    BY <1>1, <1>2, <2>1 DEF InitialFails, PhaseMatches, WireMatches, Active
  <2>2. CASE Return
    BY <1>1, <1>2, <2>2 DEF Return, PhaseMatches, Active
  <2>3. CASE UNCHANGED vars
    BY <1>1, <1>2, <2>3 DEF vars, PhaseMatches
  <2> QED
    BY <2>1, <2>2, <2>3
<1> QED
  BY <1>1, <1>2, <1>3, <1>4
  DEF OutstandingExact, Reached, WireMatches, OrphansHaveLostParent, AnnouncedInOrder

LEMMA NextKeepsDeferInv == DeferInv /\ [Next]_vars => DeferInv'
<1> SUFFICES ASSUME DeferInv, [Next]_vars PROVE DeferInv'
  OBVIOUS
<1>1. CASE InitialStep
  BY <1>1, EndsKeep, InitialFrameKeeps DEF InitialStep
<1>2. CASE Return \/ UNCHANGED vars
  BY <1>2, EndsKeep
<1>3. CASE \E d \in Defers : GroupStep(d)
  BY <1>3, FetchKeeps, RenderKeeps, RenderErrorKeeps, FrameLostKeeps DEF GroupStep
<1> QED
  BY <1>1, <1>2, <1>3 DEF Next

LEMMA DeferInvAlways == Spec => []DeferInv
BY InitDeferInv, NextKeepsDeferInv, PTL DEF Spec

LEMMA DeferInvImplies ==
    DeferInv => FinalFrameIsFinal /\ CompletedWasAnnounced /\ ClosedAfterLastFrame
<1> SUFFICES ASSUME DeferInv
             PROVE FinalFrameIsFinal /\ CompletedWasAnnounced /\ ClosedAfterLastFrame
  OBVIOUS
<1> USE DEF DeferInv
<1>1. FinalFrameIsFinal
  <2>1. hasNext = "false" => /\ Active \cup Orphans = {}
                              /\ announced \subseteq completed \cup Lost
    BY DEF WireMatches, Counted, Active
  <2>2. hasNext = "true" => Active # {} \/ Lost # {}
    BY DEF WireMatches, Counted, OrphansHaveLostParent
  <2> QED
    BY <2>1, <2>2 DEF FinalFrameIsFinal, Lost
<1>2. CompletedWasAnnounced
  BY DEF CompletedWasAnnounced, AnnouncedInOrder, WireMatches
<1>3. ClosedAfterLastFrame
  <2> SUFFICES ASSUME ended = 1, hasNext # "false"
               PROVE  Active = {} /\ Lost # {}
    <3>1. ended = 1 => Active = {}
      BY DEF PhaseMatches, TypeOK
    <3> QED
      BY <3>1 DEF ClosedAfterLastFrame, Lost
  <2>1. Active = {} /\ hasNext = "true"
    BY DEF PhaseMatches, TypeOK
  <2> QED
    BY <2>1 DEF WireMatches, Counted, OrphansHaveLostParent
<1> QED
  BY <1>1, <1>2, <1>3

\* The counter shared by the goroutines of resolveDeferTree stays exact, and the
\* types hold, for every tree of fragments and every pattern of failures.
THEOREM DeferCountExact == Spec => [](TypeOK /\ OutstandingExact)
<1>1. DeferInv => TypeOK /\ OutstandingExact
  BY DEF DeferInv
<1> QED
  BY <1>1, DeferInvAlways, PTL

\* hasNext:false is on the wire only when no fragment is worked on, none is left behind
\* by a lost frame, and every announced one was completed or lost its frame; it is there
\* as soon as none is worked on, if no frame was lost.
THEOREM DeferFinalFrame == Spec => []FinalFrameIsFinal
BY DeferInvAlways, DeferInvImplies, PTL

\* Frames complete what was announced, parents before children.
THEOREM DeferCompletedAnnounced == Spec => []CompletedWasAnnounced
BY DeferInvAlways, DeferInvImplies, PTL

\* writer.Complete runs after the last goroutine, and a stream closed without
\* hasNext:false has lost a frame.
THEOREM DeferClosedLast == Spec => []ClosedAfterLastFrame
BY DeferInvAlways, DeferInvImplies, PTL

-----------------------------------------------------------------------------
(* The refinement. *)

Used == {d \in Defers : group[d] # "waiting"}

LEMMA InitRefines == Init => Delivery!Init
BY DEF Init, Delivery!Init, Active, Orphans

LEMMA GroupStepRefines ==
    ASSUME DeferInv, DeferInv', NEW d \in Defers, GroupStep(d)
    PROVE  [Delivery!Next]_(Delivery!vars)
<1> USE DEF DeferInv, TypeOK
<1>1. CASE Fetched(d) \/ FetchFails(d)
  BY <1>1 DEF Fetched, FetchFails, Active, Orphans, Delivery!vars
<1>2. ASSUME NEW live \in SUBSET Defers, Render(d, live)
      PROVE  Delivery!Frame(d, live)
  <2>1. d \in Active /\ live \in SUBSET Children(d)
    BY <1>2 DEF Active, Render
  <2>2. /\ \A c \in live : c \in Defers /\ group[c] = "waiting"
        /\ d \notin live /\ d \in Counted /\ hasNext = "true"
    BY <2>1, ChildrenWait
  <2>3. group' = [e \in Defers |-> IF e \in live THEN "fetch"
                                   ELSE IF e = d THEN "done" ELSE group[e]]
    BY <1>2, <2>2 DEF Schedule, Render
  <2>4. Counted' = (Counted \ {d}) \cup live /\ Used' = Used \cup live
    BY <1>2, <2>1, <2>2, <2>3 DEF Counted, Active, Orphans, Used
  <2>5. outstanding' = 0 <=> Counted' = {}
    BY <1>2, <2>1, <2>4, CountedAfterFrame DEF Render
  <2>6. live \cap Used = {}
    BY <2>2 DEF Used
  <2>7. hasNext' = IF Counted' = {} THEN "false" ELSE "true"
    BY <1>2, <2>5 DEF Render, HasNext
  <2> QED
    BY <1>2, <2>2, <2>4, <2>6, <2>7
    DEF Delivery!Frame, Delivery!More, Counted, Used, Render
<1>3. CASE RenderError(d)
  <2>1. d \in Active /\ {} \in SUBSET Children(d)
    BY <1>3 DEF Active, RenderError
  <2>2. d \in Counted /\ hasNext = "true"
    BY <2>1, ChildrenWait
  <2>3. Counted' = (Counted \ {d}) \cup {} /\ Used' = Used
    BY <1>3, <2>1 DEF Counted, Active, Orphans, Used, RenderError
  <2>4. outstanding' = outstanding + Cardinality({}) - 1
    BY <1>3, FS_EmptySet DEF RenderError
  <2>5. outstanding' = 0 <=> Counted' = {}
    BY <2>1, <2>3, <2>4, CountedAfterFrame
  <2>6. hasNext' = IF Counted' = {} THEN "false" ELSE "true"
    BY <1>3, <2>5 DEF RenderError, HasNext
  <2>7. Delivery!Frame(d, {})
    BY <1>3, <2>2, <2>3, <2>6
    DEF Delivery!Frame, Delivery!More, Counted, Used, RenderError
  <2> QED
    BY <2>7 DEF Delivery!Next
<1>4. ASSUME NEW live \in SUBSET Defers, FrameLost(d, live)
      PROVE  Delivery!LoseFrame(d, live)
  <2>1. d \in Active /\ live \in SUBSET Children(d)
    BY <1>4 DEF Active, FrameLost
  <2>2. /\ \A c \in live : c \in Defers /\ group[c] = "waiting"
        /\ d \notin live /\ d \in Counted /\ hasNext = "true"
    BY <2>1, ChildrenWait
  <2>3. Counted' = (Counted \ {d}) \cup live /\ Used' = Used \cup live
    BY <1>4, <2>1, <2>2 DEF Counted, Active, Orphans, Used, FrameLost
  <2>4. live \cap Used = {}
    BY <2>2 DEF Used
  <2> QED
    BY <1>4, <2>2, <2>3, <2>4 DEF Delivery!LoseFrame, Counted, Used, FrameLost
<1> QED
  BY <1>1, <1>2, <1>3, <1>4 DEF GroupStep, Delivery!Next

LEMMA StepRefines ==
    DeferInv /\ DeferInv' /\ [Next]_vars => [Delivery!Next]_(Delivery!vars)
<1> SUFFICES ASSUME DeferInv, DeferInv', [Next]_vars
             PROVE  [Delivery!Next]_(Delivery!vars)
  OBVIOUS
<1>1. CASE InitialFails \/ Return \/ UNCHANGED vars
  BY <1>1 DEF InitialFails, Return, vars, Active, Orphans, Delivery!vars
<1>2. ASSUME NEW live \in SUBSET Defers, InitialFrame(live)
      PROVE  Delivery!Start(live)
  <2>1. \A d \in Defers : group[d] = "waiting"
    BY <1>2 DEF InitialFrame, DeferInv, PhaseMatches, WireMatches
  <2>2. group' = [d \in Defers |-> IF d \in live THEN "fetch" ELSE "waiting"]
    BY <1>2, <2>1 DEF Schedule, InitialFrame
  <2>3. Counted' = live /\ Used' = live
    BY <2>2 DEF Active, Orphans, Counted, Used
  <2>4. hasNext = "none"
    BY <1>2 DEF InitialFrame, DeferInv, PhaseMatches
  <2> QED
    BY <1>2, <2>3, <2>4
    DEF Delivery!Start, Delivery!More, InitialFrame, HasNext, Counted, Used
<1>3. CASE \E d \in Defers : GroupStep(d)
  BY <1>3, GroupStepRefines
<1> QED
  BY <1>1, <1>2, <1>3 DEF Next, InitialStep, Delivery!Next

\* What the goroutines of resolveDeferTree put on the wire is, for every tree and
\* every interleaving, a run of IncrementalDelivery.
THEOREM DeferRefines == Spec => RefinesIncrementalDelivery
BY InitRefines, StepRefines, DeferInvAlways, PTL
DEF Spec, RefinesIncrementalDelivery, Delivery!Spec
=============================================================================
