---------------------- MODULE InboundSingleFlightProofs ----------------------
(***************************************************************************)
(* The single flight of inbound requests for any number of requests and    *)
(* slots: the tokens of maxConcurrency add up, and nobody is served bytes   *)
(* without the headers that go with them, although late followers finish    *)
(* the leader's InflightRequest again.                                      *)
(***************************************************************************)
EXTENDS InboundSingleFlight, FiniteSetTheorems, TLAPS

PCs == {"new", "joined", "wait", "acquire", "resolve", "share", "delete", "publish",
        "close", "release", "done"}
Holding == {"resolve", "share", "delete", "publish", "close", "release"}

Holders == {r \in Reqs : pc[r] \in Holding}

\* Types of what the two properties are about.
InboundTypeOK ==
    /\ pc \in [Reqs -> PCs]
    /\ stored \in Reqs \cup {NoReq}
    /\ inflight \in [Reqs -> Reqs \cup {NoReq}]
    /\ data \in SUBSET Reqs /\ shared \in SUBSET Reqs
    /\ slots \in Nat
    /\ ok \in [Reqs -> BOOLEAN]
    /\ reply \in [Reqs -> {"none", "error", "shared", "sharedWithoutHeaders", "cancelled",
                           "panic", "own"}]

\* Whoever has passed GetOrCreate holds an InflightRequest.
HasInflight == \A r \in Reqs : pc[r] # "new" => inflight[r] \in Reqs

\* A success is published only by a call that has set SharedData.
SharedWhenOk ==
    \A r \in Reqs : pc[r] \in {"delete", "publish"} /\ ok[r] => inflight[r] \in shared

\* The inductive invariant.
InboundInv ==
    /\ InboundTypeOK /\ HasInflight /\ SharedWhenOk
    /\ data \subseteq shared
    /\ SharedDataBeforeBytes /\ SlotsConserved

-----------------------------------------------------------------------------
(* Counting the holders of a slot. *)

\* A call that takes or returns a slot changes the number of holders by one.
LEMMA HoldersCount ==
    ASSUME NEW S, IsFiniteSet(S), NEW r
    PROVE  /\ r \notin S => Cardinality(S \cup {r}) = Cardinality(S) + 1
           /\ r \in S => Cardinality(S \ {r}) = Cardinality(S) - 1
           /\ Cardinality(S) \in Nat
BY FS_AddElement, FS_RemoveElement, FS_CardinalityType

LEMMA HoldersFinite == IsFiniteSet(Holders) /\ IsFiniteSet(Holders')
BY InboundAssumption, FS_Subset DEF Holders

LEMMA InitInbound == Init => InboundInv
<1> SUFFICES ASSUME Init PROVE InboundInv
  OBVIOUS
<1>1. Holders = {}
  BY DEF Init, Holders, Holding
<1>2. Cardinality({}) = 0
  BY FS_EmptySet
<1>3. SlotsConserved
  BY <1>1, <1>2, InboundAssumption DEF Init, SlotsConserved, Holders, Holding
<1> QED
  BY <1>3, InboundAssumption
  DEF Init, InboundInv, InboundTypeOK, PCs, HasInflight, SharedWhenOk, SharedDataBeforeBytes

\* Every step keeps the part of the invariant that is not about slots.
LEMMA SharingStep ==
    ASSUME InboundInv, NEW r \in Reqs,
           \/ CreateInflight(r) \/ JoinInflight(r) \/ FollowerWakes(r)
           \/ FollowerCancelled(r) \/ AcquireSlot(r) \/ LeaderStep(r)
    PROVE  /\ InboundTypeOK' /\ HasInflight' /\ SharedWhenOk'
           /\ data' \subseteq shared' /\ SharedDataBeforeBytes'
<1> USE InboundAssumption
    DEF InboundInv, InboundTypeOK, PCs, HasInflight, SharedWhenOk, SharedDataBeforeBytes, Goto
<1>1. CASE CreateInflight(r)
  BY <1>1 DEF CreateInflight
<1>2. CASE JoinInflight(r)
  BY <1>2 DEF JoinInflight
<1>3. CASE FollowerWakes(r)
  BY <1>3 DEF FollowerWakes
<1>4. CASE FollowerCancelled(r)
  BY <1>4 DEF FollowerCancelled
<1>5. CASE AcquireSlot(r)
  BY <1>5 DEF AcquireSlot
<1>6. CASE AddFollower(r)
  BY <1>6 DEF AddFollower
<1>7. CASE Resolve(r, TRUE)
  BY <1>7 DEF Resolve
<1>8. CASE Resolve(r, FALSE)
  BY <1>8 DEF Resolve
<1>9. CASE SetSharedData(r)
  BY <1>9 DEF SetSharedData
<1>10. CASE DeleteInflight(r)
  BY <1>10 DEF DeleteInflight
<1>11. CASE PublishResult(r)
  BY <1>11 DEF PublishResult
<1>12. CASE CloseDone(r)
  BY <1>12 DEF CloseDone
<1>13. CASE ReleaseSlot(r)
  BY <1>13 DEF ReleaseSlot
<1> QED
  BY <1>1, <1>2, <1>3, <1>4, <1>5, <1>6, <1>7, <1>8, <1>9, <1>10, <1>11, <1>12, <1>13
  DEF LeaderStep

\* A slot is taken with one step of a call and given back with another.
LEMMA SlotsStep ==
    ASSUME InboundInv, NEW r \in Reqs,
           \/ CreateInflight(r) \/ JoinInflight(r) \/ FollowerWakes(r)
           \/ FollowerCancelled(r) \/ AcquireSlot(r) \/ LeaderStep(r)
    PROVE  SlotsConserved'
<1>0. /\ slots + Cardinality(Holders) = Slots
      /\ SlotsConserved' <=> slots' + Cardinality(Holders') = Slots
      /\ pc \in [Reqs -> PCs] /\ slots \in Nat
  BY DEF InboundInv, InboundTypeOK, SlotsConserved, Holders, Holding
<1>1. CASE AcquireSlot(r)
  <2>1. r \notin Holders /\ Holders' = Holders \cup {r} /\ slots' = slots - 1
    BY <1>0, <1>1 DEF AcquireSlot, Goto, Holders, Holding
  <2> QED
    BY <1>0, <2>1, HoldersCount, HoldersFinite, InboundAssumption
<1>2. CASE ReleaseSlot(r)
  <2>1. r \in Holders /\ Holders' = Holders \ {r} /\ slots' = slots + 1
    BY <1>0, <1>2 DEF ReleaseSlot, Goto, Holders, Holding
  <2> QED
    BY <1>0, <2>1, HoldersCount, HoldersFinite, InboundAssumption
<1>3. CASE ~AcquireSlot(r) /\ ~ReleaseSlot(r)
  <2>1. pc'[r] \in Holding <=> pc[r] \in Holding
    BY <1>0, <1>3
    DEF CreateInflight, JoinInflight, FollowerWakes, FollowerCancelled, LeaderStep, AddFollower,
        Resolve, SetSharedData, DeleteInflight, PublishResult, CloseDone, Goto, Holding
  <2>2. slots' = slots /\ \A q \in Reqs : q # r => pc'[q] = pc[q]
    BY <1>0, <1>3
    DEF CreateInflight, JoinInflight, FollowerWakes, FollowerCancelled, LeaderStep, AddFollower,
        Resolve, SetSharedData, DeleteInflight, PublishResult, CloseDone, Goto
  <2>3. Holders' = Holders
    BY <2>1, <2>2 DEF Holders
  <2> QED
    BY <1>0, <2>2, <2>3
<1> QED
  BY <1>1, <1>2, <1>3

LEMMA InboundInvAlways == Spec => []InboundInv
<1>1. ASSUME InboundInv, [Next]_vars PROVE InboundInv'
  <2>1. CASE Next
    <3>1. PICK r \in Reqs : \/ CreateInflight(r) \/ JoinInflight(r) \/ FollowerWakes(r)
                            \/ FollowerCancelled(r) \/ AcquireSlot(r) \/ LeaderStep(r)
      BY <2>1 DEF Next
    <3> QED
      BY <1>1, <3>1, SharingStep, SlotsStep DEF InboundInv
  <2>2. CASE UNCHANGED vars
    BY <1>1, <2>2
    DEF vars, InboundInv, InboundTypeOK, HasInflight, SharedWhenOk, SharedDataBeforeBytes,
        SlotsConserved
  <2> QED
    BY <1>1, <2>1, <2>2
<1> QED
  BY <1>1, InitInbound, PTL DEF Spec

-----------------------------------------------------------------------------

\* With any number of requests and slots a token of maxConcurrency is missing
\* exactly for each call that resolves, after panics of CloseDone too.
THEOREM InboundSlots == Spec => []SlotsConserved
BY InboundInvAlways, PTL DEF InboundInv

\* No follower is served bytes before SharedData is set, whoever finished the
\* InflightRequest it waited for, and however often.
THEOREM InboundSharedData == Spec => []SharedDataBeforeBytes
BY InboundInvAlways, PTL DEF InboundInv
=============================================================================
