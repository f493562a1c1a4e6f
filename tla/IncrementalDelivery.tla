------------------------- MODULE IncrementalDelivery -------------------------
(***************************************************************************)
(* What a client of an incremental response may rely on, whatever fetches   *)
(* and renders the fragments: the initial frame announces fragments, every  *)
(* later frame completes one announced fragment and may announce others,    *)
(* and the frame that leaves none open, and no other, says hasNext:false.   *)
(* Nothing follows it. A frame that is lost on its way out takes the        *)
(* fragment it completes with it.                                           *)
(***************************************************************************)
CONSTANT Fragments

VARIABLES open,  \* announced (or to be announced by a lost frame), not completed
          used,  \* all of those so far
          done,  \* completed by a frame the client got
          wire   \* "none" before the initial frame, then the last hasNext

vars == <<open, used, done, wire>>

Init == open = {} /\ used = {} /\ done = {} /\ wire = "none"

More(S) == IF S = {} THEN "false" ELSE "true"

Start(P) ==
    /\ wire = "none"
    /\ open' = P /\ used' = P /\ wire' = More(P)
    /\ UNCHANGED done

Frame(d, C) ==
    /\ wire = "true"
    /\ d \in open /\ C \cap used = {}
    /\ open' = (open \ {d}) \cup C /\ used' = used \cup C
    /\ done' = done \cup {d} /\ wire' = More(open')

LoseFrame(d, C) ==
    /\ wire = "true"
    /\ d \in open /\ C \cap used = {}
    /\ open' = (open \ {d}) \cup C /\ used' = used \cup C
    /\ UNCHANGED <<done, wire>>

Next ==
    \/ \E P \in SUBSET Fragments : Start(P)
    \/ \E d \in Fragments, C \in SUBSET Fragments : Frame(d, C) \/ LoseFrame(d, C)

Spec == Init /\ [][Next]_vars
=============================================================================
