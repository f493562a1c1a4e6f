----------------------------- MODULE SingleFlight -----------------------------
(***************************************************************************)
(* What a single flight promises its callers, whatever it is keyed by: of  *)
(* the requests that share a flight exactly one, the leader, does the work, *)
(* the others end with the leader's outcome or give up when their own      *)
(* context ends.                                                           *)
(***************************************************************************)
CONSTANTS Reqs, Outcomes, NoReq, None, GaveUp

VARIABLES
    flight,    \* the request that leads the flight a request takes part in
    outcome    \* what a request has returned with

flightVars == <<flight, outcome>>

FlightInit ==
    /\ flight = [r \in Reqs |-> NoReq]
    /\ outcome = [r \in Reqs |-> None]

Lead(r) ==
    /\ flight[r] = NoReq
    /\ flight' = [flight EXCEPT ![r] = r]
    /\ UNCHANGED outcome

\* A follower joins a flight whose leader is still at work.
Follow(r, l) ==
    /\ flight[r] = NoReq
    /\ flight[l] = l /\ outcome[l] = None
    /\ flight' = [flight EXCEPT ![r] = l]
    /\ UNCHANGED outcome

Return(r, o) ==
    /\ outcome[r] = None
    /\ outcome' = [outcome EXCEPT ![r] = o]
    /\ UNCHANGED flight

FinishFlight(l, o) == flight[l] = l /\ Return(l, o)

Share(r) ==
    /\ flight[r] \notin {r, NoReq}
    /\ outcome[flight[r]] # None
    /\ Return(r, outcome[flight[r]])

GiveUp(r) == flight[r] \notin {r, NoReq} /\ Return(r, GaveUp)

FlightNext ==
    \E r \in Reqs :
        \/ Lead(r)
        \/ \E l \in Reqs : Follow(r, l)
        \/ \E o \in Outcomes : FinishFlight(r, o)
        \/ Share(r)
        \/ GiveUp(r)

FlightSpec == FlightInit /\ [][FlightNext]_flightVars
=============================================================================
