------------------------- MODULE MCSubscriptionServer -------------------------
(* An instance of SubscriptionServer for TLC. *)
EXTENDS SubscriptionServer

CONSTANTS q, s, a, b

\* The query and the subscription use the same id; b is one the client only stops.
SharedID == [o \in Ops |-> a]
=============================================================================
