--------------------------- MODULE MCDeferResponse ---------------------------
(* Instances of DeferResponse for TLC: every tree whose ids grow downwards. *)
EXTENDS DeferResponse

Trees == {p \in [Defers -> Defers \cup {Root}] : \A d \in Defers : p[d] < d}
=============================================================================
