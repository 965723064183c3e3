------------------------- MODULE MCRefreshSessions -------------------------
(* RefreshSessions for TLC: the open calls are interchangeable, and no     *)
(* property of the run is a liveness property.                             *)
EXTENDS RefreshSessions, TLC

Symmetry == Permutations(Calls)
=============================================================================
