---------------------------- MODULE MCWatchHall ----------------------------
(* Two users; the first has one socket, the second all the others, which   *)
(* are interchangeable in the runs without liveness.                       *)
EXTENDS WatchHall, TLC
CONSTANTS u1, u2, s1
MCOwner == [s \in Sockets |-> IF s = s1 THEN u1 ELSE u2]

Symmetry == Permutations(Sockets \ {s1})
=============================================================================
