--------------------------- MODULE MCFlockSessions ---------------------------
(* Two users, the first with two sockets, two arenas of the normal mode with *)
(* one place each, an arena of each other mode.                             *)
EXTENDS FlockSessions, TLC
CONSTANTS u1, u2, s1, s2, s3, n1, n2, o1, k1
MCOwner == s1 :> u1 @@ s2 :> u1 @@ s3 :> u2
MCMode == n1 :> "normal" @@ n2 :> "normal" @@ o1 :> "circle" @@ k1 :> "castles"
MCCap == [d \in Modes |-> IF d = "circle" THEN 2 ELSE 1]
MCMaxArenas == [d \in Modes |-> IF d = "normal" THEN 2 ELSE 1]
Symmetry == Permutations(Bodies) \cup Permutations({s1, s2})
            \cup Permutations({n1, n2})
=============================================================================
