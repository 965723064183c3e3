---------------------------- MODULE MCRoomMessages ----------------------------
(* One page, which writes the first text; the others come from elsewhere.   *)
EXTENDS RoomMessages
CONSTANTS p1, t1, t2
MCAuthor == [t \in Texts |-> IF t = t1 THEN p1 ELSE Elsewhere]
MCSkew == [p \in Pages |-> 0]
=============================================================================
