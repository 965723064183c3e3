---------------------------- MODULE MCRoomViews ----------------------------
(* RoomViews for TLC: events are interchangeable, and so are sockets.      *)
EXTENDS RoomViews

Symmetry == Permutations(Events) \cup Permutations(Socks)
=============================================================================
