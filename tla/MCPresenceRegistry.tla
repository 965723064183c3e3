-------------------------- MODULE MCPresenceRegistry --------------------------
(* The registry and the writer keep their users apart: one user, two pages. *)
EXTENDS PresenceRegistry
CONSTANTS u1
MCOwner == [s \in Sockets |-> u1]
=============================================================================
