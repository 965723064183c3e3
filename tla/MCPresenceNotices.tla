-------------------------- MODULE MCPresenceNotices --------------------------
(* Two calls at a time; which slot a call takes does not matter.           *)
EXTENDS PresenceNotices, TLC
Symmetry == Permutations(Slots)
=============================================================================
