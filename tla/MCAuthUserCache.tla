-------------------------- MODULE MCAuthUserCache --------------------------
(* AuthUserCache for TLC: users are interchangeable, and so are requests.  *)
EXTENDS AuthUserCache, TLC

Symmetry == Permutations(Users) \cup Permutations(Requests)
=============================================================================
