---------------------------- MODULE MCRubyLedger ----------------------------
(* RubyLedger for TLC: prices and adjustments, which a configuration file  *)
(* cannot write, and the symmetry of interchangeable values.  No property  *)
(* of the run is a liveness property.                                      *)
EXTENDS RubyLedger, TLC

MCPrice == [i \in Items |-> IF i \in Artifacts THEN 1 ELSE 2]

MCAdjustments == {-2, 4}

Symmetry == Permutations(Reqs)
=============================================================================
