-------------------------- MODULE MCOrderedIngress --------------------------
(***************************************************************************)
(* OrderedIngress on small instances.  Producers and keys are              *)
(* interchangeable, so the safety run uses their permutations.             *)
(***************************************************************************)
EXTENDS OrderedIngress, TLC

Symmetry == Permutations(Producers) \cup Permutations(Keys)
=============================================================================
