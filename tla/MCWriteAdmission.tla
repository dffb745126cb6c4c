-------------------------- MODULE MCWriteAdmission --------------------------
(***************************************************************************)
(* WriteAdmission on a small instance: three writers, bursts of two and    *)
(* three.  The run checks liveness, so it uses no symmetry.                *)
(***************************************************************************)
EXTENDS WriteAdmission
=============================================================================
