--------------------------- MODULE MCDurableLane ---------------------------
(***************************************************************************)
(* DurableLane on a small instance: two publishers, two listeners, one     *)
(* turn.  The run checks liveness, so it uses no symmetry.                 *)
(***************************************************************************)
EXTENDS DurableLane
=============================================================================
