------------------------ MODULE MCSnapshotCoalescer ------------------------
(***************************************************************************)
(* SnapshotCoalescer on a small instance: two items of one turn and one of *)
(* another.                                                                *)
(***************************************************************************)
EXTENDS SnapshotCoalescer, TLC

CONSTANTS k1, k2, k3, t1, t2

ItemTurns == (k1 :> t1) @@ (k2 :> t1) @@ (k3 :> t2)
=============================================================================
