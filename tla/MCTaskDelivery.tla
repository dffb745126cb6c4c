--------------------------- MODULE MCTaskDelivery ---------------------------
(* Two delivery passes, a cancellation and a bounded number of faults. *)
EXTENDS TaskDelivery, TLC

CONSTANTS w1, w2
=============================================================================
