--------------------------- MODULE MCRemoteAccess ---------------------------
(* Two keys, and calls enough to replace a client that was being replaced. *)
EXTENDS RemoteAccess, TLC

CONSTANTS k1, k2
=============================================================================
