------------------------ MODULE MCProgressCoalescer ------------------------
(***************************************************************************)
(* ProgressCoalescer on a small instance: a streamed message and a tool    *)
(* call, two items of one turn.                                            *)
(***************************************************************************)
EXTENDS ProgressCoalescer, TLC

CONSTANTS text, tool, message, call, turn

KeyItems == (text :> message) @@ (tool :> call)
ItemTurns == (message :> turn) @@ (call :> turn)
=============================================================================
