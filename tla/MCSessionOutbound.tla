-------------------------- MODULE MCSessionOutbound --------------------------
(***************************************************************************)
(* A small session: lanes of three slots and four bytes, of which data may *)
(* hold two slots and three bytes.                                         *)
(***************************************************************************)
EXTENDS SessionOutbound

Msg(l, c, b, close, waits) ==
    [lane |-> l, class |-> c, bytes |-> b, close |-> close, waits |-> waits]

MCMessages ==
    { Msg("ordinary", "data", 2, FALSE, FALSE),    \* a notification
      Msg("ordinary", "reply", 2, FALSE, TRUE),    \* a reply larger than the reserve
      Msg("ordinary", "reply", 1, TRUE, TRUE),     \* a Close frame
      Msg("audio", "data", 2, FALSE, TRUE),        \* a chunk's acknowledgement
      Msg("audio", "reply", 5, FALSE, TRUE) }      \* an oversized outcome

=============================================================================
