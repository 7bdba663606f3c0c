--------------------------- MODULE MCWecomChannel ---------------------------
(* TLC instances of WecomChannel.  Channels do not touch each other, so one *)
(* is enough here; module Gateway composes several.                         *)
EXTENDS WecomChannel
=============================================================================
