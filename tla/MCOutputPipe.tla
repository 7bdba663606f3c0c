--------------------------- MODULE MCOutputPipe ---------------------------
(* TLC instances of OutputPipe: channels of capacity 1 or 2 stand for 256,  *)
(* with enough lines to fill both channels and the hand between them.       *)
EXTENDS OutputPipe
=============================================================================
