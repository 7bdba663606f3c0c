---------------------------- MODULE MCStreamDelivery ----------------------------
(* TLC instances of StreamDelivery.  One turn: its properties are about the *)
(* slot of the channel being its own.  With two turns ExpiredIsNoticed fails.*)
EXTENDS StreamDelivery
=============================================================================
