----------------------------- MODULE MCWecomSend -----------------------------
(* TLC instances of WecomSend: one upload beside one proactive message, or  *)
(* two streams, each request answered up to twice.                          *)
EXTENDS WecomSend
=============================================================================
