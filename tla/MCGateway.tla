------------------------------ MODULE MCGateway ------------------------------
(* TLC instances of Gateway.                                                *)
EXTENDS Gateway, TLC

GatewaySymmetry == Permutations(Chan) \cup Permutations(Request)
=============================================================================
