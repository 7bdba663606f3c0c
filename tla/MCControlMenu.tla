----------------------------- MODULE MCControlMenu -----------------------------
(* TLC instances of ControlMenu.  The digits are choices of a menu and      *)
(* values of a field at once; "" stands for a message of blanks.            *)
EXTENDS ControlMenu, TLC

WorkerSymmetry == Permutations(Worker)
=============================================================================
