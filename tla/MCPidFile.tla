------------------------------- MODULE MCPidFile -------------------------------
(* TLC instances of PidFile: three PIDs that are used again and again.      *)
EXTENDS PidFile, TLC

PidSymmetry == Permutations(Pid)
=============================================================================
