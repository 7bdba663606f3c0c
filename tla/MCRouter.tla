----------------------------- MODULE MCRouter -----------------------------
(* TLC instances of Router.  Three messages, so that two wait in one line,  *)
(* need one session; "/new" needs a second one.  Msg and Process are        *)
(* symmetric; sessions are not, because one of them is the first.           *)
EXTENDS Router, TLC

RouterSymmetry == Permutations(Msg) \cup Permutations(Process)
=============================================================================
