------------------------------ MODULE MCIntake ------------------------------
(* TLC instances of Intake.  Messages are symmetric.  The price list makes   *)
(* cached tokens cheaper than fresh ones; one usage has more cached tokens   *)
(* than input tokens, as the agent reports them, and one has no price.       *)
EXTENDS Intake, TLC

IntakeSymmetry == Permutations(Msg)

OnePrice == "opus" :> [hit |-> 1, miss |-> 3, out |-> 0]

TwoUsages == {[model |-> "opus", in |-> 1, cached |-> 2, out |-> 0],
              [model |-> "other", in |-> 1, cached |-> 0, out |-> 0]}
=============================================================================
