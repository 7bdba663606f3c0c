--------------------------- MODULE MCBotBinding ---------------------------
(* TLC instances of BotBinding.                                             *)
EXTENDS BotBinding, TLC

BindingSymmetry == Permutations(Session) \cup Permutations(Bot) \cup Permutations(NewCmd)
=============================================================================
