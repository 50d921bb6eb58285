---------------------------- MODULE MCBotSession ----------------------------
(* Model values and symmetry for BotSession. *)
EXTENDS BotSession, TLC

CONSTANTS h1, h2, c1

Peers == Permutations({h1, h2})
=============================================================================
