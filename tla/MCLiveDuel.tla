------------------------------- MODULE MCLiveDuel -------------------------------
(* A friend duel small enough for TLC: see MCLiveDuel.cfg. *)
EXTENDS LiveDuel
===============================================================================
