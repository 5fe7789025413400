------------------------------- MODULE MCDuel -------------------------------
(***************************************************************************)
(* A small instance of Duel: a spark duel (one gem to enter, a pool of     *)
(* two) of three normal rounds and one of sudden death, won by two.        *)
(***************************************************************************)
EXTENDS Duel

MCEntry == [m \in Duels |-> 1]

MCPool == [m \in Duels |-> 2]

MCUnlock == [m \in Duels |-> 0]

(* One alone is right, or both, with the rival clearly faster or not. *)
MCPlays ==
    {[user |-> TRUE, rival |-> FALSE, faster |-> "close"],
     [user |-> FALSE, rival |-> TRUE, faster |-> "close"],
     [user |-> TRUE, rival |-> TRUE, faster |-> "rival"],
     [user |-> TRUE, rival |-> TRUE, faster |-> "close"]}
=============================================================================
