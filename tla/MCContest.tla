----------------------------- MODULE MCContest ------------------------------
(***************************************************************************)
(* A small instance of Contest: a day of three rounds, one of each sort,   *)
(* one wrong option, and a window that opens at 1, closes at 2 and may     *)
(* settle from 3 on.  A request may outlive a tick, so it can arrive       *)
(* before the close and end after it.                                      *)
(***************************************************************************)
EXTENDS Contest

CONSTANTS right, wrong

MCKind ==
    [i \in Rounds |-> CASE i = 0 -> "trivia"
                        [] i = 1 -> "interactive"
                        [] OTHER -> "memory_flash"]

MCOptions == {right, wrong}
=============================================================================
