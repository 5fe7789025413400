------------------------------ MODULE MCRankedRun ------------------------------
(* A run with every kind of round: see MCRankedRun.cfg. *)
EXTENDS RankedRun

\* The rounds, interactive ones next to each other.
RunPlan == <<"trivia", "estimate", "change", "video", "flash", "trivia">>
===============================================================================
