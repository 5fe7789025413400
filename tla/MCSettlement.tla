---------------------------- MODULE MCSettlement ----------------------------
(***************************************************************************)
(* A small instance of Settlement: two players, two days of which the      *)
(* second begins a new month and a new ISO week, and two heartbeats.  Ann  *)
(* has a streak of two whose grace was used on the day before, a Silver    *)
(* rating and a duel tier; Bob is a new guest.                             *)
(***************************************************************************)
EXTENDS Settlement

CONSTANTS ann, bob

MCUsers == {ann, bob}

MCWeek == [d \in Dates |-> IF d <= 1 THEN 1 ELSE 2]

MCSeason == [d \in 0..(NumDays + 1) |-> IF d = 0 THEN 0 ELSE IF d = 1 THEN 1 ELSE 2]

New == [rating |-> 1000, streak |-> 0, last |-> Never, grace |-> Never, xp |-> 0]

Seasoned == [rating |-> 1101, streak |-> 2, last |-> 0, grace |-> 0, xp |-> 101]

MCHistories == {[u \in Users |-> IF u = ann THEN Seasoned ELSE New]}
=============================================================================
