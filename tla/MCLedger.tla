------------------------------ MODULE MCLedger ------------------------------
(***************************************************************************)
(* A small instance of Ledger: two users, three requests.  The programs    *)
(* make every race happen: `payA' and `payB' are the field of a settlement *)
(* paid in two placement orders (a deadlock, and a race for both keys),    *)
(* `buy' is a purchase, `refund' a request whose debit may not be covered  *)
(* depending on what ran before.                                           *)
(***************************************************************************)
EXTENDS Ledger

CONSTANTS ann, bob, starterAnn, starterBob

MCUsers == {ann, bob}

MCKeys == {starterAnn, starterBob}

MCOwner == [k \in MCKeys |-> IF k = starterAnn THEN ann ELSE bob]

Movement(u, d, k) == [user |-> u, delta |-> d, key |-> k]

payA == <<Movement(ann, 2, starterAnn), Movement(bob, 1, starterBob)>>

payB == <<Movement(bob, 1, starterBob), Movement(ann, 2, starterAnn)>>

buy == <<Movement(ann, -1, NoKey)>>

refund == <<Movement(bob, 1, NoKey), Movement(ann, -2, NoKey)>>

MCPrograms == {payA, payB, buy, refund}
=============================================================================
