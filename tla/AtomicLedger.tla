---------------------------- MODULE AtomicLedger ----------------------------
(***************************************************************************)
(* What a currency ledger of Rot Royale promises its callers: a request    *)
(* that moves coins or gems takes effect in one instant or not at all, a   *)
(* grant that carries an idempotency key is paid once however often it is  *)
(* repeated, and no balance is ever negative.  Module Ledger shows that    *)
(* the row locks, savepoints and unique index of the code keep it.         *)
(***************************************************************************)
EXTENDS Integers, SequencesExt

CONSTANTS
    Users,          \* the accounts
    NoKey,          \* the key of a movement that may be repeated
    Programs        \* the sequences of movements one request may make

VARIABLES
    balance,        \* what each account holds
    paid            \* the idempotency keys whose movement was made

atomicVars == <<balance, paid>>

AtomicInit ==
    /\ balance = [u \in Users |-> 0]
    /\ paid = {}

(***************************************************************************)
(* The account book after one movement: a key already paid changes         *)
(* nothing; a debit the account cannot cover voids the whole request.      *)
(***************************************************************************)
Move(book, op) ==
    IF op.key \in book.paid
    THEN book
    ELSE [balance |-> [book.balance EXCEPT ![op.user] = @ + op.delta],
          paid    |-> book.paid \cup ({op.key} \ {NoKey}),
          covered |-> book.covered /\ book.balance[op.user] + op.delta >= 0]

(* A request's movements, one after the other with nothing in between. *)
Post(p) ==
    LET book == FoldLeft(Move,
                         [balance |-> balance, paid |-> paid, covered |-> TRUE],
                         p)
    IN  /\ book.covered
        /\ balance' = book.balance
        /\ paid' = book.paid

AtomicNext == \E p \in Programs : Post(p)

AtomicSpec == AtomicInit /\ [][AtomicNext]_atomicVars
=============================================================================
