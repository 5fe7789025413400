------------------------------- MODULE Ledger -------------------------------
(***************************************************************************)
(* The coin and gem ledgers: services/ledger.py and its line-for-line      *)
(* mirror services/gem_ledger.py, run by concurrent request transactions   *)
(* over PostgreSQL at READ COMMITTED (core/db.py: a request commits once   *)
(* at its boundary, or rolls back).                                        *)
(*                                                                         *)
(* A transaction runs a program: the movements its request makes, in       *)
(* order (settlement pays a whole field, a purchase debits one user, ...). *)
(* Each movement is one call of record_coin_delta / record_gem_delta, and  *)
(* each of the call's database round trips is an action of its own:        *)
(*                                                                         *)
(*   "check"   about to look up the idempotency key                        *)
(*   "lock"    about to SELECT ... FOR UPDATE the profile row              *)
(*   "insert"  about to insert the ledger row inside a SAVEPOINT           *)
(*                                                                         *)
(* `rows[u]' is the ledger of u in insertion order; its first `kept[u]'    *)
(* rows are committed, the others were written by the transaction that     *)
(* holds the lock on u's profile.  `cache' and `saved' are the newest and  *)
(* the committed version of the balance cached in that profile.            *)
(***************************************************************************)
EXTENDS Integers, SequencesExt

CONSTANTS
    Users,          \* users with a profile
    Keys,           \* idempotency keys
    NoKey,          \* idempotency_key=None
    Owner,          \* the user a key belongs to: every caller builds the id in
    Txs,            \* request transactions (a retried request is another one)
    NoTx,           \* no transaction
    Programs        \* the movement sequences a request may make

Op == [user : Users, delta : Int, key : Keys \cup {NoKey}]

ASSUME LedgerAssumption ==
    /\ NoKey \notin Keys
    /\ NoTx \notin Txs
    /\ Owner \in [Keys -> Users]
    /\ Programs \subseteq Seq(Op)
    /\ \A p \in Programs : \A i \in DOMAIN p :
          p[i].key \in Keys => Owner[p[i].key] = p[i].user

VARIABLES
    rows,           \* the ledger table
    kept,           \* how many of a user's rows are committed
    cache,          \* profiles.coins_balance, newest version
    saved,          \* profiles.coins_balance, committed version
    holder,         \* which transaction holds the lock on a profile row
    pc,             \* where a transaction is
    prog,           \* the program it runs
    pos,            \* the movement it is at
    seen            \* the balance in its session's identity map

vars == <<rows, kept, cache, saved, holder, pc, prog, pos, seen>>

Row == [delta : Int, key : Keys \cup {NoKey}, after : Nat]

Active == {"check", "lock", "insert"}

(* Balances are natural numbers: CHECK (coins_balance >= 0). *)
TypeOK ==
    /\ rows \in [Users -> Seq(Row)]
    /\ kept \in [Users -> Nat]
    /\ cache \in [Users -> Nat]
    /\ saved \in [Users -> Nat]
    /\ holder \in [Users -> Txs \cup {NoTx}]
    /\ pc \in [Txs -> Active \cup {"idle", "committed", "aborted"}]
    /\ prog \in [Txs -> Programs \cup {<<>>}]
    /\ pos \in [Txs -> Nat \ {0}]
    /\ seen \in [Txs -> [Users -> Nat]]

Init ==
    /\ rows = [u \in Users |-> <<>>]
    /\ kept = [u \in Users |-> 0]
    /\ cache = [u \in Users |-> 0]
    /\ saved = [u \in Users |-> 0]
    /\ holder = [u \in Users |-> NoTx]
    /\ pc = [t \in Txs |-> "idle"]
    /\ prog = [t \in Txs |-> <<>>]
    /\ pos = [t \in Txs |-> 1]
    /\ seen = [t \in Txs |-> [u \in Users |-> 0]]

-----------------------------------------------------------------------------
AtOp(t) == pos[t] \in 1..Len(prog[t])

Current(t) == prog[t][pos[t]]

(* A row with this key that t can see: committed, or written by t itself. *)
Visible(t, u, k) ==
    \E i \in 1..Len(rows[u]) :
        /\ rows[u][i].key = k
        /\ i <= kept[u] \/ holder[u] = t

(* Mutant: the migration that adds the partial unique index is missing. *)
KeyTaken_NoIndex(u, k) == FALSE

(* uq_coin_ledger_idempotency: a non-null key occurs once in the table. *)
KeyTaken(u, k) == k # NoKey /\ \E i \in 1..Len(rows[u]) : rows[u][i].key = k

(***************************************************************************)
(* A request starts; it has already loaded the profiles it is about (the   *)
(* vault, username and settlement paths read them before they spend or     *)
(* pay), so its identity map holds the balances committed at that time.    *)
(***************************************************************************)
Begin(t) ==
    /\ pc[t] = "idle"
    /\ \E p \in Programs : prog' = [prog EXCEPT ![t] = p]
    /\ pc' = [pc EXCEPT ![t] = "check"]
    /\ seen' = [seen EXCEPT ![t] = saved]
    /\ UNCHANGED <<rows, kept, cache, saved, holder, pos>>

(* The pre-check finds the key: the call returns the row and writes nothing. *)
AlreadyGranted(t) ==
    /\ pc[t] = "check"
    /\ AtOp(t)
    /\ Current(t).key # NoKey
    /\ Visible(t, Current(t).user, Current(t).key)
    /\ pos' = [pos EXCEPT ![t] = @ + 1]
    /\ UNCHANGED <<rows, kept, cache, saved, holder, pc, prog, seen>>

NotYetGranted(t) ==
    /\ pc[t] = "check"
    /\ AtOp(t)
    /\ Current(t).key # NoKey => ~Visible(t, Current(t).user, Current(t).key)
    /\ pc' = [pc EXCEPT ![t] = "lock"]
    /\ UNCHANGED <<rows, kept, cache, saved, holder, prog, pos, seen>>

(* Mutant: the locked read without populate_existing keeps the old balance. *)
Refreshed_Stale(t, u) == seen[t][u]

(***************************************************************************)
(* What the locked read leaves in the identity map: populate_existing      *)
(* overwrites the balance loaded before with the row's current version.    *)
(***************************************************************************)
Refreshed(t, u) == cache[u]

LockProfile(t) ==
    /\ pc[t] = "lock"
    /\ LET u == Current(t).user
       IN  /\ holder[u] \in {NoTx, t}
           /\ holder' = [holder EXCEPT ![u] = t]
           /\ seen' = [seen EXCEPT ![t][u] = Refreshed(t, u)]
    /\ pc' = [pc EXCEPT ![t] = "insert"]
    /\ UNCHANGED <<rows, kept, cache, saved, prog, pos>>

BalanceAfter(t) == seen[t][Current(t).user] + Current(t).delta

(* Mutant: the ledger trusts its callers to have checked the balance. *)
Covered_Unchecked(t) == TRUE

Covered(t) == BalanceAfter(t) >= 0

(* The row is written and the cached balance follows it. *)
InsertRow(t) ==
    /\ pc[t] = "insert"
    /\ Covered(t)
    /\ ~KeyTaken(Current(t).user, Current(t).key)
    /\ LET u == Current(t).user
       IN  /\ rows' = [rows EXCEPT ![u] =
                          Append(@, [delta |-> Current(t).delta,
                                     key   |-> Current(t).key,
                                     after |-> BalanceAfter(t)])]
           /\ cache' = [cache EXCEPT ![u] = BalanceAfter(t)]
           /\ seen' = [seen EXCEPT ![t][u] = BalanceAfter(t)]
    /\ pc' = [pc EXCEPT ![t] = "check"]
    /\ pos' = [pos EXCEPT ![t] = @ + 1]
    /\ UNCHANGED <<kept, saved, holder, prog>>

(* Mutant: the cached balance is advanced before the insert is known good. *)
CacheOnConflict_Advanced(t) == [cache EXCEPT ![Current(t).user] = BalanceAfter(t)]

CacheOnConflict(t) == cache

(***************************************************************************)
(* The unique index refuses the row: only the SAVEPOINT is rolled back,    *)
(* the cached balance is left alone and the call returns the winner's row. *)
(***************************************************************************)
LoseInsertRace(t) ==
    /\ pc[t] = "insert"
    /\ Covered(t)
    /\ KeyTaken(Current(t).user, Current(t).key)
    /\ cache' = CacheOnConflict(t)
    /\ pc' = [pc EXCEPT ![t] = "check"]
    /\ pos' = [pos EXCEPT ![t] = @ + 1]
    /\ UNCHANGED <<rows, kept, saved, holder, prog, seen>>

(* Mutant: an exception leaves the session open, and its row locks with it. *)
Released_Leaked(t) == holder

Released(t) == [u \in Users |-> IF holder[u] = t THEN NoTx ELSE holder[u]]

(* Mutant: the rows are rolled back but the profile update is not. *)
RolledBackCache_Kept(t) == cache

RolledBackCache(t) ==
    [u \in Users |-> IF holder[u] = t THEN saved[u] ELSE cache[u]]

(* get_session: the request's transaction is rolled back, its locks released. *)
Undo(t) ==
    /\ rows' = [u \in Users |-> IF holder[u] = t
                                THEN SubSeq(rows[u], 1, kept[u])
                                ELSE rows[u]]
    /\ cache' = RolledBackCache(t)
    /\ holder' = Released(t)
    /\ pc' = [pc EXCEPT ![t] = "aborted"]
    /\ UNCHANGED <<kept, saved, prog, pos, seen>>

(* InsufficientCoinsError: the debit would drive the balance below zero. *)
Insufficient(t) ==
    /\ pc[t] = "insert"
    /\ ~Covered(t)
    /\ Undo(t)

(* The process dies, the connection drops or a later step of the request fails. *)
Crash(t) ==
    /\ pc[t] \in Active
    /\ Undo(t)

WaitsFor(t, s) ==
    /\ pc[t] = "lock"
    /\ s # t
    /\ holder[Current(t).user] = s

(* PostgreSQL aborts a transaction that lies on a cycle of waiting ones. *)
BreakDeadlock(t) ==
    /\ \E C \in SUBSET Txs :
          /\ t \in C
          /\ \A s \in C : \E r \in C : WaitsFor(s, r)
          /\ \A r \in C : \E s \in C : WaitsFor(s, r)
    /\ Undo(t)

(* get_session: the request returns and its transaction commits. *)
Commit(t) ==
    /\ pc[t] = "check"
    /\ ~AtOp(t)
    /\ kept' = [u \in Users |-> IF holder[u] = t THEN Len(rows[u]) ELSE kept[u]]
    /\ saved' = [u \in Users |-> IF holder[u] = t THEN cache[u] ELSE saved[u]]
    /\ holder' = Released(t)
    /\ pc' = [pc EXCEPT ![t] = "committed"]
    /\ UNCHANGED <<rows, cache, prog, pos, seen>>

Proceed(t) ==
    \/ AlreadyGranted(t)
    \/ NotYetGranted(t)
    \/ LockProfile(t)
    \/ InsertRow(t)
    \/ LoseInsertRace(t)
    \/ Insufficient(t)
    \/ Commit(t)

(* Every request has ended: nothing is left to do. *)
AllEnded ==
    /\ \A t \in Txs : pc[t] \in {"committed", "aborted"}
    /\ UNCHANGED vars

Next ==
    \/ \E t \in Txs : Begin(t) \/ Proceed(t) \/ Crash(t) \/ BreakDeadlock(t)
    \/ AllEnded

(***************************************************************************)
(* The server keeps running a request it has started, and PostgreSQL's     *)
(* deadlock detector always ends a cycle.  Nothing makes a request arrive  *)
(* or a process die.                                                       *)
(***************************************************************************)
Fairness ==
    /\ \A t \in Txs : WF_vars(Proceed(t))
    /\ WF_vars(\E t \in Txs : BreakDeadlock(t))

Spec == Init /\ [][Next]_vars

FairSpec == Spec /\ Fairness

-----------------------------------------------------------------------------
(* The balance after the first n rows of a user's ledger. *)
LastAfter(u, n) == IF n = 0 THEN 0 ELSE rows[u][n].after

(***************************************************************************)
(* "profiles.coins_balance [...] must always equal SUM(delta)" for every   *)
(* user, in every state another session can read: two requests that load   *)
(* the same profile before either locks it must not lose an update.        *)
(***************************************************************************)
CacheIsSum ==
    \A u \in Users :
        saved[u] = FoldLeft(LAMBDA sum, r : sum + r.delta,
                            0, SubSeq(rows[u], 1, kept[u]))

(***************************************************************************)
(* The rows of a user form an unbroken audit trail: each carries the       *)
(* balance of the row before it plus its own delta, never below zero, and  *)
(* the committed cache is the balance of the last committed row.           *)
(***************************************************************************)
AuditTrail ==
    \A u \in Users :
        /\ kept[u] <= Len(rows[u])
        /\ saved[u] = LastAfter(u, kept[u])
        /\ \A i \in 1..Len(rows[u]) :
              rows[u][i].after = LastAfter(u, i - 1) + rows[u][i].delta

(***************************************************************************)
(* A one-time grant is in the table at most once, also while two requests  *)
(* that both found its key missing are still running.                      *)
(***************************************************************************)
GrantedOnce ==
    \A u, v \in Users : \A i \in 1..Len(rows[u]), j \in 1..Len(rows[v]) :
        /\ rows[u][i].key # NoKey
        /\ rows[u][i].key = rows[v][j].key
        => u = v /\ i = j

(***************************************************************************)
(* Whatever the interleaving, what the other sessions see is the outcome   *)
(* of running the committed requests one after the other: module           *)
(* AtomicLedger, with the committed balances and the committed keys.       *)
(***************************************************************************)
PaidKeys ==
    {k \in Keys : \E i \in 1..kept[Owner[k]] : rows[Owner[k]][i].key = k}

Atomic == INSTANCE AtomicLedger WITH balance <- saved, paid <- PaidKeys

SerializesRequests == Atomic!AtomicSpec

(***************************************************************************)
(* A request that has started ends: locks taken in opposite orders by two  *)
(* requests, or left behind by a failed one, never block one for good.     *)
(***************************************************************************)
RequestsEnd ==
    \A t \in Txs : pc[t] \in Active ~> pc[t] \in {"committed", "aborted"}
=============================================================================
