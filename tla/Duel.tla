-------------------------------- MODULE Duel --------------------------------
(***************************************************************************)
(* Gem duels of one player: services/duel.py with the rules of             *)
(* services/duel_logic.py.  A submit_duel_round request is a READ          *)
(* COMMITTED transaction that takes these steps:                           *)
(*                                                                         *)
(*   OpenMatch  loads the match, which nothing locks                       *)
(*   PlayRound  counts the recorded rounds, scores the next one and        *)
(*              flushes it with the match row, locked from here on         *)
(*   PayOut     (if the match is decided) credits the pool and loads the   *)
(*              player's statistics                                        *)
(*   Commit     makes the writes visible                                   *)
(*                                                                         *)
(* and the heartbeat's cleanup_expired_duels is another: Scan, LoadStats,  *)
(* CommitCleanup.  An UPDATE writes the columns whose value differs from   *)
(* the one that was loaded, and only those.                                *)
(*                                                                         *)
(* The server does not know when a client has seen a reveal (the response  *)
(* leaves before the commit), so requests of one match may overlap.        *)
(***************************************************************************)
EXTENDS Integers, FiniteSets, SequencesExt

CONSTANTS
    Duels,          \* matches that may be created
    Reqs,           \* requests that may be at work at once
    Jobs,           \* heartbeats that may be at work at once
    NormalRounds,   \* DUEL_NORMAL_ROUNDS
    RoundsToWin,    \* DUEL_ROUNDS_TO_WIN
    SuddenDeath,    \* DUEL_SUDDEN_DEATH_MAX
    EntryGems,      \* the entry of each match's tier, 0 for training
    PoolGems,       \* its pool
    UnlockWins,     \* the wins that unlock it
    StartGems,      \* the player's gems before the first duel
    Plays           \* how a round may go

Txs == Reqs \cup Jobs

ASSUME DuelAssumption ==
    /\ IsFiniteSet(Duels)
    /\ Reqs \cap Jobs = {}
    /\ {SuddenDeath, StartGems} \subseteq Nat
    /\ {NormalRounds, RoundsToWin} \subseteq Nat \ {0}
    /\ EntryGems \in [Duels -> Nat]
    /\ PoolGems \in [Duels -> Nat]
    /\ UnlockWins \in [Duels -> Nat]
    /\ Plays \subseteq [user : BOOLEAN, rival : BOOLEAN,
                        faster : {"user", "rival", "close"}]

VARIABLES
    match,          \* duel_matches
    rounds,         \* the round_results and duel_rounds of each match
    gems,           \* the player's gems
    pools,          \* how often a match's pool was credited
    stats,          \* duel_user_stats
    expired,        \* matches whose expires_at has passed
    tx              \* the transactions at work

vars == <<match, rounds, gems, pools, stats, expired, tx>>

tables == <<match, rounds, gems, pools, stats>>

Winners == {"none", "user", "rival"}

Match == [status : {"absent", "in_progress", "completed", "abandoned"},
          user_wins : Nat, rival_wins : Nat, winner : Winners, delta : Int]

Round == [idx : Nat, won : Winners, user : BOOLEAN, rival : BOOLEAN]

Stats == [wins : Nat, losses : Nat, streak : Nat, best : Nat]

Idle == [pc |-> "idle"]

Tx ==
    {Idle}
    \cup [pc : {"opened"}, duel : Duels, read : Match]
    \cup [pc : {"played"}, duel : Duels, read : Match, row : Round, new : Match]
    \cup [pc : {"paid"}, duel : Duels, read : Match, row : Round, new : Match,
          credit : BOOLEAN, stats : Stats]
    \cup [pc : {"scanned"}, duels : SUBSET Duels, read : [Duels -> Match]]
    \cup [pc : {"counted"}, duels : SUBSET Duels, read : [Duels -> Match], stats : Stats]

TypeOK ==
    /\ match \in [Duels -> Match]
    /\ rounds \in [Duels -> Seq(Round)]
    /\ gems \in Nat
    /\ pools \in [Duels -> Nat]
    /\ stats \in Stats
    /\ expired \subseteq Duels
    /\ tx \in [Txs -> Tx]

Absent == [status |-> "absent", user_wins |-> 0, rival_wins |-> 0,
           winner |-> "none", delta |-> 0]

Init ==
    /\ match = [m \in Duels |-> Absent]
    /\ rounds = [m \in Duels |-> <<>>]
    /\ gems = StartGems
    /\ pools = [m \in Duels |-> 0]
    /\ stats = [wins |-> 0, losses |-> 0, streak |-> 0, best |-> 0]
    /\ expired = {}
    /\ tx = [t \in Txs |-> Idle]

-----------------------------------------------------------------------------
(* The rules of duel_logic.py *)

(* round_outcome: knowledge first, speed only if the gap is clear. *)
RoundWinner(play) ==
    CASE play.user /\ ~play.rival -> "user"
      [] play.rival /\ ~play.user -> "rival"
      [] play.user /\ play.rival /\ play.faster # "close" -> play.faster
      [] OTHER -> "none"

(***************************************************************************)
(* match_decision after `played' rounds: a winner, "tiebreak", or "none".  *)
(* At most one counter has just reached RoundsToWin, so it leads.          *)
(***************************************************************************)
Clear(user_wins, rival_wins, played) ==
    \/ user_wins >= RoundsToWin
    \/ rival_wins >= RoundsToWin
    \/ played >= NormalRounds /\ user_wins # rival_wins

(* Mutant: one more sudden-death round than there are questions. *)
Decision_OneMore(user_wins, rival_wins, played) ==
    CASE Clear(user_wins, rival_wins, played) ->
            IF user_wins > rival_wins THEN "user" ELSE "rival"
      [] ~Clear(user_wins, rival_wins, played) /\ played <= NormalRounds + SuddenDeath ->
            "none"
      [] OTHER -> "tiebreak"

Decision(user_wins, rival_wins, played) ==
    CASE Clear(user_wins, rival_wins, played) ->
            IF user_wins > rival_wins THEN "user" ELSE "rival"
      [] ~Clear(user_wins, rival_wins, played) /\ played < NormalRounds + SuddenDeath ->
            "none"
      [] OTHER -> "tiebreak"

(* final_tiebreak: the correct answers, then speed or the seed, left open. *)
TiebreakWinners(rows) ==
    LET Correct(who) == Cardinality({n \in DOMAIN rows : rows[n][who]})
    IN  CASE Correct("user") > Correct("rival") -> {"user"}
          [] Correct("user") < Correct("rival") -> {"rival"}
          [] OTHER -> {"user", "rival"}

(* Mutant: the decision is taken for the winner, "tiebreak" included. *)
MatchWinners_Raw(user_wins, rival_wins, rows) ==
    {Decision(user_wins, rival_wins, Len(rows))}

(* Who wins the match with these counters and rounds, or "none" yet. *)
MatchWinners(user_wins, rival_wins, rows) ==
    LET decision == Decision(user_wins, rival_wins, Len(rows))
    IN  IF decision = "tiebreak" THEN TiebreakWinners(rows) ELSE {decision}

-----------------------------------------------------------------------------
(* Row locks and the UPDATE of an object loaded earlier *)

HoldsMatch(t) ==
    IF tx[t].pc \in {"played", "paid"} THEN {tx[t].duel} ELSE {}

HoldsProfile(t) == tx[t].pc = "paid" /\ tx[t].credit

MatchFree(t, m) == \A s \in Txs \ {t} : m \notin HoldsMatch(s)

ProfileFree(t) == \A s \in Txs \ {t} : ~HoldsProfile(s)

(* Mutant: the whole object is written back. *)
Update_FullRow(row, read, new) == new

Update(row, read, new) ==
    [f \in DOMAIN row |-> IF new[f] # read[f] THEN new[f] ELSE row[f]]

-----------------------------------------------------------------------------
(***************************************************************************)
(* create_duel: the tier is unlocked, the entry is debited under the       *)
(* profile lock, and the match opens with it in one transaction.           *)
(***************************************************************************)
Create(m) ==
    /\ match[m].status = "absent"
    /\ stats.wins >= UnlockWins[m]
    /\ gems >= EntryGems[m]
    /\ \A t \in Txs : ~HoldsProfile(t)
    /\ match' = [match EXCEPT ![m].status = "in_progress"]
    /\ gems' = gems - EntryGems[m]
    /\ UNCHANGED <<rounds, pools, stats, expired, tx>>

(* Half an hour has passed. *)
Expire(m) ==
    /\ match[m].status # "absent"
    /\ m \notin expired
    /\ expired' = expired \cup {m}
    /\ UNCHANGED <<tables, tx>>

(* get_session, then the match, its owner and its status. *)
OpenMatch(t, m) ==
    /\ tx[t] = Idle
    /\ match[m].status = "in_progress"
    /\ tx' = [tx EXCEPT ![t] = [pc |-> "opened", duel |-> m, read |-> match[m]]]
    /\ UNCHANGED <<tables, expired>>

(* Mutant: the index is taken from the counters; a drawn round moves none. *)
NextIdx_Unchecked(t, m) == tx[t].read.user_wins + tx[t].read.rival_wins

(* The sequence check and uq_round_result_entry_idx. *)
NextIdx(t, m) == Len(rounds[m])

(* The match with one more round in the counters. *)
Scored(read, won) ==
    [status |-> read.status, winner |-> read.winner, delta |-> read.delta,
     user_wins |-> read.user_wins + IF won = "user" THEN 1 ELSE 0,
     rival_wins |-> read.rival_wins + IF won = "rival" THEN 1 ELSE 0]

(* The match with a result, and what it moves the player's gems by. *)
Finished(m, read, status, winner) ==
    [status |-> status, winner |-> winner,
     delta |-> IF winner = "user" THEN PoolGems[m] - EntryGems[m] ELSE -EntryGems[m],
     user_wins |-> read.user_wins, rival_wins |-> read.rival_wins]

(***************************************************************************)
(* The round after the recorded ones is scored, and a counter of the match *)
(* that was loaded goes up.  If that decides the match, finalize_duel sets *)
(* its result.                                                             *)
(***************************************************************************)
PlayRound(t) ==
    /\ tx[t].pc = "opened"
    /\ LET m == tx[t].duel
           read == tx[t].read
       IN  /\ MatchFree(t, m)
           /\ Len(rounds[m]) < NormalRounds + SuddenDeath
           /\ \E play \in Plays :
                LET row == [idx |-> NextIdx(t, m), won |-> RoundWinner(play),
                            user |-> play.user, rival |-> play.rival]
                    scored == Scored(read, row.won)
                IN  \E winner \in MatchWinners(scored.user_wins, scored.rival_wins,
                                               Append(rounds[m], row)) :
                      tx' = [tx EXCEPT ![t] =
                        [pc |-> "played", duel |-> m, read |-> read, row |-> row,
                         new |-> IF winner = "none" THEN scored
                                 ELSE Finished(m, scored, "completed", winner)]]
    /\ UNCHANGED <<tables, expired>>

(* Mutant: the credit carries no idempotency key. *)
PoolDue_NoKey(m, winner) == winner = "user" /\ EntryGems[m] > 0

(* The pool of a gem win, under the key duel:<id>:win. *)
PoolDue(m, winner) == winner = "user" /\ EntryGems[m] > 0 /\ pools[m] = 0

(* finalize_duel pays a gem win and loads the statistics. *)
PayOut(t) ==
    /\ tx[t].pc = "played"
    /\ LET q == tx[t]
       IN  /\ q.new.winner # "none"
           /\ PoolDue(q.duel, q.new.winner) => ProfileFree(t)
           /\ tx' = [tx EXCEPT ![t] =
                       [pc |-> "paid", duel |-> q.duel, read |-> q.read,
                        row |-> q.row, new |-> q.new,
                        credit |-> PoolDue(q.duel, q.new.winner), stats |-> stats]]
    /\ UNCHANGED <<tables, expired>>

(* The statistics after a gem duel; training moves none of these. *)
Won(s) ==
    [s EXCEPT !.wins = @ + 1, !.streak = @ + 1,
              !.best = IF s.streak + 1 > @ THEN s.streak + 1 ELSE @]

Lost(s, n) == [s EXCEPT !.losses = @ + n, !.streak = IF n > 0 THEN 0 ELSE @]

(* Mutant: only what the player is up is credited. *)
WinCredit_Net(m) == PoolGems[m] - EntryGems[m]

(* The entry was debited at create, so a win is credited the full pool. *)
WinCredit(m) == PoolGems[m]

(* The match, the round, the pool and the statistics become visible. *)
Commit(t) ==
    /\ tx[t].pc \in {"played", "paid"}
    /\ LET q == tx[t]
           m == q.duel
       IN  /\ q.pc = "played" => q.new.winner = "none"
           /\ match' = [match EXCEPT ![m] = Update(@, q.read, q.new)]
           /\ rounds' = [rounds EXCEPT ![m] = Append(@, q.row)]
           /\ IF q.pc = "paid" /\ q.credit
              THEN /\ gems' = gems + WinCredit(m)
                   /\ pools' = [pools EXCEPT ![m] = @ + 1]
              ELSE UNCHANGED <<gems, pools>>
           /\ stats' = IF q.pc = "played" \/ EntryGems[m] = 0 THEN stats
                       ELSE Update(stats, q.stats, IF q.new.winner = "user"
                                                   THEN Won(q.stats)
                                                   ELSE Lost(q.stats, 1))
    /\ tx' = [tx EXCEPT ![t] = Idle]
    /\ UNCHANGED expired

-----------------------------------------------------------------------------
(* cleanup_expired_duels *)

(* Mutant: the query looks for the status a match is created with only. *)
Unfinished_Created == {m \in Duels : match[m].status = "created"}

Unfinished == {m \in expired : match[m].status = "in_progress"}

(* The expired and unfinished matches, read without FOR UPDATE. *)
Scan(t) ==
    /\ tx[t] = Idle
    /\ Unfinished # {}
    /\ tx' = [tx EXCEPT ![t] = [pc |-> "scanned", duels |-> Unfinished, read |-> match]]
    /\ UNCHANGED <<tables, expired>>

(* The player's statistics, once for all of the player's matches. *)
LoadStats(t) ==
    /\ tx[t].pc = "scanned"
    /\ tx' = [tx EXCEPT ![t] = [pc |-> "counted", duels |-> tx[t].duels,
                                read |-> tx[t].read, stats |-> stats]]
    /\ UNCHANGED <<tables, expired>>

(* The UPDATEs wait for locked match rows; then all of it is a plain loss. *)
CommitCleanup(t) ==
    /\ tx[t].pc = "counted"
    /\ \A m \in tx[t].duels : MatchFree(t, m)
    /\ LET q == tx[t]
           lost == Cardinality({m \in q.duels : EntryGems[m] > 0})
       IN  /\ match' = [m \in Duels |-> IF m \in q.duels
                                        THEN Update(match[m], q.read[m],
                                                    Finished(m, q.read[m], "abandoned", "rival"))
                                        ELSE match[m]]
           /\ stats' = Update(stats, q.stats, Lost(q.stats, lost))
    /\ tx' = [tx EXCEPT ![t] = Idle]
    /\ UNCHANGED <<rounds, gems, pools, expired>>

(* Refused by a check or an index, or the process died: rolled back. *)
GiveUp(t) ==
    /\ tx[t] # Idle
    /\ tx' = [tx EXCEPT ![t] = Idle]
    /\ UNCHANGED <<tables, expired>>

-----------------------------------------------------------------------------
Submit(t) == PlayRound(t) \/ PayOut(t) \/ Commit(t)

Next ==
    \/ \E m \in Duels : Create(m) \/ Expire(m)
    \/ \E t \in Reqs : Submit(t) \/ \E m \in Duels : OpenMatch(t, m)
    \/ \E t \in Jobs : Scan(t) \/ LoadStats(t) \/ CommitCleanup(t)
    \/ \E t \in Txs : GiveUp(t)

Spec == Init /\ [][Next]_vars

(***************************************************************************)
(* Time passes and a request ends.  The heartbeat comes back for ever but  *)
(* does not fail for ever, and a row lock is granted in the order of its   *)
(* waiters: strong fairness of its commit.                                 *)
(***************************************************************************)
Fairness ==
    /\ \A m \in Duels : WF_vars(Expire(m))
    /\ \A t \in Reqs : WF_vars(Submit(t) \/ GiveUp(t))
    /\ \A t \in Jobs :
          /\ WF_vars(Scan(t) \/ LoadStats(t))
          /\ SF_vars(CommitCleanup(t))
          /\ <>[][~GiveUp(t)]_vars

FairSpec == Spec /\ Fairness

-----------------------------------------------------------------------------
(* Properties *)

Ended(m) == match[m].status \in {"completed", "abandoned"}

Created == {m \in Duels : match[m].status # "absent"}

(***************************************************************************)
(* The gems are the first ones, less the entry of each duel that was       *)
(* opened, plus each pool that was credited: finalize_duel's "the entry    *)
(* was already debited at create" holds through races of two submits with  *)
(* each other and with the clean-up.                                       *)
(***************************************************************************)
GemsAddUp ==
    gems = StartGems - SumFunctionOnSet(EntryGems, Created)
                     + SumFunctionOnSet([m \in Duels |-> pools[m] * PoolGems[m]], Duels)

(***************************************************************************)
(* A pool is paid once, for a duel that ended, and a gem duel that says    *)
(* the player won was paid.  Two submits that loaded the match in progress *)
(* may both finalize it; the key of the credit is what stops the second.   *)
(***************************************************************************)
WinsPaidOnce ==
    \A m \in Duels :
        /\ pools[m] <= 1
        /\ pools[m] = 1 => Ended(m)
        /\ match[m].winner = "user" /\ EntryGems[m] > 0 => pools[m] = 1

(***************************************************************************)
(* The recorded rounds are 0, 1, 2, ... without a gap or a repeat: the     *)
(* "strict sequence" of submit_duel_round under overlapping requests.      *)
(***************************************************************************)
RoundsInOrder ==
    \A m \in Duels : \A n \in DOMAIN rounds[m] : rounds[m][n].idx = n - 1

(***************************************************************************)
(* A duel whose questions are used up has ended ("so a match can never     *)
(* hang forever"), even if a stale counter hid who was ahead.              *)
(***************************************************************************)
NeverHangs ==
    \A m \in Duels : Len(rounds[m]) = NormalRounds + SuddenDeath => Ended(m)

(***************************************************************************)
(* An ended duel is never in progress again, and no recorded round is      *)
(* changed, although a request or a heartbeat that read the match before   *)
(* its end may write it afterwards.                                        *)
(***************************************************************************)
NeverReopened ==
    [][\A m \in Duels :
         /\ Ended(m) => Ended(m)'
         /\ IsPrefix(rounds[m], rounds[m]')]_vars

(***************************************************************************)
(* A duel that was opened ends, played or abandoned: the clean-up sees to  *)
(* it, whatever the player and the requests do.                            *)
(***************************************************************************)
EveryDuelEnds == \A m \in Duels : match[m].status = "in_progress" ~> Ended(m)

(***************************************************************************)
(* cleanup_expired_duels: "an abandonment is a plain loss (no pool credit, *)
(* no refund)".  Violated: the clean-up overwrites a win that is committed *)
(* after it read the match.                                                *)
(***************************************************************************)
AbandonedUnpaid ==
    \A m \in Duels : match[m].status = "abandoned" => pools[m] = 0

(***************************************************************************)
(* duel_logic.py: "The match is first-to-4 round-wins".  Violated: a       *)
(* request that loaded the match before the last round was committed       *)
(* counts on from the counter it loaded.                                   *)
(***************************************************************************)
FirstToWin ==
    \A m \in Duels : \A who \in {"user", "rival"} :
        Cardinality({n \in DOMAIN rounds[m] : rounds[m][n].won = who}) >= RoundsToWin
            => Ended(m)
=============================================================================
