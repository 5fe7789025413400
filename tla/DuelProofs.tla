------------------------------ MODULE DuelProofs ------------------------------
(***************************************************************************)
(* Proofs about Duel, for any matches, requests, heartbeats and rules: a   *)
(* pool is paid once, the recorded rounds are a sequence without gaps, a   *)
(* match whose questions are used up has ended, and an ended match stays   *)
(* ended, although transactions write matches they loaded long before.     *)
(* The gems are what was paid in and out, and the state keeps its types.   *)
(***************************************************************************)
EXTENDS Duel, FiniteSetTheorems, TLAPS

Sums == INSTANCE FoldFacts WITH Op <- LAMBDA x, y : x + y

(* The tables have their types; a match without a result has no winner. *)
TablesInv ==
    /\ match \in [Duels -> Match] /\ rounds \in [Duels -> Seq(Round)]
    /\ pools \in [Duels -> Nat]
    /\ \A m \in Duels : match[m].status = "in_progress" => match[m].winner = "none"
    /\ \A m \in Duels : match[m].status = "absent" => rounds[m] = <<>> /\ match[m].winner = "none"
    /\ \A m \in Duels : Len(rounds[m]) <= NormalRounds + SuddenDeath

(* What a transaction has loaded was a match in progress. *)
Loaded(m, read) ==
    /\ m \in Duels /\ match[m].status # "absent"
    /\ read \in Match /\ read.status = "in_progress" /\ read.winner = "none"

(* A match that is about to be written goes on, or has a result in every column. *)
Written(new) ==
    /\ new \in Match
    /\ new.winner = "none" => new.status = "in_progress"
    /\ new.winner # "none" => new.status = "completed"

(* The round a transaction holds is the next one, and the last one decides. *)
RoundHeld(t) ==
    /\ tx[t].row \in Round /\ tx[t].row.idx = Len(rounds[tx[t].duel])
    /\ Len(rounds[tx[t].duel]) < NormalRounds + SuddenDeath
    /\ Len(rounds[tx[t].duel]) + 1 = NormalRounds + SuddenDeath => tx[t].new.winner # "none"

(* A credit under way is the first, and a win without one was credited before. *)
Credits(t) ==
    /\ tx[t].new.winner # "none" /\ tx[t].credit \in BOOLEAN
    /\ tx[t].credit => pools[tx[t].duel] = 0
    /\ tx[t].new.winner = "user" /\ EntryGems[tx[t].duel] > 0 =>
         tx[t].credit \/ pools[tx[t].duel] = 1

TxOk(t) ==
    /\ tx[t].pc \in {"idle", "opened", "played", "paid", "scanned", "counted"}
    /\ tx[t].pc \in {"opened", "played", "paid"} => Loaded(tx[t].duel, tx[t].read)
    /\ tx[t].pc \in {"played", "paid"} => RoundHeld(t) /\ Written(tx[t].new)
    /\ tx[t].pc = "paid" => Credits(t)
    /\ tx[t].pc \in {"scanned", "counted"} =>
         \A m \in tx[t].duels : Loaded(m, tx[t].read[m])

TxInv == tx = [t \in Txs |-> tx[t]] /\ \A t \in Txs : TxOk(t)

(* A match row is locked once. *)
LockInv ==
    \A s, t \in Txs : s # t => HoldsMatch(s) \cap HoldsMatch(t) = {}

ExpiredInv == expired \subseteq Duels

DuelInv ==
    ExpiredInv /\ TablesInv /\ TxInv /\ LockInv /\ WinsPaidOnce /\ RoundsInOrder /\ NeverHangs

-----------------------------------------------------------------------------
LEMMA Bounds ==
    /\ NormalRounds + SuddenDeath \in Nat \ {0}
    /\ NormalRounds \in Nat /\ SuddenDeath \in Nat
    /\ EntryGems \in [Duels -> Nat] /\ PoolGems \in [Duels -> Nat]
BY DuelAssumption DEF DuelAssumption

(* The columns of an UPDATE. *)
LEMMA UpdateFields ==
    ASSUME NEW row \in Match, NEW read \in Match, NEW new \in Match
    PROVE  /\ Update(row, read, new) \in Match
           /\ Update(row, read, new).status =
                IF new.status # read.status THEN new.status ELSE row.status
           /\ Update(row, read, new).winner =
                IF new.winner # read.winner THEN new.winner ELSE row.winner
<1>1. DOMAIN row = {"status", "user_wins", "rival_wins", "winner", "delta"}
  BY DEF Match
<1> DEFINE u == Update(row, read, new)
<1>2. u = [f \in {"status", "user_wins", "rival_wins", "winner", "delta"} |->
             IF new[f] # read[f] THEN new[f] ELSE row[f]]
  BY <1>1 DEF Update
<1>3. /\ u.status = IF new.status # read.status THEN new.status ELSE row.status
      /\ u.winner = IF new.winner # read.winner THEN new.winner ELSE row.winner
      /\ u.user_wins = IF new.user_wins # read.user_wins THEN new.user_wins ELSE row.user_wins
      /\ u.rival_wins =
           IF new.rival_wins # read.rival_wins THEN new.rival_wins ELSE row.rival_wins
      /\ u.delta = IF new.delta # read.delta THEN new.delta ELSE row.delta
  BY <1>2
<1>4. u = [status |-> u.status, user_wins |-> u.user_wins, rival_wins |-> u.rival_wins,
           winner |-> u.winner, delta |-> u.delta]
  BY <1>2
<1>5. /\ u.status \in {"absent", "in_progress", "completed", "abandoned"}
      /\ u.winner \in Winners /\ u.user_wins \in Nat /\ u.rival_wins \in Nat
      /\ u.delta \in Int
  BY <1>3 DEF Match
<1> HIDE DEF u
<1>6. u \in Match
  BY <1>4, <1>5 DEF Match
<1> QED
  BY <1>3, <1>6 DEF u

LEMMA ScoredFields ==
    ASSUME NEW read \in Match, NEW won
    PROVE  /\ Scored(read, won) \in Match
           /\ Scored(read, won).status = read.status
           /\ Scored(read, won).winner = read.winner
BY DEF Scored, Match

LEMMA FinishedFields ==
    ASSUME NEW m \in Duels, NEW read \in Match, NEW winner \in {"user", "rival"},
           NEW status \in {"completed", "abandoned"}
    PROVE  /\ Finished(m, read, status, winner) \in Match
           /\ Finished(m, read, status, winner).status = status
           /\ Finished(m, read, status, winner).winner = winner
BY Bounds DEF Finished, Match, Winners

(* After the last question there is a winner. *)
LEMMA Decided ==
    ASSUME NEW mine \in Nat, NEW theirs \in Nat, NEW rows,
           NEW winner \in MatchWinners(mine, theirs, rows), Len(rows) \in Nat
    PROVE  /\ winner \in Winners
           /\ Len(rows) = NormalRounds + SuddenDeath => winner # "none"
BY Bounds DEF MatchWinners, Decision, TiebreakWinners, Winners

LEMMA InitDuel == Init => DuelInv
<1> SUFFICES ASSUME Init PROVE DuelInv
  OBVIOUS
<1>1. TablesInv
  <2>1. Absent \in Match
    BY DEF Absent, Match, Winners
  <2> QED
    BY <2>1, Bounds DEF Init, TablesInv, Absent
<1>2. TxInv
  BY DEF Init, TxInv, TxOk, Idle
<1>3. LockInv
  BY DEF Init, LockInv, HoldsMatch, Idle
<1>4. WinsPaidOnce
  BY DEF Init, WinsPaidOnce, Absent
<1>5. RoundsInOrder /\ NeverHangs
  BY Bounds DEF Init, RoundsInOrder, NeverHangs
<1>6. ExpiredInv
  BY DEF Init, ExpiredInv
<1> QED
  BY <1>1, <1>2, <1>3, <1>4, <1>5, <1>6 DEF DuelInv

-----------------------------------------------------------------------------
(* Steps that write no table *)

LEMMA SameTables ==
    ASSUME DuelInv, UNCHANGED <<tables, expired>>
    PROVE  ExpiredInv' /\ TablesInv' /\ WinsPaidOnce' /\ RoundsInOrder' /\ NeverHangs'
BY DEF DuelInv, tables, TablesInv, WinsPaidOnce, RoundsInOrder, NeverHangs,
   Ended, ExpiredInv

(* The transactions that do not move keep what holds of them. *)
LEMMA OthersStay ==
    ASSUME DuelInv, UNCHANGED <<tables, expired>>, NEW t \in Txs, NEW q, tx' = [tx EXCEPT ![t] = q],
           TxOk(t)', HoldsMatch(t)' # {} => HoldsMatch(t)' = {q.duel} /\ MatchFree(t, q.duel)
    PROVE  DuelInv'
<1>1. tx'[t] = q /\ \A s \in Txs \ {t} : tx'[s] = tx[s]
  BY DEF DuelInv, TxInv
<1>2. tx' = [s \in Txs |-> tx'[s]]
  BY DEF DuelInv, TxInv
<1>3. ASSUME NEW s \in Txs \ {t} PROVE TxOk(s)' /\ HoldsMatch(s)' = HoldsMatch(s)
  <2>1. /\ tx'[s] = tx[s] /\ match' = match /\ rounds' = rounds /\ pools' = pools
        /\ TxOk(s)
    BY <1>1 DEF DuelInv, TxInv, tables
  <2>2. TxOk(s)'
    BY <2>1 DEF TxOk, Loaded, RoundHeld, Credits
  <2> QED
    BY <2>1, <2>2 DEF HoldsMatch
<1>4. LockInv'
  <2>1. \A s \in Txs \ {t} : HoldsMatch(s)' \cap HoldsMatch(t)' = {}
    BY <1>3 DEF MatchFree
  <2> QED
    BY <1>3, <2>1 DEF LockInv, DuelInv
<1> QED
  BY <1>2, <1>3, <1>4, SameTables DEF DuelInv, TxInv

LEMMA OpenMatchKeeps ==
    ASSUME DuelInv, NEW t \in Reqs, NEW m \in Duels, OpenMatch(t, m)
    PROVE  DuelInv'
<1> DEFINE q == [pc |-> "opened", duel |-> m, read |-> match[m]]
<1>1. tx' = [tx EXCEPT ![t] = q] /\ UNCHANGED <<tables, expired>> /\ t \in Txs
  BY DEF OpenMatch, Txs
<1>2. tx'[t] = q
  BY <1>1 DEF DuelInv, TxInv
<1>3. Loaded(m, match[m])
  BY DEF OpenMatch, Loaded, DuelInv, TablesInv
<1>4. TxOk(t)'
  BY <1>1, <1>2, <1>3 DEF TxOk, Loaded, tables
<1>5. HoldsMatch(t)' = {}
  BY <1>2 DEF HoldsMatch
<1> QED
  BY <1>1, <1>4, <1>5, OthersStay

LEMMA PlayRoundKeeps ==
    ASSUME DuelInv, NEW t \in Reqs, PlayRound(t)
    PROVE  DuelInv'
<1> DEFINE m == tx[t].duel
           read == tx[t].read
           row(play) == [idx |-> NextIdx(t, m), won |-> RoundWinner(play),
                         user |-> play.user, rival |-> play.rival]
           scored(play) == Scored(read, row(play).won)
           new(play, winner) == IF winner = "none" THEN scored(play)
                                ELSE Finished(m, scored(play), "completed", winner)
           q(play, winner) == [pc |-> "played", duel |-> m, read |-> read,
                               row |-> row(play), new |-> new(play, winner)]
<1>1. /\ t \in Txs /\ tx[t].pc = "opened" /\ MatchFree(t, m) /\ UNCHANGED <<tables, expired>>
      /\ Len(rounds[m]) < NormalRounds + SuddenDeath
  BY DEF PlayRound, Txs
<1>2. PICK play \in Plays :
        \E winner \in MatchWinners(scored(play).user_wins, scored(play).rival_wins,
                                   Append(rounds[m], row(play))) :
          tx' = [tx EXCEPT ![t] = q(play, winner)]
  BY DEF PlayRound
<1>3. PICK winner \in MatchWinners(scored(play).user_wins, scored(play).rival_wins,
                                   Append(rounds[m], row(play))) :
          tx' = [tx EXCEPT ![t] = q(play, winner)]
  BY <1>2
<1>4. Loaded(m, read)
  BY <1>1 DEF DuelInv, TxInv, TxOk
<1>5. rounds[m] \in Seq(Round) /\ m \in Duels /\ Len(rounds[m]) \in Nat
  BY <1>4 DEF DuelInv, TablesInv, Loaded
<1>6. row(play) \in Round /\ row(play).idx = Len(rounds[m])
  <2>1. RoundWinner(play) \in Winners /\ play.user \in BOOLEAN /\ play.rival \in BOOLEAN
    <3>1. play \in [user : BOOLEAN, rival : BOOLEAN, faster : {"user", "rival", "close"}]
      BY DuelAssumption DEF DuelAssumption
    <3> QED
      BY <3>1 DEF RoundWinner, Winners
  <2> QED
    BY <1>5, <2>1 DEF Round, NextIdx
<1>7. /\ scored(play) \in Match /\ scored(play).status = "in_progress"
      /\ scored(play).winner = "none"
  BY <1>4, ScoredFields DEF Loaded
<1>8. Len(Append(rounds[m], row(play))) = Len(rounds[m]) + 1
  BY <1>5, <1>6
<1>9. /\ winner \in Winners
      /\ Len(rounds[m]) + 1 = NormalRounds + SuddenDeath => winner # "none"
  <2>1. scored(play).user_wins \in Nat /\ scored(play).rival_wins \in Nat
    BY <1>7 DEF Match
  <2> DEFINE mine == scored(play).user_wins
             theirs == scored(play).rival_wins
             rows == Append(rounds[m], row(play))
  <2>2. /\ winner \in MatchWinners(mine, theirs, rows) /\ mine \in Nat /\ theirs \in Nat
        /\ Len(rows) = Len(rounds[m]) + 1 /\ Len(rows) \in Nat
    BY <1>3, <1>5, <1>8, <2>1
  <2> HIDE DEF mine, theirs, rows, m
  <2>3. winner \in Winners /\ (Len(rows) = NormalRounds + SuddenDeath => winner # "none")
    BY <2>2, Decided
  <2> QED
    BY <2>2, <2>3
<1>10. Written(new(play, winner)) /\ (winner # "none" => new(play, winner).winner # "none")
  <2>1. CASE winner = "none"
    BY <1>7, <2>1 DEF Written
  <2>2. CASE winner # "none"
    <3>1. winner \in {"user", "rival"}
      BY <1>9, <2>2 DEF Winners
    <3> HIDE DEF scored, m
    <3> QED
      BY <1>5, <1>7, <2>2, <3>1, FinishedFields DEF Written
  <2> QED
    BY <2>1, <2>2
<1>11. tx'[t] = q(play, winner)
  BY <1>1, <1>3 DEF DuelInv, TxInv
<1>12. /\ tx'[t].pc = "played" /\ tx'[t].duel = m /\ tx'[t].read = read
       /\ tx'[t].row = row(play) /\ tx'[t].new = new(play, winner)
  BY <1>11
<1> HIDE DEF row, new, m, read
<1>13. TxOk(t)'
  BY <1>1, <1>4, <1>5, <1>6, <1>9, <1>10, <1>12 DEF TxOk, Loaded, RoundHeld, tables
<1>14. HoldsMatch(t)' = {m}
  BY <1>12 DEF HoldsMatch
<1> QED
  BY <1>1, <1>3, <1>13, <1>14, OthersStay

LEMMA PayOutKeeps ==
    ASSUME DuelInv, NEW t \in Reqs, PayOut(t)
    PROVE  DuelInv'
<1> DEFINE p == tx[t]
           due == PoolDue(p.duel, p.new.winner)
           q == [pc |-> "paid", duel |-> p.duel, read |-> p.read, row |-> p.row,
                 new |-> p.new, credit |-> due, stats |-> stats]
<1>1. /\ t \in Txs /\ p.pc = "played" /\ p.new.winner # "none"
      /\ tx' = [tx EXCEPT ![t] = q] /\ UNCHANGED <<tables, expired>>
  BY DEF PayOut, Txs
<1>2. TxOk(t)
  BY <1>1 DEF DuelInv, TxInv
<1>3. p.duel \in Duels /\ pools[p.duel] \in Nat /\ pools[p.duel] <= 1
  BY <1>1, <1>2 DEF TxOk, Loaded, DuelInv, TablesInv, WinsPaidOnce
<1>4. /\ due \in BOOLEAN /\ (due => pools[p.duel] = 0)
      /\ (p.new.winner = "user" /\ EntryGems[p.duel] > 0 => due \/ pools[p.duel] = 1)
  BY <1>3 DEF PoolDue
<1>5. tx'[t] = q
  BY <1>1 DEF DuelInv, TxInv
<1> HIDE DEF due
<1>6. /\ tx'[t].pc = "paid" /\ tx'[t].duel = p.duel /\ tx'[t].read = p.read
      /\ tx'[t].row = p.row /\ tx'[t].new = p.new /\ tx'[t].credit = due
  BY <1>5
<1> HIDE DEF q
<1>7. RoundHeld(t)' /\ Loaded(p.duel, p.read)' /\ Written(p.new)
  BY <1>1, <1>2, <1>6 DEF TxOk, RoundHeld, Loaded, tables
<1>8. Credits(t)'
  BY <1>1, <1>4, <1>6 DEF Credits, tables
<1>9. TxOk(t)'
  BY <1>6, <1>7, <1>8 DEF TxOk, Loaded
<1>10. HoldsMatch(t)' = {p.duel} /\ q.duel = p.duel
  BY <1>6 DEF HoldsMatch, q
<1>11. MatchFree(t, p.duel)
  BY <1>1 DEF MatchFree, DuelInv, LockInv, HoldsMatch
<1> QED
  BY <1>1, <1>9, <1>10, <1>11, OthersStay

LEMMA ScanKeeps ==
    ASSUME DuelInv, NEW t \in Jobs, Scan(t)
    PROVE  DuelInv'
<1> DEFINE q == [pc |-> "scanned", duels |-> Unfinished, read |-> match]
<1>1. t \in Txs /\ tx' = [tx EXCEPT ![t] = q] /\ UNCHANGED <<tables, expired>>
  BY DEF Scan, Txs
<1>2. tx'[t] = q
  BY <1>1 DEF DuelInv, TxInv
<1>3. \A m \in Unfinished : m \in Duels => Loaded(m, match[m])
  BY DEF Unfinished, Loaded, DuelInv, TablesInv
<1>4. Unfinished \subseteq Duels
  BY DEF Unfinished, DuelInv, ExpiredInv
<1>5. tx'[t].pc = "scanned" /\ tx'[t].duels = Unfinished /\ tx'[t].read = match
  BY <1>2
<1>6. TxOk(t)'
  BY <1>1, <1>3, <1>4, <1>5 DEF TxOk, Loaded, tables
<1>7. HoldsMatch(t)' = {}
  BY <1>5 DEF HoldsMatch
<1> QED
  BY <1>1, <1>6, <1>7, OthersStay

LEMMA LoadStatsKeeps ==
    ASSUME DuelInv, NEW t \in Jobs, LoadStats(t)
    PROVE  DuelInv'
<1> DEFINE q == [pc |-> "counted", duels |-> tx[t].duels, read |-> tx[t].read,
                 stats |-> stats]
<1>1. /\ t \in Txs /\ tx[t].pc = "scanned" /\ tx' = [tx EXCEPT ![t] = q]
      /\ UNCHANGED <<tables, expired>>
  BY DEF LoadStats, Txs
<1>2. tx'[t] = q
  BY <1>1 DEF DuelInv, TxInv
<1>3. tx'[t].pc = "counted" /\ tx'[t].duels = tx[t].duels /\ tx'[t].read = tx[t].read
  BY <1>2
<1>4. TxOk(t)'
  BY <1>1, <1>3 DEF TxOk, Loaded, tables, DuelInv, TxInv
<1>5. HoldsMatch(t)' = {}
  BY <1>3 DEF HoldsMatch
<1> QED
  BY <1>1, <1>4, <1>5, OthersStay

LEMMA GiveUpKeeps ==
    ASSUME DuelInv, NEW t \in Txs, GiveUp(t)
    PROVE  DuelInv'
<1>1. tx' = [tx EXCEPT ![t] = Idle] /\ UNCHANGED <<tables, expired>>
  BY DEF GiveUp
<1>2. tx'[t].pc = "idle"
  BY <1>1 DEF DuelInv, TxInv, Idle
<1>3. TxOk(t)' /\ HoldsMatch(t)' = {}
  BY <1>2 DEF TxOk, HoldsMatch
<1> QED
  BY <1>1, <1>3, OthersStay

-----------------------------------------------------------------------------
(* Steps that write the tables *)

(* A transaction that holds no row that was written keeps what it has. *)
LEMMA TxStays ==
    ASSUME DuelInv, NEW s \in Txs, tx'[s] = tx[s],
           \A m \in Duels : match[m].status # "absent" => match'[m].status # "absent",
           \A m \in HoldsMatch(s) : rounds'[m] = rounds[m] /\ pools'[m] = pools[m]
    PROVE  TxOk(s)' /\ HoldsMatch(s)' = HoldsMatch(s)
<1>1. TxOk(s)
  BY DEF DuelInv, TxInv
<1>2. tx[s].pc \in {"played", "paid"} =>
        /\ rounds'[tx[s].duel] = rounds[tx[s].duel]
        /\ pools'[tx[s].duel] = pools[tx[s].duel]
  BY DEF HoldsMatch
<1>3. \A m, read : Loaded(m, read) => Loaded(m, read)'
  BY DEF Loaded
<1>4. /\ tx[s].pc \in {"played", "paid"} => RoundHeld(s)'
      /\ tx[s].pc = "paid" => Credits(s)'
  BY <1>1, <1>2 DEF TxOk, RoundHeld, Credits
<1>5. TxOk(s)'
  BY <1>1, <1>3, <1>4 DEF TxOk
<1> QED
  BY <1>5 DEF HoldsMatch

LEMMA CreateKeeps ==
    ASSUME DuelInv, NEW m \in Duels, Create(m)
    PROVE  DuelInv'
<1>1. /\ match[m].status = "absent" /\ match[m] \in Match /\ match[m].winner = "none"
      /\ rounds[m] = <<>>
      /\ match' = [match EXCEPT ![m].status = "in_progress"]
      /\ UNCHANGED <<rounds, pools, expired, tx>>
  BY DEF Create, DuelInv, TablesInv
<1>2. /\ match' \in [Duels -> Match] /\ match'[m].status = "in_progress"
      /\ match'[m].winner = match[m].winner
      /\ \A n \in Duels \ {m} : match'[n] = match[n]
  BY <1>1 DEF DuelInv, TablesInv, Match
<1>3. TablesInv'
  BY <1>1, <1>2 DEF DuelInv, TablesInv
<1>4. TxInv' /\ LockInv'
  <2>1. \A s \in Txs : TxOk(s)' /\ HoldsMatch(s)' = HoldsMatch(s)
    BY <1>1, <1>2, TxStays
  <2> QED
    BY <1>1, <2>1 DEF DuelInv, TxInv, LockInv
<1>5. WinsPaidOnce'
  BY <1>1, <1>2 DEF DuelInv, WinsPaidOnce, Ended, TablesInv
<1>6. RoundsInOrder' /\ NeverHangs' /\ ExpiredInv'
  BY <1>1, <1>2, Bounds DEF DuelInv, RoundsInOrder, NeverHangs, Ended, ExpiredInv
<1> QED
  BY <1>3, <1>4, <1>5, <1>6 DEF DuelInv

LEMMA ExpireKeeps ==
    ASSUME DuelInv, NEW m \in Duels, Expire(m)
    PROVE  DuelInv'
<1>1. UNCHANGED <<match, rounds, pools, tx>> /\ expired' = expired \cup {m}
  BY DEF Expire, tables
<1>2. \A s \in Txs : TxOk(s)' /\ HoldsMatch(s)' = HoldsMatch(s)
  BY <1>1, TxStays, SMTT(40)
<1> QED
  BY <1>1, <1>2 DEF DuelInv, TxInv, LockInv, TablesInv, WinsPaidOnce, RoundsInOrder, NeverHangs,
     Ended, ExpiredInv

(* What a commit writes, in the terms of the invariant. *)
LEMMA CommitEffect ==
    ASSUME DuelInv, NEW t \in Reqs, Commit(t)
    PROVE  LET m == tx[t].duel
               new == tx[t].new
           IN  /\ t \in Txs /\ m \in Duels /\ HoldsMatch(t) = {m} /\ tx' = [tx EXCEPT ![t] = Idle]
               /\ match' \in [Duels -> Match] /\ rounds' \in [Duels -> Seq(Round)]
               /\ pools' \in [Duels -> Nat] /\ expired' = expired
               /\ \A n \in Duels \ {m} : /\ match'[n] = match[n] /\ rounds'[n] = rounds[n]
                                        /\ pools'[n] = pools[n]
               /\ rounds'[m] = Append(rounds[m], tx[t].row)
               /\ match[m].status # "absent"
               /\ new.winner = "none" =>
                    /\ match'[m].status = match[m].status
                    /\ match'[m].winner = match[m].winner /\ pools'[m] = pools[m]
               /\ new.winner # "none" =>
                    /\ match'[m].status = "completed" /\ match'[m].winner = new.winner
                    /\ pools'[m] \in {0, 1}
                    /\ new.winner = "user" /\ EntryGems[m] > 0 => pools'[m] = 1
<1> DEFINE m == tx[t].duel
           new == tx[t].new
           read == tx[t].read
<1>1. /\ t \in Txs /\ TxOk(t) /\ tx[t].pc \in {"played", "paid"}
      /\ tx[t].pc = "played" => new.winner = "none"
      /\ tx' = [tx EXCEPT ![t] = Idle] /\ expired' = expired
      /\ match' = [match EXCEPT ![m] = Update(@, read, new)]
      /\ rounds' = [rounds EXCEPT ![m] = Append(@, tx[t].row)]
      /\ IF tx[t].pc = "paid" /\ tx[t].credit
         THEN pools' = [pools EXCEPT ![m] = @ + 1] ELSE pools' = pools
  BY DEF Commit, Txs, DuelInv, TxInv
<1>2. Loaded(m, read) /\ RoundHeld(t) /\ Written(new) /\ (tx[t].pc = "paid" => Credits(t))
  BY <1>1 DEF TxOk
<1>3. /\ m \in Duels /\ match[m] \in Match /\ read \in Match /\ new \in Match
      /\ read.status = "in_progress" /\ read.winner = "none" /\ match[m].status # "absent"
      /\ match \in [Duels -> Match] /\ rounds \in [Duels -> Seq(Round)]
      /\ pools \in [Duels -> Nat] /\ pools[m] <= 1 /\ tx[t].row \in Round
  BY <1>2 DEF Loaded, Written, RoundHeld, DuelInv, TablesInv, WinsPaidOnce
<1>4. /\ match' \in [Duels -> Match]
      /\ match'[m].status = IF new.status # "in_progress" THEN new.status ELSE match[m].status
      /\ match'[m].winner = IF new.winner # "none" THEN new.winner ELSE match[m].winner
      /\ \A n \in Duels \ {m} : match'[n] = match[n]
  <2> DEFINE u == Update(match[m], read, new)
  <2>1. /\ u \in Match /\ u.status = IF new.status # "in_progress" THEN new.status
                                      ELSE match[m].status
        /\ u.winner = IF new.winner # "none" THEN new.winner ELSE match[m].winner
    BY <1>3, UpdateFields
  <2>2. match' = [match EXCEPT ![m] = u]
    BY <1>1
  <2> HIDE DEF u, m, read, new
  <2> QED
    BY <1>3, <2>1, <2>2
<1>5. /\ rounds' \in [Duels -> Seq(Round)] /\ rounds'[m] = Append(rounds[m], tx[t].row)
      /\ \A n \in Duels \ {m} : rounds'[n] = rounds[n]
  <2> DEFINE rows == Append(rounds[m], tx[t].row)
  <2>1. rows \in Seq(Round)
    BY <1>3
  <2> HIDE DEF rows
  <2>2. rounds' = [rounds EXCEPT ![m] = rows]
    BY <1>1 DEF rows
  <2>3. rounds'[m] = rows
    BY <1>3, <2>2
  <2> QED
    BY <1>3, <2>1, <2>2, <2>3 DEF rows
<1>6. /\ pools' \in [Duels -> Nat] /\ \A n \in Duels \ {m} : pools'[n] = pools[n]
      /\ new.winner = "none" => pools'[m] = pools[m]
      /\ new.winner # "none" =>
           /\ pools'[m] \in {0, 1}
           /\ new.winner = "user" /\ EntryGems[m] > 0 => pools'[m] = 1
  <2>1. CASE tx[t].pc = "paid" /\ tx[t].credit
    <3>1. pools[m] = 0 /\ new.winner # "none" /\ pools' = [pools EXCEPT ![m] = @ + 1]
      BY <1>1, <1>2, <2>1 DEF Credits
    <3> QED
      BY <1>3, <3>1
  <2>2. CASE tx[t].pc = "paid" /\ ~tx[t].credit
    <3>1. pools' = pools /\ pools[m] \in {0, 1} /\ new.winner # "none"
      <4>1. pools' = pools
        BY <1>1, <2>2
      <4>2. new.winner # "none"
        BY <1>2, <2>2 DEF Credits
      <4>3. pools[m] \in {0, 1}
        <5> HIDE DEF m
        <5>1. pools[m] \in Nat /\ pools[m] <= 1
          BY <1>3
        <5> QED
          BY <5>1
      <4> QED
        BY <4>1, <4>2, <4>3
    <3>2. new.winner = "user" /\ EntryGems[m] > 0 => pools[m] = 1
      BY <1>2, <2>2, Zenon DEF Credits
    <3> HIDE DEF m, new
    <3> QED
      BY <1>3, <3>1, <3>2
  <2>3. CASE tx[t].pc = "played"
    BY <1>1, <1>3, <2>3
  <2> QED
    BY <1>1, <2>1, <2>2, <2>3
<1>7. /\ new.winner = "none" => new.status = "in_progress"
      /\ new.winner # "none" => new.status = "completed"
  BY <1>2 DEF Written
<1>8. HoldsMatch(t) = {m}
  BY <1>1 DEF HoldsMatch
<1> QED
  BY <1>1, <1>3, <1>4, <1>5, <1>6, <1>7, <1>8

LEMMA CommitKeeps ==
    ASSUME DuelInv, NEW t \in Reqs, Commit(t)
    PROVE  DuelInv'
<1> DEFINE m == tx[t].duel
           new == tx[t].new
<1>1. /\ t \in Txs /\ m \in Duels /\ HoldsMatch(t) = {m} /\ tx' = [tx EXCEPT ![t] = Idle]
      /\ match' \in [Duels -> Match] /\ rounds' \in [Duels -> Seq(Round)]
      /\ pools' \in [Duels -> Nat] /\ expired' = expired
      /\ \A n \in Duels \ {m} : /\ match'[n] = match[n] /\ rounds'[n] = rounds[n]
                               /\ pools'[n] = pools[n]
      /\ rounds'[m] = Append(rounds[m], tx[t].row)
      /\ match[m].status # "absent"
      /\ new.winner = "none" =>
           /\ match'[m].status = match[m].status
           /\ match'[m].winner = match[m].winner /\ pools'[m] = pools[m]
      /\ new.winner # "none" =>
           /\ match'[m].status = "completed" /\ match'[m].winner = new.winner
           /\ pools'[m] \in {0, 1}
           /\ new.winner = "user" /\ EntryGems[m] > 0 => pools'[m] = 1
  BY CommitEffect
<1>2. /\ RoundHeld(t) /\ rounds[m] \in Seq(Round) /\ tx[t].row \in Round
      /\ tx[t].row.idx = Len(rounds[m]) /\ Len(rounds[m]) < NormalRounds + SuddenDeath
      /\ Len(rounds[m]) + 1 = NormalRounds + SuddenDeath => new.winner # "none"
  BY <1>1 DEF DuelInv, TxInv, TxOk, Commit, RoundHeld, TablesInv
<1> HIDE DEF m, new
<1>3. /\ Len(rounds'[m]) = Len(rounds[m]) + 1 /\ Len(rounds[m]) \in Nat
      /\ \A n \in 1..Len(rounds[m]) : rounds'[m][n] = rounds[m][n]
      /\ rounds'[m][Len(rounds[m]) + 1] = tx[t].row
  BY <1>1, <1>2
<1>4. \A n \in Duels : match[n].status # "absent" => match'[n].status # "absent"
  BY <1>1
<1>5. TablesInv'
  <2>1. ASSUME NEW n \in Duels, match'[n].status = "in_progress"
        PROVE  match'[n].winner = "none"
    BY <1>1, <2>1 DEF DuelInv, TablesInv
  <2>2. ASSUME NEW n \in Duels, match'[n].status = "absent"
        PROVE  rounds'[n] = <<>> /\ match'[n].winner = "none"
    BY <1>1, <2>2 DEF DuelInv, TablesInv
  <2>3. ASSUME NEW n \in Duels PROVE Len(rounds'[n]) <= NormalRounds + SuddenDeath
    <3>1. CASE n = m
      BY <1>2, <1>3, <3>1, Bounds
    <3>2. CASE n # m
      BY <1>1, <3>2 DEF DuelInv, TablesInv
    <3> QED
      BY <3>1, <3>2
  <2> QED
    BY <1>1, <2>1, <2>2, <2>3 DEF TablesInv
<1>6. TxInv' /\ LockInv'
  <2>1. tx'[t] = Idle /\ (\A s \in Txs \ {t} : tx'[s] = tx[s]) /\ tx' = [s \in Txs |-> tx'[s]]
    BY <1>1 DEF DuelInv, TxInv
  <2>2. TxOk(t)' /\ HoldsMatch(t)' = {}
    BY <2>1 DEF TxOk, HoldsMatch, Idle
  <2>3. ASSUME NEW s \in Txs \ {t} PROVE TxOk(s)' /\ HoldsMatch(s)' = HoldsMatch(s)
    <3>1. m \notin HoldsMatch(s)
      BY <1>1 DEF DuelInv, LockInv
    <3>2. HoldsMatch(s) \subseteq Duels
      BY DEF HoldsMatch, DuelInv, TxInv, TxOk, Loaded
    <3>3. \A n \in HoldsMatch(s) : rounds'[n] = rounds[n] /\ pools'[n] = pools[n]
      BY <1>1, <3>1, <3>2
    <3> QED
      BY <1>4, <2>1, <3>3, TxStays
  <2> QED
    BY <2>1, <2>2, <2>3 DEF TxInv, LockInv, DuelInv
<1>7. WinsPaidOnce'
  <2>1. ASSUME NEW n \in Duels
        PROVE  /\ pools'[n] <= 1
               /\ pools'[n] = 1 => match'[n].status \in {"completed", "abandoned"}
               /\ match'[n].winner = "user" /\ EntryGems[n] > 0 => pools'[n] = 1
    <3>1. CASE n # m
      BY <1>1, <3>1 DEF DuelInv, WinsPaidOnce, Ended
    <3>2. CASE n = m /\ new.winner = "none"
      BY <1>1, <3>2 DEF DuelInv, WinsPaidOnce, Ended
    <3>3. CASE n = m /\ new.winner # "none"
      BY <1>1, <3>3
    <3> QED
      BY <3>1, <3>2, <3>3
  <2> QED
    BY <2>1 DEF WinsPaidOnce, Ended
<1>8. RoundsInOrder'
  <2>1. ASSUME NEW d \in Duels, NEW n \in DOMAIN rounds'[d] PROVE rounds'[d][n].idx = n - 1
    <3>1. CASE d # m
      BY <1>1, <2>1, <3>1, ZenonT(60) DEF DuelInv, RoundsInOrder
    <3>2. CASE d = m /\ n \in 1..Len(rounds[m])
      BY <1>1, <1>2, <1>3, <3>2 DEF DuelInv, RoundsInOrder
    <3>3. CASE d = m /\ n = Len(rounds[m]) + 1
      BY <1>2, <1>3, <3>3
    <3>4. rounds'[d] \in Seq(Round)
      BY <1>1
    <3>5. n \in 1..Len(rounds'[d])
      BY <3>4, <2>1
    <3>6. CASE d = m
      <4>1. n \in 1..Len(rounds[m]) \/ n = Len(rounds[m]) + 1
        BY <1>3, <3>5, <3>6
      <4> QED
        BY <3>2, <3>3, <3>6, <4>1
    <3> QED
      BY <3>1, <3>6
  <2> QED
    BY <2>1 DEF RoundsInOrder
<1>9. NeverHangs'
  <2>1. ASSUME NEW n \in Duels, Len(rounds'[n]) = NormalRounds + SuddenDeath
        PROVE  match'[n].status \in {"completed", "abandoned"}
    <3>1. CASE n # m
      BY <1>1, <2>1, <3>1 DEF DuelInv, NeverHangs, Ended
    <3>2. CASE n = m
      BY <1>1, <1>2, <1>3, <2>1, <3>2
    <3> QED
      BY <3>1, <3>2
  <2> QED
    BY <2>1 DEF NeverHangs, Ended
<1>10. ExpiredInv'
  BY <1>1 DEF DuelInv, ExpiredInv
<1> QED
  BY <1>5, <1>6, <1>7, <1>8, <1>9, <1>10 DEF DuelInv

(* What a clean-up writes: a loss over each match it read in progress. *)
LEMMA CleanupEffect ==
    ASSUME DuelInv, NEW t \in Jobs, CommitCleanup(t)
    PROVE  /\ t \in Txs /\ HoldsMatch(t) = {} /\ tx' = [tx EXCEPT ![t] = Idle]
           /\ UNCHANGED <<rounds, pools, expired>>
           /\ match' \in [Duels -> Match]
           /\ \A m \in Duels \ tx[t].duels : match'[m] = match[m]
           /\ \A m \in Duels \cap tx[t].duels :
                /\ match[m].status # "absent"
                /\ match'[m].status = "abandoned" /\ match'[m].winner = "rival"
<1> DEFINE q == tx[t]
           new(m) == Finished(m, q.read[m], "abandoned", "rival")
<1>1. /\ t \in Txs /\ q.pc = "counted" /\ TxOk(t)
      /\ tx' = [tx EXCEPT ![t] = Idle] /\ UNCHANGED <<rounds, pools, expired>>
      /\ match' = [m \in Duels |-> IF m \in q.duels THEN Update(match[m], q.read[m], new(m))
                                   ELSE match[m]]
  BY DEF CommitCleanup, Txs, DuelInv, TxInv
<1>2. \A m \in Duels : match[m] \in Match
  BY DEF DuelInv, TablesInv
<1>3. ASSUME NEW m \in Duels, m \in q.duels
      PROVE  /\ match'[m] \in Match /\ match[m].status # "absent"
             /\ match'[m].status = "abandoned" /\ match'[m].winner = "rival"
  <2>1. Loaded(m, q.read[m])
    BY <1>1, <1>3 DEF TxOk
  <2>2. /\ new(m) \in Match /\ new(m).status = "abandoned" /\ new(m).winner = "rival"
    BY <2>1, FinishedFields DEF Loaded
  <2>3. match'[m] = Update(match[m], q.read[m], new(m))
    BY <1>1, <1>3
  <2> HIDE DEF new, q
  <2> QED
    BY <1>2, <2>1, <2>2, <2>3, UpdateFields DEF Loaded
<1>4. \A m \in Duels \ q.duels : match'[m] = match[m]
  BY <1>1
<1>5. match' \in [Duels -> Match]
  <2>1. \A m \in Duels : match'[m] \in Match
    BY <1>2, <1>3, <1>4
  <2>2. match' = [m \in Duels |-> match'[m]]
    BY <1>1
  <2> QED
    BY <2>1, <2>2
<1>6. HoldsMatch(t) = {}
  BY <1>1 DEF HoldsMatch
<1> QED
  BY <1>1, <1>3, <1>4, <1>5, <1>6

LEMMA CommitCleanupKeeps ==
    ASSUME DuelInv, NEW t \in Jobs, CommitCleanup(t)
    PROVE  DuelInv'
<1> DEFINE D == tx[t].duels
<1>1. /\ t \in Txs /\ HoldsMatch(t) = {} /\ tx' = [tx EXCEPT ![t] = Idle]
      /\ UNCHANGED <<rounds, pools, expired>>
      /\ match' \in [Duels -> Match]
      /\ \A m \in Duels \ D : match'[m] = match[m]
      /\ \A m \in Duels \cap D :
           /\ match[m].status # "absent"
           /\ match'[m].status = "abandoned" /\ match'[m].winner = "rival"
  BY CleanupEffect
<1> HIDE DEF D
<1>2. TablesInv'
  BY <1>1 DEF DuelInv, TablesInv
<1>3. TxInv' /\ LockInv'
  <2>1. tx'[t] = Idle /\ (\A s \in Txs \ {t} : tx'[s] = tx[s]) /\ tx' = [s \in Txs |-> tx'[s]]
    BY <1>1 DEF DuelInv, TxInv
  <2>2. TxOk(t)' /\ HoldsMatch(t)' = {}
    BY <2>1 DEF TxOk, HoldsMatch, Idle
  <2>3. \A m \in Duels : match[m].status # "absent" => match'[m].status # "absent"
    BY <1>1
  <2>4. ASSUME NEW s \in Txs \ {t} PROVE TxOk(s)' /\ HoldsMatch(s)' = HoldsMatch(s)
    BY <1>1, <2>1, <2>3, TxStays
  <2> QED
    BY <2>1, <2>2, <2>4 DEF TxInv, LockInv, DuelInv
<1>4. WinsPaidOnce' /\ NeverHangs'
  BY <1>1 DEF DuelInv, WinsPaidOnce, NeverHangs, Ended
<1>5. RoundsInOrder' /\ ExpiredInv'
  BY <1>1 DEF DuelInv, RoundsInOrder, ExpiredInv
<1> QED
  BY <1>2, <1>3, <1>4, <1>5 DEF DuelInv

LEMMA DuelStep == DuelInv /\ [Next]_vars => DuelInv'
<1> SUFFICES ASSUME DuelInv, [Next]_vars PROVE DuelInv'
  OBVIOUS
<1>1. ASSUME NEW m \in Duels, Create(m) \/ Expire(m) PROVE DuelInv'
  BY <1>1, CreateKeeps, ExpireKeeps
<1>2. ASSUME NEW t \in Reqs, Submit(t) \/ \E m \in Duels : OpenMatch(t, m) PROVE DuelInv'
  BY <1>2, PlayRoundKeeps, PayOutKeeps, CommitKeeps, OpenMatchKeeps DEF Submit
<1>3. ASSUME NEW t \in Jobs, Scan(t) \/ LoadStats(t) \/ CommitCleanup(t) PROVE DuelInv'
  BY <1>3, ScanKeeps, LoadStatsKeeps, CommitCleanupKeeps
<1>4. ASSUME NEW t \in Txs, GiveUp(t) PROVE DuelInv'
  BY <1>4, GiveUpKeeps
<1>5. CASE UNCHANGED vars
  <2>1. UNCHANGED <<tables, expired>> /\ tx' = tx
    BY <1>5 DEF vars, tables
  <2>2. \A s \in Txs : TxOk(s)' /\ HoldsMatch(s)' = HoldsMatch(s)
    BY <2>1, TxStays DEF tables
  <2> QED
    BY <2>1, <2>2, SameTables DEF DuelInv, TxInv, LockInv
<1> QED
  BY <1>1, <1>2, <1>3, <1>4, <1>5 DEF Next

LEMMA DuelAlways == Spec => []DuelInv
BY InitDuel, DuelStep, PTL DEF Spec

-----------------------------------------------------------------------------
(* Sums over the matches *)

LEMMA SumIs ==
    ASSUME NEW f, NEW S
    PROVE  SumFunctionOnSet(f, S) = Sums!SetFold(0, f, S)
BY DEF SumFunctionOnSet, FoldFunctionOnSet, MapThenFoldSet, Sums!SetFold,
   Sums!FoldFunctionOnSet, Sums!MapThenFoldSet

LEMMA SumFinite ==
    ASSUME NEW S, IsFiniteSet(S)
    PROVE  Sums!IsFiniteSet(S)
BY DEF IsFiniteSet, Sums!IsFiniteSet

(* The sum over no match is 0, and one match more adds its amount. *)
LEMMA SumAdd ==
    ASSUME NEW f \in [Duels -> Int], NEW S \in SUBSET Duels
    PROVE  /\ SumFunctionOnSet(f, {}) = 0 /\ SumFunctionOnSet(f, S) \in Int
           /\ \A m \in Duels \ S :
                SumFunctionOnSet(f, S \cup {m}) = f[m] + SumFunctionOnSet(f, S)
<1>1. Sums!IsFiniteSet(Duels) /\ Sums!IsFiniteSet(S) /\ Sums!IsFiniteSet({})
  <2>1. IsFiniteSet(Duels) /\ IsFiniteSet(S) /\ IsFiniteSet({})
    BY DuelAssumption, FS_Subset, FS_EmptySet DEF DuelAssumption
  <2> QED
    BY <2>1, SumFinite
<1>2. Sums!SetFold(0, f, {}) = 0
  BY <1>1, Sums!SetFoldStep
<1>3. Sums!SetFold(0, f, S) \in Int
  <2>1. \A x \in S : f[x] \in Int
    OBVIOUS
  <2>2. 0 \in Int /\ \A a \in Int, b \in Int : a + b \in Int
    OBVIOUS
  <2> QED
    BY <1>1, <2>1, <2>2, Sums!SetFoldType
<1>4. ASSUME NEW m \in Duels \ S
      PROVE  Sums!SetFold(0, f, S \cup {m}) = f[m] + Sums!SetFold(0, f, S)
  <2>1. /\ 0 \in Int /\ \A a \in Int, b \in Int : a + b \in Int
        /\ \A a \in Int, b \in Int, c \in Int : a + (b + c) = b + (a + c)
    OBVIOUS
  <2> QED
    BY <1>1, <2>1, Sums!SetFoldAdd
<1> QED
  BY <1>2, <1>3, <1>4, SumIs

(* If the amount of one match changes, the sum changes by as much. *)
LEMMA SumChange ==
    ASSUME NEW f \in [Duels -> Int], NEW g \in [Duels -> Int], NEW m \in Duels,
           \A n \in Duels \ {m} : g[n] = f[n]
    PROVE  SumFunctionOnSet(g, Duels) = SumFunctionOnSet(f, Duels) + g[m] - f[m]
<1> DEFINE S == Duels \ {m}
<1>1. S \in SUBSET Duels /\ m \in Duels \ S /\ S \cup {m} = Duels
  OBVIOUS
<1>2. Sums!IsFiniteSet(S)
  BY DuelAssumption, FS_RemoveElement, SumFinite DEF DuelAssumption
<1>3. \A n \in S : g[n] = f[n]
  OBVIOUS
<1> HIDE DEF S
<1>4. SumFunctionOnSet(g, S) = SumFunctionOnSet(f, S)
  BY <1>2, <1>3, SumIs, Sums!SetFoldSame
<1>5. /\ SumFunctionOnSet(f, S) \in Int
      /\ SumFunctionOnSet(f, S \cup {m}) = f[m] + SumFunctionOnSet(f, S)
      /\ SumFunctionOnSet(g, S \cup {m}) = g[m] + SumFunctionOnSet(g, S)
  BY <1>1, SumAdd
<1>6. f[m] \in Int /\ g[m] \in Int
  OBVIOUS
<1> DEFINE a == SumFunctionOnSet(f, S)
<1>7. /\ a \in Int /\ SumFunctionOnSet(f, Duels) = f[m] + a
      /\ SumFunctionOnSet(g, Duels) = g[m] + a
  BY <1>1, <1>4, <1>5
<1> HIDE DEF a
<1> QED
  BY <1>6, <1>7

(* The amounts of the pools are whole numbers. *)
LEMMA Paid ==
    ASSUME NEW p \in [Duels -> Nat]
    PROVE  [m \in Duels |-> p[m] * PoolGems[m]] \in [Duels -> Int]
<1>1. ASSUME NEW m \in Duels PROVE p[m] * PoolGems[m] \in Int
  <2>1. p[m] \in Nat /\ PoolGems[m] \in Nat
    BY Bounds
  <2> QED
    BY <2>1
<1> QED
  BY <1>1

-----------------------------------------------------------------------------
(* The gems *)

(* A step that opens no duel and credits no pool keeps the account. *)
LEMMA SameGems ==
    ASSUME GemsAddUp, gems' = gems, pools' = pools,
           \A m \in Duels : match'[m].status # "absent" <=> match[m].status # "absent"
    PROVE  GemsAddUp'
<1>1. Created' = Created
  BY DEF Created
<1> QED
  BY <1>1 DEF GemsAddUp

LEMMA GemsInit == Init => GemsAddUp
<1> SUFFICES ASSUME Init PROVE GemsAddUp
  OBVIOUS
<1>1. Created = {}
  BY DEF Init, Absent, Created
<1> DEFINE f == [m \in Duels |-> pools[m] * PoolGems[m]]
           zero == [m \in Duels |-> 0]
<1>2. f = zero
  <2>1. ASSUME NEW m \in Duels PROVE pools[m] * PoolGems[m] = 0
    <3>1. pools[m] = 0 /\ PoolGems[m] \in Nat
      BY Bounds DEF Init
    <3> QED
      BY <3>1
  <2> QED
    BY <2>1
<1>3. SumFunctionOnSet(zero, Duels) = 0
  <2>1. \A x \in Duels : zero[x] \in {0}
    OBVIOUS
  <2>2. 0 \in {0} /\ \A a \in {0}, b \in {0} : a + b \in {0}
    OBVIOUS
  <2>3. Sums!IsFiniteSet(Duels)
    BY DuelAssumption, SumFinite DEF DuelAssumption
  <2> HIDE DEF zero
  <2>4. Sums!SetFold(0, zero, Duels) \in {0}
    BY <2>1, <2>2, <2>3, Sums!SetFoldType
  <2> QED
    BY <2>4, SumIs
<1>4. SumFunctionOnSet(EntryGems, {}) = 0
  <2>1. EntryGems \in [Duels -> Int]
    BY Bounds
  <2> QED
    BY <2>1, SumAdd
<1>5. gems = StartGems /\ StartGems \in Int
  BY DuelAssumption DEF Init, DuelAssumption
<1> HIDE DEF f, zero
<1>6. gems = StartGems - SumFunctionOnSet(EntryGems, Created) + SumFunctionOnSet(f, Duels)
  BY <1>1, <1>2, <1>3, <1>4, <1>5
<1> QED
  BY <1>6 DEF GemsAddUp, f

(* Opening a duel debits its entry, and the duel was not open before. *)
LEMMA CreateGems ==
    ASSUME DuelInv, GemsAddUp, NEW m \in Duels, Create(m)
    PROVE  GemsAddUp'
<1>1. /\ match[m].status = "absent" /\ match[m] \in Match /\ match \in [Duels -> Match]
      /\ match' = [match EXCEPT ![m].status = "in_progress"]
      /\ gems' = gems - EntryGems[m] /\ pools' = pools
  BY DEF Create, DuelInv, TablesInv
<1>2. match'[m].status = "in_progress" /\ \A n \in Duels \ {m} : match'[n] = match[n]
  BY <1>1 DEF Match
<1>3. Created' = Created \cup {m} /\ m \in Duels \ Created /\ Created \in SUBSET Duels
  BY <1>1, <1>2 DEF Created
<1> DEFINE f == [n \in Duels |-> pools[n] * PoolGems[n]]
           paid == SumFunctionOnSet(f, Duels)
           C == Created
<1>4. f' = f
  BY <1>1
<1>5. paid \in Int
  <2>1. f \in [Duels -> Int]
    BY Paid DEF DuelInv, TablesInv
  <2> QED
    BY <2>1, SumAdd
<1>6. /\ SumFunctionOnSet(EntryGems, C) \in Int
      /\ SumFunctionOnSet(EntryGems, C \cup {m}) =
           EntryGems[m] + SumFunctionOnSet(EntryGems, C)
  <2>1. EntryGems \in [Duels -> Int]
    BY Bounds
  <2> QED
    BY <1>3, <2>1, SumAdd
<1>7. EntryGems[m] \in Int /\ StartGems \in Int
  BY Bounds, DuelAssumption DEF DuelAssumption
<1>8. gems = StartGems - SumFunctionOnSet(EntryGems, C) + paid
  BY DEF GemsAddUp
<1> HIDE DEF f, paid, C
<1>9. gems - EntryGems[m] = StartGems - SumFunctionOnSet(EntryGems, C \cup {m}) + paid
  <2> DEFINE spent == SumFunctionOnSet(EntryGems, C)
  <2>1. spent \in Int /\ gems = StartGems - spent + paid
        /\ SumFunctionOnSet(EntryGems, C \cup {m}) = EntryGems[m] + spent
    BY <1>6, <1>8
  <2> HIDE DEF spent
  <2> QED
    BY <1>5, <1>7, <2>1
<1>10. gems' = StartGems - SumFunctionOnSet(EntryGems, Created')
                         + SumFunctionOnSet(f', Duels)
  <2>1. paid = SumFunctionOnSet(f', Duels) /\ Created' = C \cup {m}
    BY <1>3, <1>4 DEF paid, C
  <2> QED
    BY <1>1, <1>9, <2>1
<1> QED
  BY <1>10 DEF GemsAddUp, f

(* A commit that credits the pool is the first to do it. *)
LEMMA CommitGems ==
    ASSUME DuelInv, GemsAddUp, NEW t \in Reqs, Commit(t)
    PROVE  GemsAddUp'
<1> DEFINE d == tx[t].duel
<1>1. /\ d \in Duels /\ match[d].status # "absent" /\ TxOk(t)
      /\ pools' \in [Duels -> Nat]
      /\ \A n \in Duels \ {d} : match'[n] = match[n] /\ pools'[n] = pools[n]
      /\ match'[d].status \in {match[d].status, "completed"}
  BY CommitEffect DEF DuelInv, TxInv
<1>2. \A n \in Duels : match'[n].status # "absent" <=> match[n].status # "absent"
  BY <1>1
<1>3. CASE ~(tx[t].pc = "paid" /\ tx[t].credit)
  BY <1>2, <1>3, SameGems DEF Commit
<1>4. CASE tx[t].pc = "paid" /\ tx[t].credit
  <2>1. /\ gems' = gems + PoolGems[d] /\ pools' = [pools EXCEPT ![d] = @ + 1]
        /\ pools[d] = 0 /\ pools \in [Duels -> Nat]
    BY <1>1, <1>4 DEF Commit, WinCredit, TxOk, Credits, DuelInv, TablesInv
  <2>2. pools'[d] = 1
    BY <1>1, <2>1
  <2> DEFINE f == [n \in Duels |-> pools[n] * PoolGems[n]]
             g == [n \in Duels |-> pools'[n] * PoolGems[n]]
             paid == SumFunctionOnSet(f, Duels)
             spent == SumFunctionOnSet(EntryGems, Created)
             C == Created
  <2>3. f \in [Duels -> Int] /\ g \in [Duels -> Int]
    <3>1. f \in [Duels -> Int]
      BY <2>1, Paid
    <3>2. g \in [Duels -> Int]
      BY <1>1, Paid
    <3> QED
      BY <3>1, <3>2
  <2>4. \A n \in Duels \ {d} : g[n] = f[n]
    BY <1>1
  <2>5. PoolGems[d] \in Nat
    BY <1>1, Bounds
  <2>6. f[d] = 0 /\ g[d] = PoolGems[d]
    <3>1. f[d] = pools[d] * PoolGems[d] /\ g[d] = pools'[d] * PoolGems[d]
      BY <1>1
    <3> HIDE DEF f, g, d
    <3>2. 0 * PoolGems[d] = 0 /\ 1 * PoolGems[d] = PoolGems[d]
      BY <2>5
    <3> QED
      BY <2>1, <2>2, <3>1, <3>2
  <2>7. Created' = Created
    BY <1>2 DEF Created
  <2>8. paid \in Int /\ spent \in Int /\ StartGems \in Int
    <3>1. EntryGems \in [Duels -> Int] /\ Created \in SUBSET Duels /\ Duels \in SUBSET Duels
      BY Bounds DEF Created
    <3>2. paid \in Int
      BY <2>3, <3>1, SumAdd
    <3>3. spent \in Int
      BY <3>1, SumAdd
    <3> QED
      BY <3>2, <3>3, DuelAssumption DEF DuelAssumption
  <2>9. gems = StartGems - spent + paid
    BY DEF GemsAddUp
  <2> HIDE DEF f, g, d
  <2>10. SumFunctionOnSet(g, Duels) = paid + PoolGems[d]
    <3>1. SumFunctionOnSet(g, Duels) = paid + g[d] - f[d]
      BY <1>1, <2>3, <2>4, SumChange
    <3> HIDE DEF paid
    <3> QED
      BY <2>5, <2>6, <2>8, <3>1
  <2>11. gems' = StartGems - spent + SumFunctionOnSet(g, Duels)
    <3> HIDE DEF paid, spent
    <3> QED
      BY <2>1, <2>5, <2>8, <2>9, <2>10
  <2>12. spent = SumFunctionOnSet(EntryGems, Created')
    BY <2>7
  <2> HIDE DEF spent
  <2> QED
    BY <2>11, <2>12 DEF GemsAddUp, g
<1> QED
  BY <1>3, <1>4

LEMMA GemsStep ==
    ASSUME DuelInv, GemsAddUp, [Next]_vars
    PROVE  GemsAddUp'
<1>1. ASSUME NEW m \in Duels, Create(m) PROVE GemsAddUp'
  BY <1>1, CreateGems
<1>2. ASSUME NEW t \in Reqs, Commit(t) PROVE GemsAddUp'
  BY <1>2, CommitGems
<1>3. ASSUME NEW t \in Jobs, CommitCleanup(t) PROVE GemsAddUp'
  <2>1. \A m \in Duels : match'[m].status # "absent" <=> match[m].status # "absent"
    BY <1>3, CleanupEffect
  <2> QED
    BY <1>3, <2>1, SameGems DEF CommitCleanup
<1>4. CASE UNCHANGED <<match, gems, pools>>
  BY <1>4, SameGems
<1>5. \/ \E t \in Reqs : Commit(t)
      \/ \E t \in Jobs : CommitCleanup(t)
      \/ \E m \in Duels : Create(m)
      \/ UNCHANGED <<match, gems, pools>>
  BY DEF Next, vars, tables, Submit, Expire, OpenMatch, PlayRound, PayOut, Scan,
     LoadStats, GiveUp
<1> QED
  BY <1>1, <1>2, <1>3, <1>4, <1>5

-----------------------------------------------------------------------------
(* The types *)

LEMMA TypeParts ==
    ASSUME DuelInv', gems' \in Nat, stats' \in Stats, tx' \in [Txs -> Tx]
    PROVE  TypeOK'
BY DEF TypeOK, DuelInv, TablesInv, ExpiredInv

(* A transaction of each kind. *)
LEMMA TxKinds ==
    ASSUME NEW x \in Tx
    PROVE  /\ x.pc = "opened" => x \in [pc : {"opened"}, duel : Duels, read : Match]
           /\ x.pc = "played" =>
                x \in [pc : {"played"}, duel : Duels, read : Match, row : Round, new : Match]
           /\ x.pc = "paid" =>
                x \in [pc : {"paid"}, duel : Duels, read : Match, row : Round, new : Match,
                       credit : BOOLEAN, stats : Stats]
           /\ x.pc = "scanned" =>
                x \in [pc : {"scanned"}, duels : SUBSET Duels, read : [Duels -> Match]]
           /\ x.pc = "counted" =>
                x \in [pc : {"counted"}, duels : SUBSET Duels, read : [Duels -> Match],
                       stats : Stats]
BY DEF Tx, Idle

(* The statistics after an UPDATE, a win or some losses. *)
LEMMA UpdateStats ==
    ASSUME NEW row \in Stats, NEW read \in Stats, NEW new \in Stats
    PROVE  Update(row, read, new) \in Stats
<1>1. DOMAIN row = {"wins", "losses", "streak", "best"}
  BY DEF Stats
<1> DEFINE u == Update(row, read, new)
<1>2. u = [f \in {"wins", "losses", "streak", "best"} |->
             IF new[f] # read[f] THEN new[f] ELSE row[f]]
  BY <1>1 DEF Update
<1>3. /\ u.wins \in Nat /\ u.losses \in Nat /\ u.streak \in Nat /\ u.best \in Nat
  BY <1>2 DEF Stats
<1>4. u = [wins |-> u.wins, losses |-> u.losses, streak |-> u.streak, best |-> u.best]
  BY <1>2
<1> HIDE DEF u
<1>5. u \in Stats
  BY <1>3, <1>4 DEF Stats
<1> QED
  BY <1>5 DEF u

LEMMA StatsMove ==
    ASSUME NEW s \in Stats, NEW n \in Nat
    PROVE  Won(s) \in Stats /\ Lost(s, n) \in Stats
<1>1. /\ s.wins \in Nat /\ s.losses \in Nat /\ s.streak \in Nat /\ s.best \in Nat
      /\ DOMAIN s = {"wins", "losses", "streak", "best"}
  BY DEF Stats
<1>2. ASSUME NEW r, r = [f \in {"wins", "losses", "streak", "best"} |-> r[f]],
             r.wins \in Nat, r.losses \in Nat, r.streak \in Nat, r.best \in Nat
      PROVE  r \in Stats
  <2>1. r = [wins |-> r.wins, losses |-> r.losses, streak |-> r.streak, best |-> r.best]
    BY <1>2
  <2> QED
    BY <1>2, <2>1 DEF Stats
<1>3. Won(s) \in Stats
  <2> DEFINE r == Won(s)
  <2>1. /\ r = [f \in {"wins", "losses", "streak", "best"} |-> r[f]]
        /\ r.wins = s.wins + 1 /\ r.losses = s.losses /\ r.streak = s.streak + 1
        /\ r.best \in {s.best, s.streak + 1}
    BY <1>1 DEF Won
  <2> HIDE DEF r
  <2>2. r \in Stats
    BY <1>1, <1>2, <2>1
  <2> QED
    BY <2>2 DEF r
<1>4. Lost(s, n) \in Stats
  <2> DEFINE r == Lost(s, n)
  <2>1. /\ r = [f \in {"wins", "losses", "streak", "best"} |-> r[f]]
        /\ r.wins = s.wins /\ r.losses = s.losses + n /\ r.streak \in {0, s.streak}
        /\ r.best = s.best
    BY <1>1 DEF Lost
  <2> HIDE DEF r
  <2>2. r \in Stats
    BY <1>1, <1>2, <2>1
  <2> QED
    BY <2>2 DEF r
<1> QED
  BY <1>3, <1>4

LEMMA TypesInit == Init => TypeOK
<1> SUFFICES ASSUME Init PROVE TypeOK
  OBVIOUS
<1>1. DuelInv /\ StartGems \in Nat
  BY InitDuel, DuelAssumption DEF DuelAssumption
<1>2. stats \in Stats /\ gems \in Nat /\ tx \in [Txs -> Tx]
  BY <1>1 DEF Init, Stats, Tx
<1> QED
  BY <1>1, <1>2 DEF TypeOK, DuelInv, TablesInv, ExpiredInv

(* A transaction that moves has its type. *)
LEMMA TxMoves ==
    ASSUME DuelInv', TypeOK, NEW t \in Txs, NEW q \in Tx, tx' = [tx EXCEPT ![t] = q],
           gems' \in Nat, stats' \in Stats
    PROVE  TypeOK'
<1>1. tx' \in [Txs -> Tx]
  BY DEF TypeOK
<1> QED
  BY <1>1, TypeParts

LEMMA TypesStep ==
    ASSUME TypeOK, DuelInv, DuelInv', [Next]_vars
    PROVE  TypeOK'
<1>0. /\ gems \in Nat /\ stats \in Stats /\ tx \in [Txs -> Tx] /\ match \in [Duels -> Match]
      /\ Idle \in Tx
  BY DEF TypeOK, Tx
<1>1. ASSUME NEW m \in Duels, Create(m) PROVE TypeOK'
  <2>1. gems' = gems - EntryGems[m] /\ gems >= EntryGems[m] /\ stats' = stats /\ tx' = tx
    BY <1>1 DEF Create
  <2>2. gems' \in Nat
    BY <1>0, <2>1, Bounds
  <2> QED
    BY <1>0, <2>1, <2>2, TypeParts
<1>2. ASSUME NEW t \in Reqs, NEW m \in Duels, OpenMatch(t, m) PROVE TypeOK'
  <2> DEFINE q == [pc |-> "opened", duel |-> m, read |-> match[m]]
  <2>1. q \in Tx
    BY <1>0 DEF Tx
  <2>2. tx' = [tx EXCEPT ![t] = q] /\ gems' = gems /\ stats' = stats /\ t \in Txs
    BY <1>2 DEF OpenMatch, tables, Txs
  <2> HIDE DEF q
  <2> QED
    BY <1>0, <2>1, <2>2, TxMoves
<1>3. ASSUME NEW t \in Reqs, PlayRound(t) PROVE TypeOK'
  <2>1. PICK row, new :
          tx' = [tx EXCEPT ![t] = [pc |-> "played", duel |-> tx[t].duel, read |-> tx[t].read,
                                   row |-> row, new |-> new]]
    BY <1>3 DEF PlayRound
  <2> DEFINE q == [pc |-> "played", duel |-> tx[t].duel, read |-> tx[t].read,
                   row |-> row, new |-> new]
  <2>2. tx' = [tx EXCEPT ![t] = q] /\ gems' = gems /\ stats' = stats /\ t \in Txs
    BY <1>3, <2>1 DEF PlayRound, tables, Txs
  <2>3. tx'[t] = q
    BY <1>0, <2>2
  <2>4. TxOk(t)' /\ tx'[t].pc = "played" /\ tx'[t].duel = tx[t].duel
        /\ tx'[t].read = tx[t].read /\ tx'[t].row = row /\ tx'[t].new = new
    BY <2>2, <2>3 DEF DuelInv, TxInv
  <2>5. tx[t].duel \in Duels /\ tx[t].read \in Match /\ row \in Round /\ new \in Match
    BY <2>4 DEF TxOk, Loaded, RoundHeld, Written
  <2>6. q \in Tx
    BY <2>5 DEF Tx
  <2> HIDE DEF q
  <2> QED
    BY <1>0, <2>2, <2>6, TxMoves
<1>4. ASSUME NEW t \in Reqs, PayOut(t) PROVE TypeOK'
  <2> DEFINE p == tx[t]
             due == PoolDue(p.duel, p.new.winner)
             q == [pc |-> "paid", duel |-> p.duel, read |-> p.read, row |-> p.row,
                   new |-> p.new, credit |-> due, stats |-> stats]
  <2>1. /\ tx' = [tx EXCEPT ![t] = q] /\ gems' = gems /\ stats' = stats /\ t \in Txs
        /\ p.pc = "played"
    BY <1>4 DEF PayOut, tables, Txs
  <2>2. /\ p.duel \in Duels /\ p.read \in Match /\ p.row \in Round /\ p.new \in Match
    BY <1>0, <2>1, TxKinds
  <2>3. due \in BOOLEAN
    BY DEF PoolDue
  <2> HIDE DEF due, p
  <2>4. q \in Tx
    BY <1>0, <2>2, <2>3 DEF Tx
  <2> HIDE DEF q
  <2> QED
    BY <1>0, <2>1, <2>4, TxMoves
<1>5. ASSUME NEW t \in Reqs, Commit(t) PROVE TypeOK'
  <2> DEFINE p == tx[t]
             m == p.duel
  <2>1. /\ tx' = [tx EXCEPT ![t] = Idle] /\ t \in Txs /\ p.pc \in {"played", "paid"}
        /\ gems' \in {gems, gems + PoolGems[m]}
    BY <1>5 DEF Commit, WinCredit, Txs
  <2>2. m \in Duels
    BY <1>5, CommitEffect
  <2>3. gems' \in Nat
    <3>1. PoolGems[m] \in Nat
      BY <2>2, Bounds
    <3> QED
      BY <1>0, <2>1, <3>1
  <2>4. stats' \in Stats
    <3>1. CASE p.pc = "played" \/ EntryGems[m] = 0
      BY <1>0, <1>5, <3>1 DEF Commit
    <3>2. CASE ~(p.pc = "played" \/ EntryGems[m] = 0)
      <4> DEFINE new == IF p.new.winner = "user" THEN Won(p.stats) ELSE Lost(p.stats, 1)
      <4>1. p.stats \in Stats
        BY <1>0, <2>1, <3>2, TxKinds
      <4>2. new \in Stats
        BY <4>1, StatsMove
      <4>3. stats' = Update(stats, p.stats, new)
        BY <1>5, <3>2 DEF Commit
      <4> HIDE DEF new, p
      <4> QED
        BY <1>0, <4>1, <4>2, <4>3, UpdateStats
    <3> QED
      BY <3>1, <3>2
  <2> QED
    BY <1>0, <2>1, <2>3, <2>4, TxMoves
<1>6. ASSUME NEW t \in Jobs, Scan(t) PROVE TypeOK'
  <2> DEFINE q == [pc |-> "scanned", duels |-> Unfinished, read |-> match]
  <2>1. Unfinished \in SUBSET Duels
    BY DEF Unfinished, TypeOK
  <2>2. q \in Tx
    BY <1>0, <2>1 DEF Tx
  <2>3. tx' = [tx EXCEPT ![t] = q] /\ gems' = gems /\ stats' = stats /\ t \in Txs
    BY <1>6 DEF Scan, tables, Txs
  <2> HIDE DEF q
  <2> QED
    BY <1>0, <2>2, <2>3, TxMoves
<1>7. ASSUME NEW t \in Jobs, LoadStats(t) PROVE TypeOK'
  <2> DEFINE q == [pc |-> "counted", duels |-> tx[t].duels, read |-> tx[t].read,
                   stats |-> stats]
  <2>1. /\ tx' = [tx EXCEPT ![t] = q] /\ gems' = gems /\ stats' = stats /\ t \in Txs
        /\ tx[t].pc = "scanned"
    BY <1>7 DEF LoadStats, tables, Txs
  <2>2. tx[t].duels \in SUBSET Duels /\ tx[t].read \in [Duels -> Match]
    BY <1>0, <2>1, TxKinds
  <2>3. q \in Tx
    BY <1>0, <2>2 DEF Tx
  <2> HIDE DEF q
  <2> QED
    BY <1>0, <2>1, <2>3, TxMoves
<1>8. ASSUME NEW t \in Jobs, CommitCleanup(t) PROVE TypeOK'
  <2> DEFINE p == tx[t]
             staked == {m \in p.duels : EntryGems[m] > 0}
             lost == Cardinality(staked)
  <2>1. /\ tx' = [tx EXCEPT ![t] = Idle] /\ t \in Txs /\ p.pc = "counted" /\ gems' = gems
        /\ stats' = Update(stats, p.stats, Lost(p.stats, lost))
    BY <1>8 DEF CommitCleanup, Txs
  <2>2. p.duels \in SUBSET Duels /\ p.stats \in Stats
    BY <1>0, <2>1, TxKinds
  <2>3. IsFiniteSet(Duels) /\ staked \in SUBSET Duels
    BY <2>2, DuelAssumption DEF DuelAssumption
  <2> HIDE DEF staked
  <2>4. lost \in Nat
    BY <2>3, FS_Subset, FS_CardinalityType
  <2> HIDE DEF lost, p
  <2>5. Lost(p.stats, lost) \in Stats
    BY <2>2, <2>4, StatsMove
  <2>6. stats' \in Stats
    BY <1>0, <2>1, <2>2, <2>5, UpdateStats
  <2> QED
    BY <1>0, <2>1, <2>6, TxMoves
<1>9. ASSUME NEW t \in Txs, GiveUp(t) PROVE TypeOK'
  <2>1. tx' = [tx EXCEPT ![t] = Idle] /\ gems' = gems /\ stats' = stats
    BY <1>9 DEF GiveUp, tables
  <2> QED
    BY <1>0, <2>1, TxMoves
<1>10. CASE UNCHANGED <<gems, stats, tx>>
  BY <1>0, <1>10, TypeParts
<1> QED
  BY <1>1, <1>2, <1>3, <1>4, <1>5, <1>6, <1>7, <1>8, <1>9, <1>10
     DEF Next, vars, tables, Submit, Expire

-----------------------------------------------------------------------------
(* Theorems *)

(* However many submits finalize a match they all loaded in progress, and whenever the *)
(* clean-up writes it too: its pool is credited at most once, for a match that ended, *)
(* and a gem duel that says the player won was paid (finalize_duel, gem_ledger.py). *)
THEOREM DuelWinsPaidOnce == Spec => []WinsPaidOnce
<1>1. DuelInv => WinsPaidOnce
  BY DEF DuelInv
<1> QED
  BY <1>1, DuelAlways, PTL

(* The rounds recorded by overlapping submits are 0, 1, 2, ... (submit_duel_round). *)
THEOREM DuelRoundsInOrder == Spec => []RoundsInOrder
<1>1. DuelInv => RoundsInOrder
  BY DEF DuelInv
<1> QED
  BY <1>1, DuelAlways, PTL

(* A duel without questions left has ended, though its counters may be stale *)
(* (match_decision and final_tiebreak). *)
THEOREM DuelNeverHangs == Spec => []NeverHangs
<1>1. DuelInv => NeverHangs
  BY DEF DuelInv
<1> QED
  BY <1>1, DuelAlways, PTL

(* A transaction that loaded a match before it ended never opens it again, and no *)
(* recorded round is changed or lost (the UPDATE of changed columns only). *)
THEOREM DuelNeverReopened == Spec => NeverReopened
<1>1. ASSUME DuelInv, [Next]_vars, NEW m \in Duels
      PROVE  (Ended(m) => Ended(m)') /\ IsPrefix(rounds[m], rounds[m]')
  <2>1. rounds[m] \in Seq(Round)
    BY <1>1 DEF DuelInv, TablesInv
  <2>2. IsPrefix(rounds[m], rounds[m])
    BY <2>1 DEF IsPrefix
  <2>3. ASSUME NEW t \in Reqs, Commit(t)
        PROVE  (Ended(m) => Ended(m)') /\ IsPrefix(rounds[m], rounds[m]')
    <3> DEFINE d == tx[t].duel
               row == tx[t].row
    <3>1. /\ \A n \in Duels \ {d} : match'[n] = match[n] /\ rounds'[n] = rounds[n]
          /\ rounds'[d] = Append(rounds[d], row)
          /\ match'[d].status \in {match[d].status, "completed"}
      BY <1>1, <2>3, CommitEffect
    <3>2. CASE m # d
      BY <2>2, <3>1, <3>2 DEF Ended
    <3>3. CASE m = d
      <4>1. row \in Round
        BY <1>1, <2>3 DEF DuelInv, TxInv, TxOk, Commit, RoundHeld, Txs
      <4> HIDE DEF row, d
      <4>2. IsPrefix(rounds[m], Append(rounds[m], row))
        BY <2>1, <4>1 DEF IsPrefix
      <4> QED
        BY <3>1, <3>3, <4>2 DEF Ended
    <3> QED
      BY <3>2, <3>3
  <2>4. ASSUME NEW t \in Jobs, CommitCleanup(t)
        PROVE  (Ended(m) => Ended(m)') /\ IsPrefix(rounds[m], rounds[m]')
    BY <1>1, <2>2, <2>4, CleanupEffect DEF Ended
  <2>5. ASSUME NEW n \in Duels, Create(n)
        PROVE  (Ended(m) => Ended(m)') /\ IsPrefix(rounds[m], rounds[m]')
    BY <1>1, <2>2, <2>5 DEF Create, Ended, DuelInv, TablesInv
  <2>6. CASE UNCHANGED <<match, rounds>>
    BY <2>2, <2>6 DEF Ended
  <2>7. \/ \E t \in Reqs : Commit(t)
        \/ \E t \in Jobs : CommitCleanup(t)
        \/ \E n \in Duels : Create(n)
        \/ UNCHANGED <<match, rounds>>
    BY <1>1 DEF Next, vars, tables, Submit, Expire, OpenMatch, PlayRound, PayOut, Scan,
       LoadStats, GiveUp
  <2> QED
    BY <2>3, <2>4, <2>5, <2>6, <2>7
<1>2. DuelInv /\ [Next]_vars =>
        [\A m \in Duels :
           /\ Ended(m) => Ended(m)'
           /\ IsPrefix(rounds[m], rounds[m]')]_vars
  BY <1>1
<1> QED
  BY <1>2, DuelAlways, PTL DEF Spec, NeverReopened

(* The tables, the gems, the statistics and what the transactions hold have their *)
(* types; the gems and the counts never go below zero (create_duel's check of the *)
(* balance under the profile lock). *)
THEOREM DuelTypes == Spec => []TypeOK
<1>1. Init => TypeOK
  BY TypesInit
<1>2. TypeOK /\ DuelInv /\ DuelInv' /\ [Next]_vars => TypeOK'
  BY TypesStep
<1> QED
  BY <1>1, <1>2, DuelAlways, PTL DEF Spec

(* The gems are the first ones, less every entry and with every pool that was paid, *)
(* for any number of matches (create_duel's debit, finalize_duel's credit). *)
THEOREM DuelGemsAddUp == Spec => []GemsAddUp
<1>1. Init => GemsAddUp
  BY GemsInit
<1>2. GemsAddUp /\ DuelInv /\ [Next]_vars => GemsAddUp'
  BY GemsStep
<1> QED
  BY <1>1, <1>2, DuelAlways, PTL DEF Spec
===============================================================================
