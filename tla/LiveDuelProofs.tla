----------------------------- MODULE LiveDuelProofs -----------------------------
(***************************************************************************)
(* Proofs, for any two players, rules and number of requests, that the row *)
(* of a friend duel agrees with the rounds that were played, whatever      *)
(* screens, sockets and the server's process do meanwhile, and that what a *)
(* screen shows was true.  The second stands on ScreenInv, one lemma per   *)
(* action; Past says what a step leaves of the rounds and the result, and  *)
(* the Stays lemmas carry a part of the invariant over a step that does    *)
(* not concern it.  That nobody is left waiting stands on two more:        *)
(* PlaceInv, where a screen is in its duel, and AskedInv, that a screen    *)
(* behind the duel has a result still to come.  The Effect lemmas say what *)
(* an action does to the screens, the sockets and the hub.                 *)
(***************************************************************************)
EXTENDS LiveDuel, FiniteSetTheorems, TLAPS

Outcomes == Sides \cup {"nobody"}

TablesTyped ==
  /\ duel \in [status : {"pending", "active"} \cup Ended, round : Nat,
               wins : [Sides -> Nat], winner : Sides \cup {"none"}]
  /\ rounds \in Seq(Outcomes)
  /\ record \in [Sides -> [won : Nat, lost : Nat]]
  /\ accepts \in Nat

\* Nothing is played before the accept, and after one accept no decided match is active:
\* the reason why a match is booked once.
Undecided ==
  /\ accepts = 0 => duel.status # "active" /\ rounds = <<>> /\ duel.winner = "none"
  /\ accepts <= 1 /\ duel.status = "active" => duel.winner = "none"

LiveInv == TablesTyped /\ Undecided /\ RoundsAgree

-------------------------------------------------------------------------------
LEMMA TwoSides ==
  /\ Challenger # Opponent /\ "none" \notin Sides
  /\ \A s \in Sides : Other(s) \in Sides /\ Other(s) # s
  /\ \A s, p \in Sides : p = s \/ p = Other(s)
BY LiveDuelAssumption DEF LiveDuelAssumption, Sides, Other

\* How often p won in the rounds q.
Count(q, p) == Cardinality({n \in DOMAIN q : q[n] = p})

LEMMA CountAppend ==
  ASSUME NEW S, NEW q \in Seq(S), NEW o \in S, NEW p
  PROVE  /\ Count(q, p) \in Nat
         /\ Count(Append(q, o), p) = Count(q, p) + IF o = p THEN 1 ELSE 0
<1> DEFINE A == {n \in DOMAIN q : q[n] = p}
           B == {n \in DOMAIN Append(q, o) : Append(q, o)[n] = p}
<1>1. IsFiniteSet(A) /\ Len(q) \in Nat /\ Len(q) + 1 \notin A
  <2>1. DOMAIN q = 1..Len(q) /\ Len(q) \in Nat
    OBVIOUS
  <2>2. IsFiniteSet(1..Len(q))
    BY <2>1, FS_Interval
  <2>3. A \subseteq 1..Len(q)
    BY <2>1
  <2> QED
    BY <2>1, <2>2, <2>3, FS_Subset
<1>2. B = IF o = p THEN A \cup {Len(q) + 1} ELSE A
  OBVIOUS
<1> HIDE DEF A, B
<1>3. Cardinality(A) \in Nat /\ Cardinality(A \cup {Len(q) + 1}) = Cardinality(A) + 1
  BY <1>1, FS_CardinalityType, FS_AddElement
<1>4. Cardinality(A) \in Nat /\ Cardinality(B) = Cardinality(A) + IF o = p THEN 1 ELSE 0
  BY <1>2, <1>3
<1> QED
  BY <1>4 DEF A, B, Count

LEMMA InitLive == Init => LiveInv
<1> SUFFICES ASSUME Init PROVE LiveInv
  OBVIOUS
<1>1. TablesTyped
  BY DEF Init, TablesTyped, Ended
<1>2. Undecided
  BY DEF Init, Undecided
<1>3. RoundsAgree
  <2>1. rounds = <<>> /\ duel.round = 0 /\ Len(rounds) = 0
    BY DEF Init
  <2>2. \A s \in Sides : WinsOf(s) = 0
    BY <2>1, FS_EmptySet DEF WinsOf
  <2>3. duel.wins = [s \in Sides |-> 0] /\ duel.winner = "none"
    BY DEF Init
  <2>4. \A s \in Sides : duel.wins[s] = WinsOf(s)
    BY <2>2, <2>3
  <2>5. \A s \in Sides :
          record[s] = [won |-> IF duel.winner = s THEN 1 ELSE 0,
                       lost |-> IF duel.winner = Other(s) THEN 1 ELSE 0]
    BY <2>3, TwoSides DEF Init
  <2> QED
    BY <2>1, <2>4, <2>5 DEF RoundsAgree
<1> QED
  BY <1>1, <1>2, <1>3 DEF LiveInv

\* A step that writes no more of the row than its status.
LEMMA StatusKeeps ==
  ASSUME LiveInv, NEW status \in {"pending", "active"} \cup Ended,
         duel' = WithStatus(status), UNCHANGED <<answered, rounds, record>>,
         \/ accepts' = accepts + 1 /\ status = "active"
         \/ accepts' = accepts /\ status # "active"
  PROVE  LiveInv'
<1>1. /\ duel'.status = status /\ duel'.round = duel.round /\ duel'.wins = duel.wins
      /\ duel'.winner = duel.winner
  BY DEF WithStatus
<1>2. TablesTyped'
  BY DEF LiveInv, TablesTyped, WithStatus
<1>3. Undecided'
  BY <1>1 DEF LiveInv, TablesTyped, Undecided
<1>4. accepts \in Nat /\ (accepts' <= 1 => accepts <= 1)
  BY DEF LiveInv, TablesTyped
<1>5. RoundsAgree'
  BY <1>1, <1>4 DEF LiveInv, RoundsAgree, WinsOf
<1> QED
  BY <1>2, <1>3, <1>5 DEF LiveInv

\* A first answer of the round.
LEMMA WaitKeeps ==
  ASSUME LiveInv, NEW s, NEW i, AwaitsOther(s, i), UNCHANGED accepts
  PROVE  LiveInv'
<1>1. answered \subseteq answered' /\ UNCHANGED <<duel, rounds, record, accepts>>
  BY DEF AwaitsOther
<1>2. TablesTyped' /\ Undecided'
  BY <1>1 DEF LiveInv, TablesTyped, Undecided
<1>3. RoundsAgree'
  BY <1>1 DEF LiveInv, RoundsAgree, WinsOf
<1> QED
  BY <1>2, <1>3 DEF LiveInv

\* The answer that resolves the round.
LEMMA ResolveKeeps ==
  ASSUME LiveInv, NEW s \in Sides, NEW i, NEW outcome \in Outcomes,
         NEW winner \in Sides \cup {"none"},
         Accepts(i), Resolves(s, i, outcome, winner), UNCHANGED accepts
  PROVE  LiveInv'
<1> DEFINE wins == [p \in Sides |-> duel.wins[p] + IF p = outcome THEN 1 ELSE 0]
<1>1. /\ duel.status = "active" /\ i = duel.round /\ i = Len(rounds) /\ i \in Nat
      /\ rounds \in Seq(Outcomes) /\ duel.wins \in [Sides -> Nat]
      /\ duel.winner \in Sides \cup {"none"} /\ accepts \in Nat
      /\ record \in [Sides -> [won : Nat, lost : Nat]]
  BY DEF Accepts, LiveInv, RoundsAgree, TablesTyped
<1>2. /\ <<i, Other(s)>> \in answered /\ answered' = answered \cup {<<i, s>>}
      /\ winner \in Decision(wins[Challenger], wins[Opponent], i + 1)
      /\ rounds' = Append(rounds, outcome)
      /\ duel' = [status |-> IF winner = "none" THEN "active" ELSE "completed",
                  round |-> i + 1, wins |-> wins,
                  winner |-> IF winner = "none" THEN duel.winner ELSE winner]
      /\ record' = Booked(winner)
  BY DEF Resolves
<1>3. wins \in [Sides -> Nat] /\ \A p \in Sides : wins[p] = WinsOf(p)'
  <2>1. ASSUME NEW p \in Sides
        PROVE  duel.wins[p] + (IF p = outcome THEN 1 ELSE 0) = WinsOf(p)'
    <3>1. duel.wins[p] = WinsOf(p)
      BY DEF LiveInv, RoundsAgree
    <3>2. WinsOf(p)' = WinsOf(p) + IF outcome = p THEN 1 ELSE 0
      <4>1. Count(Append(rounds, outcome), p) =
              Count(rounds, p) + IF outcome = p THEN 1 ELSE 0
        BY <1>1, CountAppend
      <4>2. rounds' = Append(rounds, outcome)
        BY <1>2
      <4> QED
        BY <4>1, <4>2 DEF WinsOf, Count
    <3> QED
      BY <3>1, <3>2
  <2> QED
    BY <1>1, <2>1
<1> HIDE DEF wins
<1>4. /\ duel'.status = IF winner = "none" THEN "active" ELSE "completed"
      /\ duel'.round = i + 1 /\ duel'.wins = wins
      /\ duel'.winner = IF winner = "none" THEN duel.winner ELSE winner
  BY <1>2
<1>5. rounds' \in Seq(Outcomes) /\ Len(rounds') = i + 1
  BY <1>1, <1>2
<1>6. record' \in [Sides -> [won : Nat, lost : Nat]]
  BY <1>1, <1>2, SMTT(40) DEF Booked
<1>7. TablesTyped'
  <2>1. duel' \in [status : {"pending", "active"} \cup Ended, round : Nat,
                   wins : [Sides -> Nat], winner : Sides \cup {"none"}]
    <3> DEFINE status == IF winner = "none" THEN "active" ELSE "completed"
               decided == IF winner = "none" THEN duel.winner ELSE winner
    <3>1. /\ status \in {"pending", "active"} \cup Ended /\ decided \in Sides \cup {"none"}
          /\ i + 1 \in Nat /\ wins \in [Sides -> Nat]
      BY <1>1, <1>3 DEF Ended
    <3>2. duel' = [status |-> status, round |-> i + 1, wins |-> wins, winner |-> decided]
      BY <1>2
    <3> HIDE DEF status, decided
    <3> QED
      BY <3>1, <3>2
  <2> QED
    BY <1>1, <1>5, <1>6, <2>1 DEF TablesTyped
<1>8. accepts <= 1 => accepts = 1 /\ duel.winner = "none" /\ duel'.winner = winner
  BY <1>1, <1>4 DEF LiveInv, Undecided
<1>9. Undecided'
  BY <1>1, <1>4, <1>8 DEF Undecided
<1>10. \A k \in 0..Len(rounds') - 1 : {k} \X Sides \subseteq answered'
  <2>1. \A k \in 0..i - 1 : {k} \X Sides \subseteq answered'
    BY <1>1, <1>2 DEF LiveInv, RoundsAgree
  <2>2. {i} \X Sides \subseteq answered'
    BY <1>2, TwoSides, SMTT(40)
  <2>3. \A k \in 0..(i + 1) - 1 : k \in 0..i - 1 \/ k = i
    BY <1>1
  <2> QED
    BY <1>5, <2>1, <2>2, <2>3
<1>11. accepts <= 1 =>
         \A p \in Sides :
           record'[p] = [won |-> IF duel'.winner = p THEN 1 ELSE 0,
                         lost |-> IF duel'.winner = Other(p) THEN 1 ELSE 0]
  <2> SUFFICES ASSUME accepts <= 1, NEW p \in Sides
               PROVE  record'[p] = [won |-> IF winner = p THEN 1 ELSE 0,
                                    lost |-> IF winner = Other(p) THEN 1 ELSE 0]
    BY <1>8
  <2>1. record[p] = [won |-> 0, lost |-> 0]
    BY <1>8, TwoSides DEF LiveInv, RoundsAgree
  <2>2. CASE winner = "none"
    <3>1. record'[p] = record[p]
      BY <1>2, <2>2 DEF Booked
    <3> QED
      BY <2>1, <2>2, <3>1, TwoSides
  <2>3. CASE winner # "none"
    <3>1. winner \in Sides /\ (winner = p \/ winner = Other(p)) /\ Other(p) # p
      BY <2>3, TwoSides
    <3>2. record'[p] = [won |-> record[p].won + IF p = winner THEN 1 ELSE 0,
                        lost |-> record[p].lost + IF p = winner THEN 0 ELSE 1]
      BY <1>2, <2>3 DEF Booked
    <3> QED
      BY <2>1, <3>1, <3>2
  <2> QED
    BY <2>2, <2>3
<1>12. accepts <= 1 =>
         duel'.winner \in Decision(WinsOf(Challenger)', WinsOf(Opponent)', Len(rounds'))
  BY <1>2, <1>3, <1>5, <1>8 DEF Sides
<1>13. RoundsAgree'
  <2>1. duel'.round = Len(rounds') /\ \A p \in Sides : duel'.wins[p] = WinsOf(p)'
    BY <1>3, <1>4, <1>5
  <2> QED
    BY <1>10, <1>11, <1>12, <2>1 DEF RoundsAgree, Decision
<1> QED
  BY <1>7, <1>9, <1>13 DEF LiveInv

\* The steps that touch the tables.
LEMMA TablesStep ==
  ASSUME [Next]_vars
  PROVE  \/ \E r \in Reqs : WriteVerdict(r)
         \/ WriteExpired
         \/ \E s \in Sides, c \in Sockets : Serve(s, c)
         \/ UNCHANGED <<tables, accepts>>
<1>1. ASSUME NEW r \in Reqs, NEW verb, ReadPending(r, verb)
      PROVE  UNCHANGED <<tables, accepts>>
  BY <1>1 DEF ReadPending
<1>2. CASE Lapse \/ ScanExpired \/ Restart
  BY <1>2, SMTT(40) DEF Lapse, ScanExpired, Restart
<1>3. ASSUME NEW s \in Sides,
             \/ Open(s) \/ SubmitAnswer(s) \/ Advance(s)
             \/ GoBack(s) \/ WalkAway(s) \/ Drop(s)
      PROVE  UNCHANGED <<tables, accepts>>
  BY <1>3 DEF Open, SubmitAnswer, Advance, GoBack, WalkAway, Exit, Drop, challenge
<1>4. ASSUME NEW s \in Sides, NEW c \in Sockets,
             \/ Join(s, c) \/ SendAck(s, c) \/ SendOwn(s, c) \/ SendOthers(s, c)
             \/ Disconnect(s, c)
      PROVE  UNCHANGED <<tables, accepts>>
  BY <1>4 DEF Join, SendAck, SendOwn, SendOthers, Disconnect, challenge
<1>5. CASE UNCHANGED vars
  BY <1>5 DEF vars, challenge
<1> QED
  BY <1>1, <1>2, <1>3, <1>4, <1>5 DEF Next, Handle

LEMMA LiveStep == LiveInv /\ [Next]_vars => LiveInv'
<1> SUFFICES ASSUME LiveInv, [Next]_vars PROVE LiveInv'
  OBVIOUS
<1>1. ASSUME NEW r \in Reqs, WriteVerdict(r) PROVE LiveInv'
  <2>1. CASE req[r] = "accept"
    BY <1>1, <2>1, StatusKeeps DEF WriteVerdict
  <2>2. CASE req[r] = "decline"
    BY <1>1, <2>2, StatusKeeps DEF WriteVerdict, Ended
  <2>3. CASE req[r] \notin {"accept", "decline"}
    BY <1>1, <2>3, StatusKeeps DEF WriteVerdict, Ended
  <2> QED
    BY <2>1, <2>2, <2>3
<1>2. CASE WriteExpired
  BY <1>2, StatusKeeps DEF WriteExpired, Ended
<1>3. ASSUME NEW s \in Sides, NEW c \in Sockets, Serve(s, c) PROVE LiveInv'
  <2> DEFINE i == Head(handler[s][c].up)
  <2>1. UNCHANGED accepts
    BY <1>3 DEF Serve, challenge
  <2>2. \/ UNCHANGED tables
        \/ AwaitsOther(s, i)
        \/ /\ Accepts(i)
           /\ \E outcome \in Outcomes, winner \in Sides \cup {"none"} :
                Resolves(s, i, outcome, winner)
    BY <1>3 DEF Serve, Outcomes
  <2> HIDE DEF i
  <2>3. CASE UNCHANGED tables
    BY <2>1, <2>3 DEF tables, LiveInv, TablesTyped, Undecided, RoundsAgree, WinsOf
  <2> QED
    BY <2>1, <2>2, <2>3, WaitKeeps, ResolveKeeps
<1>4. CASE UNCHANGED <<tables, accepts>>
  BY <1>4 DEF tables, LiveInv, TablesTyped, Undecided, RoundsAgree, WinsOf
<1> QED
  BY <1>1, <1>2, <1>3, <1>4, TablesStep

-------------------------------------------------------------------------------
(* What the screens show *)

Row == [status : {"pending", "active"} \cup Ended, round : Nat, wins : [Sides -> Nat],
        winner : Sides \cup {"none"}]
Phases == {"closed", "connecting", "lobby", "playing", "waiting", "reveal", "done", "error"}
Steps == {"none", "read", "serving", "ack", "own", "others"}
View == [phase : Phases, conn : Sockets \cup {NoSocket}, idx : Nat, mine : Nat, theirs : Nat,
         reveal : Int, over : BOOLEAN, won : BOOLEAN]
Result == [idx : Nat, wins : [Sides -> Nat], winner : Sides \cup {"none"}]
Desk == [pc : Steps, snap : Row \cup {<<>>}, up : Seq(Nat), res : Result \cup {<<>>}]

\* What p had won after n rounds.
Score(n, p) == Cardinality({k \in 1..n : rounds[k] = p})

SocketsTyped ==
  /\ client \in [Sides -> View] /\ handler \in [Sides -> [Sockets -> Desk]]
  /\ room \in [Sides -> Nat] /\ stale \in [Sides -> BOOLEAN]

\* What a handler has loaded was true of the row, and is still part of what was played.
SnapTrue(snap) ==
  /\ snap \in Row /\ snap.round <= Len(rounds)
  /\ \A p \in Sides : snap.wins[p] = Score(snap.round, p)
  /\ snap.status = "completed" /\ accepts <= 1 =>
       duel.winner # "none" /\ snap.winner = duel.winner

\* So was what it is about to send.
ResultTrue(res) ==
  /\ res \in Result /\ res.idx < Len(rounds)
  /\ \A p \in Sides : res.wins[p] = Score(res.idx + 1, p)
  /\ res.winner # "none" /\ accepts <= 1 => res.winner = duel.winner

HandlerTrue(s, c) ==
  /\ \A k \in DOMAIN handler[s][c].up : handler[s][c].up[k] <= Len(rounds)
  /\ handler[s][c].pc = "read" => SnapTrue(handler[s][c].snap)
  /\ handler[s][c].pc \in {"own", "others"} => ResultTrue(handler[s][c].res)

\* A registration is that of a handler that has joined, or of one that has ended.
RoomTrue(s) == room[s] \in Sockets => handler[s][room[s]].pc \notin {"none", "read"}

\* Nobody answers a round that has not begun, and a match that is over has a winner.
RowTrue ==
  /\ \A s \in Sides : \A i \in Nat : <<i, s>> \in answered => i <= Len(rounds)
  /\ duel.status = "completed" => duel.winner # "none"

\* The score on the screen was the score, and the question goes with it.
ViewTrue(s) ==
  /\ client[s].idx <= Len(rounds) /\ client[s].reveal + 1 \in 0..Len(rounds)
  /\ \E n \in 0..Len(rounds) :
       /\ client[s].mine = Score(n, s) /\ client[s].theirs = Score(n, Other(s))
       /\ \/ stale[s]
          \/ /\ client[s].idx \in {n - 1, n}
             /\ client[s].phase = "reveal" => n = client[s].reveal + 1
  /\ client[s].phase = "closed" =>
       /\ client[s].conn = NoSocket
       /\ client[s].idx = 0 /\ client[s].mine = 0 /\ client[s].theirs = 0

Connects(s) == client[s].conn \in Sockets /\ handler[s][client[s].conn].pc = "read"

Joined(s) ==
  client[s].conn \in Sockets /\ handler[s][client[s].conn].pc \notin {"none", "read"}

\* A result on the screen is the result, and a screen that connects has none.
ResultShown(s) ==
  /\ client[s].over \/ client[s].phase = "done" =>
       (accepts <= 1 => duel.winner # "none" /\ (client[s].won <=> duel.winner = s))
  /\ Connects(s) => ~client[s].over

\* Nothing that s has answered, or is answering, is ahead of round i.
Ahead(s, i) ==
  /\ \A c \in Sockets : \A k \in DOMAIN handler[s][c].up : handler[s][c].up[k] <= i
  /\ \A j \in Nat : <<j, s>> \in answered => j <= i

\* The player of a screen that has joined and was sent only what was up to date has
\* answered nothing beyond its question: a round the screen has not seen is not over.
Fresh(s) == Joined(s) /\ ~stale[s] => Ahead(s, client[s].idx)

SideInv(s) ==
  /\ RoomTrue(s) /\ ViewTrue(s) /\ ResultShown(s) /\ Fresh(s)
  /\ \A c \in Sockets : HandlerTrue(s, c)

ScreenInv == SocketsTyped /\ RowTrue /\ \A s \in Sides : SideInv(s)

LEMMA StateView ==
  ASSUME NEW v \in View, NEW round, NEW mine, NEW theirs, NEW won, NEW status, NEW online
  PROVE  LET w == Handled(v, [type |-> "state", status |-> status, round |-> round,
                              mine |-> mine, theirs |-> theirs, won |-> won,
                              online |-> online])
         IN /\ round \in Nat /\ mine \in Nat /\ theirs \in Nat /\ won \in BOOLEAN => w \in View
            /\ w.idx = round /\ w.mine = mine /\ w.theirs = theirs /\ w.won = won
            /\ w.conn = v.conn /\ w.reveal = v.reveal /\ w.over = v.over
            /\ w.phase \in {"done", "playing", "lobby"}
            /\ w.phase = "done" => status = "completed"
<1> DEFINE phase == IF status = "completed" THEN "done" ELSE IF online THEN "playing" ELSE "lobby"
           w == [v EXCEPT !.idx = round, !.mine = mine, !.theirs = theirs, !.won = won,
                          !.phase = phase]
<1>1. Handled(v, [type |-> "state", status |-> status, round |-> round,
                  mine |-> mine, theirs |-> theirs, won |-> won, online |-> online]) = w
  BY Zenon DEF Handled
<1>2. /\ phase \in Phases /\ phase \in {"done", "playing", "lobby"}
      /\ phase = "done" => status = "completed"
  BY DEF Phases
<1> HIDE DEF phase
<1>3. /\ w.idx = round /\ w.mine = mine /\ w.theirs = theirs /\ w.won = won
      /\ w.conn = v.conn /\ w.reveal = v.reveal /\ w.over = v.over /\ w.phase = phase
  BY Zenon DEF View
<1>4. round \in Nat /\ mine \in Nat /\ theirs \in Nat /\ won \in BOOLEAN => w \in View
  BY <1>2, Zenon DEF View
<1> HIDE DEF w
<1> QED
  BY <1>1, <1>2, <1>3, <1>4, Zenon

LEMMA PhaseView ==
  ASSUME NEW v \in View, NEW phase \in Phases
  PROVE  LET w == [v EXCEPT !.phase = phase]
         IN /\ w \in View /\ w.phase = phase /\ w.conn = v.conn /\ w.idx = v.idx
            /\ w.mine = v.mine /\ w.theirs = v.theirs /\ w.reveal = v.reveal
            /\ w.over = v.over /\ w.won = v.won
BY Zenon DEF View

LEMMA JoinedView ==
  ASSUME NEW v \in View
  PROVE  LET w == Handled(v, [type |-> "opponent_joined"])
         IN w = v \/ w = [v EXCEPT !.phase = "playing"]
BY Zenon DEF Handled

LEMMA AckView ==
  ASSUME NEW v \in View
  PROVE  Handled(v, [type |-> "answer_ack"]) = [v EXCEPT !.phase = "waiting"]
BY Zenon DEF Handled

LEMMA ResultView ==
  ASSUME NEW v \in View, NEW idx \in Nat, NEW mine \in Nat, NEW theirs \in Nat,
         NEW finished \in BOOLEAN, NEW won \in BOOLEAN
  PROVE  LET w == Handled(v, [type |-> "round_result", idx |-> idx, mine |-> mine,
                              theirs |-> theirs, finished |-> finished, won |-> won])
         IN /\ w \in View /\ w.phase = "reveal" /\ w.reveal = idx /\ w.mine = mine
            /\ w.theirs = theirs /\ w.idx = v.idx /\ w.conn = v.conn
            /\ w.over = finished /\ (finished => w.won = won)
<1> DEFINE bit == IF finished THEN won ELSE v.won
           w == [v EXCEPT !.phase = "reveal", !.reveal = idx, !.over = finished,
                   !.mine = mine, !.theirs = theirs, !.won = bit]
<1>1. Handled(v, [type |-> "round_result", idx |-> idx, mine |-> mine, theirs |-> theirs,
                  finished |-> finished, won |-> won]) = w
  BY Zenon DEF Handled
<1>2. idx \in Int /\ "reveal" \in Phases
  BY DEF Phases
<1>3. bit \in BOOLEAN /\ (finished => bit = won)
  BY Zenon DEF View
<1> HIDE DEF bit
<1>4. w \in View
  BY <1>2, <1>3, Zenon DEF View
<1>5. /\ w.phase = "reveal" /\ w.reveal = idx /\ w.mine = mine
      /\ w.theirs = theirs /\ w.idx = v.idx /\ w.conn = v.conn
      /\ w.over = finished /\ w.won = bit
  BY Zenon DEF View
<1> HIDE DEF w
<1> QED
  BY <1>1, <1>3, <1>4, <1>5, Zenon

LEMMA DeskFields ==
  ASSUME NEW h \in Desk, NEW pc \in Steps, NEW up \in Seq(Nat), NEW res \in Result \cup {<<>>}
  PROVE  /\ LET g == [h EXCEPT !.pc = pc, !.snap = <<>>]
            IN g \in Desk /\ g.pc = pc /\ g.up = h.up
         /\ LET g == [h EXCEPT !.up = up]
            IN g \in Desk /\ g.pc = h.pc /\ g.up = up /\ g.snap = h.snap /\ g.res = h.res
         /\ LET g == [h EXCEPT !.up = up, !.pc = pc, !.res = res]
            IN g \in Desk /\ g.pc = pc /\ g.up = up /\ g.res = res
         /\ LET g == [h EXCEPT !.pc = pc, !.res = <<>>]
            IN g \in Desk /\ g.pc = pc /\ g.up = h.up
         /\ LET g == [h EXCEPT !.pc = pc]
            IN g \in Desk /\ g.pc = pc /\ g.up = h.up /\ g.res = h.res
BY Zenon DEF Desk

LEMMA NoHandlerFields ==
  ASSUME NEW snap \in Row
  PROVE  /\ NoHandler \in Desk /\ NoHandler.pc = "none" /\ NoHandler.up = <<>>
         /\ LET g == [NoHandler EXCEPT !.pc = "read", !.snap = snap]
            IN g \in Desk /\ g.pc = "read" /\ g.snap = snap /\ g.up = <<>>
<1>0. "read" \in Steps
  BY DEF Steps
<1>1. NoHandler \in Desk /\ NoHandler.pc = "none" /\ NoHandler.up = <<>>
  BY DEF NoHandler, Desk, Steps
<1>2. LET g == [NoHandler EXCEPT !.pc = "read", !.snap = snap]
      IN g \in Desk /\ g.pc = "read" /\ g.snap = snap /\ g.up = <<>>
  BY <1>0, <1>1, Zenon DEF Desk
<1> QED
  BY <1>1, <1>2

LEMMA ClosedFields ==
  /\ Closed \in View /\ Closed.phase = "closed" /\ Closed.conn = NoSocket
  /\ Closed.idx = 0 /\ Closed.mine = 0 /\ Closed.theirs = 0 /\ Closed.reveal = -1
  /\ Closed.over = FALSE
BY DEF Closed, View, Phases

LEMMA ScoreZero == \A p : Score(0, p) = 0
<1>1. \A p : {k \in 1..0 : rounds[k] = p} = {}
  OBVIOUS
<1> QED
  BY <1>1, FS_EmptySet DEF Score

LEMMA ScoreAll ==
  ASSUME LiveInv, NEW p \in Sides
  PROVE  Score(Len(rounds), p) = duel.wins[p]
<1>1. DOMAIN rounds = 1..Len(rounds)
  BY DEF LiveInv, TablesTyped
<1>2. WinsOf(p) = Score(Len(rounds), p)
  BY <1>1 DEF WinsOf, Score
<1> QED
  BY <1>2 DEF LiveInv, RoundsAgree

\* What a step leaves of the past: rounds are only added, and a result stands as long as
\* the duel was not accepted again.
Past ==
  /\ Len(rounds) \in Nat /\ Len(rounds') \in Nat /\ Len(rounds) <= Len(rounds')
  /\ \A n \in 0..Len(rounds) : \A p : Score(n, p)' = Score(n, p)
  /\ accepts \in Nat /\ accepts' \in Nat /\ accepts <= accepts'
  /\ accepts' <= 1 /\ duel.winner # "none" => duel'.winner = duel.winner

LEMMA ScoreStays ==
  ASSUME rounds \in Seq(Outcomes), NEW o \in Outcomes,
         rounds' = Append(rounds, o) \/ rounds' = rounds
  PROVE  \A n \in 0..Len(rounds) : \A p : Score(n, p)' = Score(n, p)
<1> SUFFICES ASSUME NEW n \in 0..Len(rounds), NEW p
             PROVE  Score(n, p)' = Score(n, p)
  OBVIOUS
<1>1. \A k \in 1..n : rounds'[k] = rounds[k]
  OBVIOUS
<1>2. {k \in 1..n : rounds'[k] = p} = {k \in 1..n : rounds[k] = p}
  BY <1>1
<1> QED
  BY <1>2 DEF Score

LEMMA PastKept ==
  ASSUME LiveInv, [Next]_vars
  PROVE  Past
<1>1. /\ rounds \in Seq(Outcomes) /\ Len(rounds) \in Nat /\ accepts \in Nat
      /\ accepts <= 1 /\ duel.status = "active" => duel.winner = "none"
  BY DEF LiveInv, TablesTyped, Undecided
<1>2. CASE rounds' = rounds /\ accepts' \in {accepts, accepts + 1} /\ duel'.winner = duel.winner
  <2>1. \A n \in 0..Len(rounds) : \A p : Score(n, p)' = Score(n, p)
    BY <1>2 DEF Score
  <2> QED
    BY <1>1, <1>2, <2>1 DEF Past
<1>3. ASSUME NEW r \in Reqs, WriteVerdict(r) PROVE Past
  BY <1>2, <1>3 DEF WriteVerdict, WithStatus
<1>4. CASE WriteExpired
  BY <1>2, <1>4 DEF WriteExpired, WithStatus
<1>5. ASSUME NEW s \in Sides, NEW c \in Sockets, Serve(s, c) PROVE Past
  <2>1. UNCHANGED accepts
    BY <1>5 DEF Serve, challenge
  <2>2. CASE UNCHANGED <<duel, rounds>>
    BY <1>2, <2>1, <2>2
  <2>3. ASSUME NEW i, NEW outcome \in Outcomes, NEW winner,
               Accepts(i), Resolves(s, i, outcome, winner)
        PROVE  Past
    <3>1. rounds' = Append(rounds, outcome) /\ duel.status = "active"
      BY <2>3 DEF Resolves, Accepts
    <3>2. \A n \in 0..Len(rounds) : \A p : Score(n, p)' = Score(n, p)
      BY <1>1, <3>1, ScoreStays
    <3>3. Len(rounds') = Len(rounds) + 1
      BY <1>1, <3>1
    <3> QED
      BY <1>1, <2>1, <3>1, <3>2, <3>3 DEF Past
  <2> QED
    BY <1>5, <2>2, <2>3 DEF Serve, AwaitsOther, tables, Outcomes
<1>6. CASE UNCHANGED <<tables, accepts>>
  BY <1>2, <1>6 DEF tables
<1> QED
  BY <1>3, <1>4, <1>5, <1>6, TablesStep

-------------------------------------------------------------------------------
(* What a step may do to a part of the invariant without disturbing it *)

LEMMA BecomesEffect ==
  ASSUME SocketsTyped, NEW s \in Sides, NEW c \in Sockets, NEW h \in Desk, Becomes(s, c, h)
  PROVE  /\ handler' \in [Sides -> [Sockets -> Desk]] /\ handler'[s][c] = h
         /\ \A p \in Sides \ {s} : handler'[p] = handler[p]
         /\ \A p \in Sides, d \in Sockets : p # s \/ d # c => handler'[p][d] = handler[p][d]
<1>1. handler' = [handler EXCEPT ![s][c] = h] /\ handler \in [Sides -> [Sockets -> Desk]]
  BY DEF Becomes, SocketsTyped
<1> QED
  BY <1>1

LEMMA SnapStays ==
  ASSUME Past, NEW snap, SnapTrue(snap)
  PROVE  SnapTrue(snap)'
<1>1. snap \in Row /\ snap.round \in Nat /\ snap.round <= Len(rounds)
  BY DEF SnapTrue, Row
<1>2. \A p \in Sides : snap.wins[p] = Score(snap.round, p)'
  <2>1. \A p \in Sides : Score(snap.round, p)' = Score(snap.round, p)
    BY <1>1 DEF Past
  <2> QED
    BY <2>1 DEF SnapTrue
<1>3. snap.status = "completed" /\ accepts' <= 1 =>
        duel'.winner # "none" /\ snap.winner = duel'.winner
  BY DEF SnapTrue, Past
<1> QED
  BY <1>1, <1>2, <1>3 DEF SnapTrue, Past

LEMMA ResultStays ==
  ASSUME Past, NEW res, ResultTrue(res)
  PROVE  ResultTrue(res)'
<1>1. res \in Result /\ res.idx \in Nat /\ res.idx < Len(rounds)
  BY DEF ResultTrue, Result
<1>2. \A p \in Sides : res.wins[p] = Score(res.idx + 1, p)'
  <2>1. \A p \in Sides : Score(res.idx + 1, p)' = Score(res.idx + 1, p)
    BY <1>1 DEF Past
  <2> QED
    BY <2>1 DEF ResultTrue
<1>3. res.winner # "none" /\ accepts' <= 1 => res.winner = duel'.winner
  BY DEF ResultTrue, Past
<1> QED
  BY <1>1, <1>2, <1>3 DEF ResultTrue, Past

\* A handler whose answers are known, and which has loaded or is about to send nothing new.
LEMMA HandlerStays ==
  ASSUME Past, NEW s \in Sides, NEW c \in Sockets, HandlerTrue(s, c),
         \A k \in DOMAIN handler'[s][c].up : handler'[s][c].up[k] <= Len(rounds'),
         handler'[s][c].pc = "read" =>
           handler[s][c].pc = "read" /\ handler'[s][c].snap = handler[s][c].snap,
         handler'[s][c].pc \in {"own", "others"} =>
           handler[s][c].pc \in {"own", "others"} /\ handler'[s][c].res = handler[s][c].res
  PROVE  HandlerTrue(s, c)'
<1>1. ASSUME handler'[s][c].pc = "read" PROVE SnapTrue(handler[s][c].snap)'
  <2> SUFFICES ASSUME NEW snap, snap = handler[s][c].snap, snap = handler'[s][c].snap
               PROVE  SnapTrue(snap)'
    BY <1>1
  <2> QED
    BY <1>1, SnapStays DEF HandlerTrue
<1>2. ASSUME handler'[s][c].pc \in {"own", "others"} PROVE ResultTrue(handler[s][c].res)'
  <2> SUFFICES ASSUME NEW res, res = handler[s][c].res, res = handler'[s][c].res
               PROVE  ResultTrue(res)'
    BY <1>2
  <2> QED
    BY <1>2, ResultStays DEF HandlerTrue
<1> QED
  BY <1>1, <1>2 DEF HandlerTrue

\* A screen that shows the score and the question it showed before.
LEMMA ViewStays ==
  ASSUME Past, NEW s \in Sides, client \in [Sides -> View], ViewTrue(s),
         client'[s].idx = client[s].idx, client'[s].mine = client[s].mine,
         client'[s].theirs = client[s].theirs, client'[s].reveal = client[s].reveal,
         stale[s] => stale'[s],
         \/ client'[s].phase = client[s].phase /\ client'[s].conn = client[s].conn
         \/ client'[s].phase = client[s].phase /\ client[s].phase # "closed"
         \/ client'[s].phase \notin {"closed", "reveal"}
  PROVE  ViewTrue(s)'
<1>1. client[s].idx \in Nat /\ client[s].reveal \in Int
  BY DEF View
<1>2. PICK n \in 0..Len(rounds) :
        /\ client[s].mine = Score(n, s) /\ client[s].theirs = Score(n, Other(s))
        /\ \/ stale[s]
           \/ /\ client[s].idx \in {n - 1, n}
              /\ client[s].phase = "reveal" => n = client[s].reveal + 1
  BY DEF ViewTrue
<1>3. Score(n, s)' = Score(n, s) /\ Score(n, Other(s))' = Score(n, Other(s))
  BY DEF Past
<1>4. n \in 0..Len(rounds') /\ client'[s].mine = Score(n, s)'
      /\ client'[s].theirs = Score(n, Other(s))'
  BY <1>2, <1>3 DEF Past
<1>5. \/ stale'[s]
      \/ /\ client'[s].idx \in {n - 1, n}
         /\ client'[s].phase = "reveal" => n = client'[s].reveal + 1
  BY <1>2
<1>6. client'[s].idx <= Len(rounds') /\ client'[s].reveal + 1 \in 0..Len(rounds')
  BY <1>1 DEF ViewTrue, Past
<1>7. client'[s].phase = "closed" =>
        /\ client'[s].conn = NoSocket
        /\ client'[s].idx = 0 /\ client'[s].mine = 0 /\ client'[s].theirs = 0
  BY DEF ViewTrue
<1> QED
  BY <1>4, <1>5, <1>6, <1>7 DEF ViewTrue

\* A screen that shows nothing yet.
LEMMA ViewEmpty ==
  ASSUME Past, NEW s \in Sides, client'[s].idx = 0, client'[s].mine = 0, client'[s].theirs = 0,
         client'[s].reveal + 1 \in 0..Len(rounds), client'[s].phase # "reveal",
         client'[s].phase = "closed" => client'[s].conn = NoSocket
  PROVE  ViewTrue(s)'
<1>1. 0 \in 0..Len(rounds) /\ 0 \in 0..Len(rounds')
  BY DEF Past
<1>2. Score(0, s)' = 0 /\ Score(0, Other(s))' = 0
  BY <1>1, ScoreZero DEF Past
<1> QED
  BY <1>1, <1>2 DEF ViewTrue, Past

LEMMA ShownStays ==
  ASSUME Past, NEW s \in Sides, ResultShown(s), client'[s].over = client[s].over,
         client'[s].won = client[s].won,
         client'[s].phase = "done" => client[s].phase = "done" \/ client[s].over,
         Connects(s)' => Connects(s)
  PROVE  ResultShown(s)'
<1>1. accepts' <= 1 => accepts <= 1
  BY DEF Past
<1>2. accepts' <= 1 /\ duel.winner # "none" => duel'.winner = duel.winner
  BY DEF Past
<1>3. client'[s].over \/ client'[s].phase = "done" => client[s].over \/ client[s].phase = "done"
  OBVIOUS
<1>4. client'[s].over \/ client'[s].phase = "done" =>
        (accepts' <= 1 => duel'.winner # "none" /\ (client'[s].won <=> duel'.winner = s))
  BY <1>1, <1>2, <1>3, Zenon DEF ResultShown
<1>5. Connects(s)' => ~client'[s].over
  BY Zenon DEF ResultShown
<1> QED
  BY <1>4, <1>5, Zenon DEF ResultShown

LEMMA FreshStays ==
  ASSUME NEW s \in Sides, Fresh(s), stale[s] => stale'[s], Joined(s)' => Joined(s),
         NEW i, i = client[s].idx, i \in Nat, NEW j, j = client'[s].idx, j \in Nat,
         i <= j \/ stale'[s], Ahead(s, i) => Ahead(s, i)',
         handler' \in [Sides -> [Sockets -> Desk]]
  PROVE  Fresh(s)'
<1> SUFFICES ASSUME Joined(s)', ~stale'[s] PROVE Ahead(s, j)'
  BY Zenon DEF Fresh
<1>1. i <= j /\ Ahead(s, i)'
  BY DEF Fresh
<1>2. \A c \in Sockets : \A k \in DOMAIN handler'[s][c].up : handler'[s][c].up[k] \in Nat
  BY DEF Desk
<1> QED
  BY <1>1, <1>2 DEF Ahead

LEMMA ShownEmpty ==
  ASSUME NEW s \in Sides, client'[s].over = FALSE, client'[s].phase # "done"
  PROVE  ResultShown(s)'
BY Zenon DEF ResultShown

LEMMA LostView ==
  ASSUME SocketsTyped, NEW s \in Sides
  PROVE  /\ Lost(s) \in View /\ Lost(s).conn = NoSocket
         /\ \/ /\ Lost(s).idx = client[s].idx /\ Lost(s).mine = client[s].mine
               /\ Lost(s).theirs = client[s].theirs /\ Lost(s).reveal = client[s].reveal
               /\ Lost(s).over = client[s].over /\ Lost(s).won = client[s].won
               /\ Lost(s).phase = client[s].phase
               /\ client[s].conn = NoSocket \/ client[s].phase = "done"
            \/ /\ Lost(s).idx = 0 /\ Lost(s).mine = 0 /\ Lost(s).theirs = 0
               /\ Lost(s).reveal = -1 /\ Lost(s).over = FALSE /\ Lost(s).phase = "error"
<1>1. client[s] \in View
  BY DEF SocketsTyped
<1>2. CASE client[s].phase = "done"
  <2>1. Lost(s) = [client[s] EXCEPT !.conn = NoSocket]
    BY <1>2, Zenon DEF Lost
  <2>2. LET w == [client[s] EXCEPT !.conn = NoSocket]
        IN /\ w \in View /\ w.conn = NoSocket /\ w.idx = client[s].idx
           /\ w.mine = client[s].mine /\ w.theirs = client[s].theirs
           /\ w.reveal = client[s].reveal /\ w.over = client[s].over
           /\ w.won = client[s].won /\ w.phase = client[s].phase
    BY <1>1, Zenon DEF View
  <2> QED
    BY <1>2, <2>1, <2>2, Zenon
<1>3. CASE client[s].phase # "done" /\ client[s].conn = NoSocket
  <2>1. Lost(s) = client[s]
    BY <1>3, Zenon DEF Lost
  <2> QED
    BY <1>1, <1>3, <2>1, Zenon
<1>4. CASE client[s].phase # "done" /\ client[s].conn # NoSocket
  <2>1. Lost(s) = [Closed EXCEPT !.phase = "error"]
    BY <1>4, Zenon DEF Lost
  <2>2. "error" \in Phases
    BY DEF Phases
  <2>3. Closed \in View
    BY ClosedFields
  <2>4. LET w == [Closed EXCEPT !.phase = "error"]
        IN /\ w \in View /\ w.phase = "error" /\ w.conn = Closed.conn
           /\ w.idx = Closed.idx /\ w.mine = Closed.mine /\ w.theirs = Closed.theirs
           /\ w.reveal = Closed.reveal /\ w.over = Closed.over
    BY <2>2, <2>3, PhaseView, Zenon
  <2> QED
    BY <2>1, <2>4, ClosedFields, Zenon
<1> QED
  BY <1>2, <1>3, <1>4

\* A screen without a socket.
LEMMA NoSocketKeeps ==
  ASSUME NEW s \in Sides, client'[s].conn = NoSocket
  PROVE  ~Connects(s)' /\ ~Joined(s)' /\ Fresh(s)'
<1>1. NoSocket \notin Sockets
  BY DEF NoSocket, Sockets
<1> QED
  BY <1>1, Zenon DEF Connects, Joined, Fresh

LEMMA LostKeeps ==
  ASSUME Past, SocketsTyped, NEW s \in Sides, ViewTrue(s), ResultShown(s),
         client'[s] = Lost(s), stale'[s] = stale[s]
  PROVE  client'[s] \in View /\ ViewTrue(s)' /\ ResultShown(s)' /\ Fresh(s)'
<1>1. /\ client'[s] \in View /\ client'[s].conn = NoSocket
      /\ \/ /\ client'[s].idx = client[s].idx /\ client'[s].mine = client[s].mine
            /\ client'[s].theirs = client[s].theirs /\ client'[s].reveal = client[s].reveal
            /\ client'[s].over = client[s].over /\ client'[s].won = client[s].won
            /\ client'[s].phase = client[s].phase
            /\ client[s].conn = NoSocket \/ client[s].phase = "done"
         \/ /\ client'[s].idx = 0 /\ client'[s].mine = 0 /\ client'[s].theirs = 0
            /\ client'[s].reveal = -1 /\ client'[s].over = FALSE
            /\ client'[s].phase = "error"
  BY LostView, Zenon
<1>2. ~Connects(s)' /\ Fresh(s)'
  BY <1>1, NoSocketKeeps
<1>3. client \in [Sides -> View] /\ Len(rounds) \in Nat
  BY DEF SocketsTyped, Past
<1>4. CASE client'[s].phase = "error" /\ client'[s].idx = 0 /\ client'[s].mine = 0
           /\ client'[s].theirs = 0 /\ client'[s].reveal = -1 /\ client'[s].over = FALSE
  <2>1. ViewTrue(s)'
    BY <1>3, <1>4, ViewEmpty
  <2>2. ResultShown(s)'
    BY <1>4, ShownEmpty
  <2> QED
    BY <1>1, <1>2, <2>1, <2>2
<1>5. CASE /\ client'[s].idx = client[s].idx /\ client'[s].mine = client[s].mine
           /\ client'[s].theirs = client[s].theirs /\ client'[s].reveal = client[s].reveal
           /\ client'[s].over = client[s].over /\ client'[s].won = client[s].won
           /\ client'[s].phase = client[s].phase
           /\ client[s].conn = NoSocket \/ client[s].phase = "done"
  <2>1. \/ client'[s].phase = client[s].phase /\ client'[s].conn = client[s].conn
        \/ client'[s].phase = client[s].phase /\ client[s].phase # "closed"
    BY <1>1, <1>5
  <2>2. ViewTrue(s)'
    BY <1>3, <1>5, <2>1, ViewStays
  <2>3. ResultShown(s)'
    BY <1>2, <1>5, ShownStays
  <2> QED
    BY <1>1, <1>2, <2>2, <2>3
<1> QED
  BY <1>1, <1>4, <1>5

\* A side that the step does not touch.
LEMMA SideStays ==
  ASSUME Past, SocketsTyped, NEW s \in Sides, SideInv(s), handler'[s] = handler[s],
         handler' \in [Sides -> [Sockets -> Desk]],
         client'[s] = client[s], stale'[s] = stale[s], room'[s] = room[s],
         \A j \in Nat : <<j, s>> \in answered' => <<j, s>> \in answered
  PROVE  SideInv(s)'
<1>1. ViewTrue(s)'
  BY ViewStays DEF SideInv, SocketsTyped
<1>2. Connects(s)' = Connects(s) /\ Joined(s)' = Joined(s)
  BY DEF Connects, Joined
<1>3. ResultShown(s)'
  BY <1>2, ShownStays DEF SideInv
<1>4. RoomTrue(s)'
  BY DEF SideInv, RoomTrue
<1>5. Fresh(s)'
  <2>1. PICK i : i = client[s].idx
    OBVIOUS
  <2>2. i \in Nat /\ i <= i
    BY <2>1 DEF SocketsTyped, View
  <2>3. Ahead(s, i) => Ahead(s, i)'
    BY DEF Ahead
  <2> QED
    BY <1>2, <2>1, <2>2, <2>3, FreshStays DEF SideInv
<1>6. ASSUME NEW c \in Sockets PROVE HandlerTrue(s, c)'
  <2>1. \A k \in DOMAIN handler[s][c].up : handler[s][c].up[k] \in Nat
    BY DEF SocketsTyped, Desk
  <2>2. \A k \in DOMAIN handler'[s][c].up : handler'[s][c].up[k] <= Len(rounds')
    BY <2>1 DEF SideInv, HandlerTrue, Past
  <2> QED
    BY <2>2, HandlerStays DEF SideInv
<1> QED
  BY <1>1, <1>3, <1>4, <1>5, <1>6 DEF SideInv

-------------------------------------------------------------------------------
(* The steps *)

\* Everything that the screen part of the invariant asks of a state.
SidesInv == SocketsTyped /\ \A s \in Sides : SideInv(s)

LEMMA QuietKeeps ==
  ASSUME Past, SidesInv, UNCHANGED <<answered, room, handler, client, stale>>
  PROVE  SidesInv'
<1>1. SocketsTyped'
  BY DEF SidesInv, SocketsTyped
<1>2. ASSUME NEW s \in Sides PROVE SideInv(s)'
  BY <1>1, SideStays DEF SidesInv, SocketsTyped
<1> QED
  BY <1>1, <1>2 DEF SidesInv

\* A handler of s is the only one that changes, and the other side does not.
LEMMA OneSide ==
  ASSUME Past, SidesInv, NEW s \in Sides, SocketsTyped', SideInv(s)',
         LET o == Other(s)
         IN /\ handler'[o] = handler[o] /\ client'[o] = client[o] /\ stale'[o] = stale[o]
            /\ room'[o] = room[o]
            /\ \A j \in Nat : <<j, o>> \in answered' => <<j, o>> \in answered
  PROVE  SidesInv'
<1>1. SideInv(Other(s))'
  BY TwoSides, SideStays DEF SidesInv, SocketsTyped
<1> QED
  BY <1>1, TwoSides DEF SidesInv

LEMMA RowIsSnap ==
  ASSUME LiveInv, RowTrue, NEW snap, snap = duel
  PROVE  SnapTrue(snap)
<1>1. snap \in Row /\ snap.round = Len(rounds) /\ Len(rounds) \in Nat
  BY DEF LiveInv, TablesTyped, RoundsAgree, Row
<1>2. \A p \in Sides : snap.wins[p] = Score(snap.round, p)
  BY <1>1, ScoreAll
<1> QED
  BY <1>1, <1>2 DEF SnapTrue, RowTrue

LEMMA OpenKeeps ==
  ASSUME LiveInv, RowTrue, Past, SidesInv, NEW s \in Sides, Open(s)
  PROVE  SidesInv'
<1>1. /\ client[s].phase = "closed" /\ stale' = [stale EXCEPT ![s] = FALSE]
      /\ UNCHANGED <<duel, answered, rounds, accepts, room>>
      /\ client \in [Sides -> View] /\ handler \in [Sides -> [Sockets -> Desk]]
      /\ stale \in [Sides -> BOOLEAN] /\ room \in [Sides -> Nat] /\ Other(s) # s
      /\ Other(s) \in Sides
  BY TwoSides DEF Open, tables, challenge, SidesInv, SocketsTyped
<1>2. /\ stale' \in [Sides -> BOOLEAN] /\ stale'[Other(s)] = stale[Other(s)]
      /\ stale'[s] = FALSE
  BY <1>1
<1>3. ASSUME NEW c \in Sockets, handler[s][c].pc = "none",
             Becomes(s, c, [NoHandler EXCEPT !.pc = "read", !.snap = duel]),
             client' = [client EXCEPT ![s] =
               [Closed EXCEPT !.phase = "connecting", !.conn = c]]
      PROVE  SidesInv'
  <2> DEFINE h == [NoHandler EXCEPT !.pc = "read", !.snap = duel]
             w == [Closed EXCEPT !.phase = "connecting", !.conn = c]
  <2>1. h \in Desk /\ h.pc = "read" /\ h.snap = duel /\ h.up = <<>>
    <3>1. duel \in Row
      BY DEF LiveInv, TablesTyped, Row
    <3> QED
      BY <3>1, NoHandlerFields
  <2>2. /\ w \in View /\ w.phase = "connecting" /\ w.conn = c /\ w.idx = 0 /\ w.mine = 0
        /\ w.theirs = 0 /\ w.reveal = -1 /\ w.over = FALSE
    <3>1. "connecting" \in Phases /\ Closed \in View
      BY ClosedFields DEF Phases
    <3>2. /\ w \in View /\ w.phase = "connecting" /\ w.conn = c /\ w.idx = Closed.idx
          /\ w.mine = Closed.mine /\ w.theirs = Closed.theirs
          /\ w.reveal = Closed.reveal /\ w.over = Closed.over
      BY <1>3, <3>1, Zenon DEF View
    <3> QED
      BY <3>2, ClosedFields, Zenon
  <2>3. Becomes(s, c, h) /\ client' = [client EXCEPT ![s] = w]
    BY <1>3
  <2> HIDE DEF h, w
  <2>4. /\ handler' \in [Sides -> [Sockets -> Desk]] /\ handler'[s][c] = h
        /\ \A p \in Sides \ {s} : handler'[p] = handler[p]
        /\ \A p \in Sides, d \in Sockets : p # s \/ d # c => handler'[p][d] = handler[p][d]
    BY <1>3, <2>1, <2>3, BecomesEffect DEF SidesInv
  <2>5. client' \in [Sides -> View] /\ client'[s] = w /\ client'[Other(s)] = client[Other(s)]
    BY <1>1, <2>2, <2>3
  <2>6. SocketsTyped'
    BY <1>1, <1>2, <2>4, <2>5 DEF SocketsTyped
  <2>7. RoomTrue(s)'
    BY <1>1, <1>3, <2>4 DEF RoomTrue, SidesInv, SideInv
  <2>8. ViewTrue(s)' /\ ResultShown(s)'
    <3>1. Len(rounds) \in Nat
      BY DEF Past
    <3>2. ViewTrue(s)'
      <4>1. /\ client'[s].phase = "connecting" /\ client'[s].idx = 0 /\ client'[s].mine = 0
            /\ client'[s].theirs = 0 /\ client'[s].reveal = -1
        BY <2>2, <2>5
      <4>2. client'[s].reveal + 1 \in 0..Len(rounds)
        BY <3>1, <4>1
      <4> QED
        BY <4>1, <4>2, ViewEmpty
    <3>3. ResultShown(s)'
      <4>1. client'[s].over = FALSE /\ client'[s].phase # "done"
        BY <2>2, <2>5
      <4> QED
        BY <4>1, ShownEmpty
    <3> QED
      BY <3>2, <3>3
  <2>9. Fresh(s)'
    BY <2>1, <2>2, <2>4, <2>5 DEF Fresh, Joined
  <2>10. ASSUME NEW d \in Sockets PROVE HandlerTrue(s, d)'
    <3>1. CASE d # c
      <4>1. handler'[s][d] = handler[s][d] /\ handler[s][d] \in Desk
        BY <1>1, <2>4, <3>1
      <4>2. \A k \in DOMAIN handler[s][d].up : handler[s][d].up[k] <= Len(rounds')
        BY <1>1 DEF SidesInv, SideInv, HandlerTrue
      <4> QED
        BY <4>1, <4>2, HandlerStays DEF SidesInv, SideInv
    <3>2. CASE d = c
      <4>1. handler'[s][c].pc = "read" /\ handler'[s][c].up = <<>> /\ handler'[s][c].snap = duel
        BY <2>1, <2>4
      <4>2. SnapTrue(handler[s][c].snap)'
        <5> SUFFICES ASSUME NEW snap, snap = duel, snap = handler'[s][c].snap
                     PROVE  SnapTrue(snap)'
          BY <4>1
        <5> QED
          BY RowIsSnap, SnapStays
      <4> QED
        BY <3>2, <4>1, <4>2 DEF HandlerTrue
    <3> QED
      BY <3>1, <3>2
  <2>11. handler'[Other(s)] = handler[Other(s)]
    BY <1>1, <2>4
  <2> QED
    BY <1>1, <1>2, <2>5, <2>6, <2>7, <2>8, <2>9, <2>10, <2>11, OneSide DEF SideInv
<1>4. CASE client' = [client EXCEPT ![s].phase = "error"] /\ UNCHANGED handler
  <2> DEFINE w == [client[s] EXCEPT !.phase = "error"]
  <2>1. /\ w \in View /\ w.phase = "error" /\ w.conn = client[s].conn /\ w.idx = client[s].idx
        /\ w.mine = client[s].mine /\ w.theirs = client[s].theirs
        /\ w.reveal = client[s].reveal /\ w.over = client[s].over /\ w.won = client[s].won
    <3>1. "error" \in Phases /\ client[s] \in View
      BY <1>1 DEF Phases
    <3> QED
      BY <3>1, Zenon DEF View
  <2>2. client' = [client EXCEPT ![s] = w]
    BY <1>4
  <2> HIDE DEF w
  <2>3. client' \in [Sides -> View] /\ client'[s] = w /\ client'[Other(s)] = client[Other(s)]
    BY <1>1, <2>1, <2>2
  <2>4. client'[s].conn = NoSocket
    BY <1>1, <2>1, <2>3 DEF SidesInv, SideInv, ViewTrue
  <2>5. SocketsTyped'
    BY <1>1, <1>2, <1>4, <2>3 DEF SocketsTyped
  <2>6. ~Connects(s)' /\ Fresh(s)'
    BY <2>4, NoSocketKeeps
  <2>7. ViewTrue(s)'
    <3>1. /\ client[s].idx = 0 /\ client[s].mine = 0 /\ client[s].theirs = 0
          /\ client[s].reveal + 1 \in 0..Len(rounds)
      BY <1>1 DEF SidesInv, SideInv, ViewTrue
    <3> QED
      BY <2>1, <2>3, <3>1, ViewEmpty
  <2>8. ResultShown(s)'
    <3>1. /\ client'[s].over = client[s].over /\ client'[s].won = client[s].won
          /\ client'[s].phase # "done"
      BY <2>1, <2>3
    <3>2. ResultShown(s)
      BY DEF SidesInv, SideInv
    <3> QED
      BY <2>6, <3>1, <3>2, ShownStays, Zenon
  <2>9. RoomTrue(s)'
    BY <1>1, <1>4 DEF SidesInv, SideInv, RoomTrue
  <2>10. ASSUME NEW d \in Sockets PROVE HandlerTrue(s, d)'
    <3>1. \A k \in DOMAIN handler[s][d].up : handler[s][d].up[k] <= Len(rounds')
      BY <1>1 DEF SidesInv, SideInv, HandlerTrue
    <3> QED
      BY <1>4, <3>1, HandlerStays DEF SidesInv, SideInv
  <2> QED
    BY <1>1, <1>2, <1>4, <2>3, <2>5, <2>6, <2>7, <2>8, <2>9, <2>10, OneSide DEF SideInv
<1> QED
  BY <1>3, <1>4 DEF Open

LEMMA OtherDesks ==
  ASSUME Past, SidesInv, NEW s \in Sides, NEW c \in Sockets, HandlerTrue(s, c)',
         \A d \in Sockets \ {c} : handler'[s][d] = handler[s][d]
  PROVE  \A d \in Sockets : HandlerTrue(s, d)'
<1> SUFFICES ASSUME NEW d \in Sockets, d # c PROVE HandlerTrue(s, d)'
  OBVIOUS
<1>1. handler'[s][d] = handler[s][d] /\ handler[s][d] \in Desk
  BY DEF SidesInv, SocketsTyped
<1>2. \A k \in DOMAIN handler[s][d].up : handler[s][d].up[k] <= Len(rounds')
  <2>1. \A k \in DOMAIN handler[s][d].up : handler[s][d].up[k] \in Nat
    BY <1>1 DEF Desk
  <2>2. \A k \in DOMAIN handler[s][d].up : handler[s][d].up[k] <= Len(rounds)
    BY DEF SidesInv, SideInv, HandlerTrue
  <2> QED
    BY <2>1, <2>2 DEF Past
<1> QED
  BY <1>1, <1>2, HandlerStays DEF SidesInv, SideInv

LEMMA RoomStays ==
  ASSUME NEW s \in Sides, RoomTrue(s), room'[s] = room[s],
         \A d \in Sockets : handler[s][d].pc \notin {"none", "read"} =>
                             handler'[s][d].pc \notin {"none", "read"}
  PROVE  RoomTrue(s)'
BY DEF RoomTrue

\* The state message of the row that was loaded.
LEMMA GreetsView ==
  ASSUME SocketsTyped, NEW s \in Sides, NEW snap, SnapTrue(snap)
  PROVE  LET w == Handled(client[s], StateMessage(s, snap))
         IN /\ w \in View /\ w.idx = snap.round /\ w.mine = Score(snap.round, s)
            /\ w.theirs = Score(snap.round, Other(s)) /\ w.conn = client[s].conn
            /\ w.reveal = client[s].reveal /\ w.over = client[s].over
            /\ w.phase \in {"done", "playing", "lobby"}
            /\ w.phase = "done" => snap.status = "completed" /\ w.won = (snap.winner = s)
<1> DEFINE round == snap.round
           mine == snap.wins[s]
           theirs == snap.wins[Other(s)]
           won == snap.winner = s
           online == room[Other(s)] # NoSocket
           status == snap.status
           w == Handled(client[s], StateMessage(s, snap))
<1>1. /\ round \in Nat /\ mine \in Nat /\ theirs \in Nat /\ client[s] \in View
      /\ mine = Score(round, s) /\ theirs = Score(round, Other(s))
  BY TwoSides DEF SnapTrue, Row, SocketsTyped
<1>2. won \in BOOLEAN
  OBVIOUS
<1>3. StateMessage(s, snap) = [type |-> "state", status |-> status, round |-> round,
                               mine |-> mine, theirs |-> theirs, won |-> won,
                               online |-> online]
  BY DEF StateMessage
<1> HIDE DEF round, mine, theirs, won, online, status
<1> DEFINE v == client[s]
           x == Handled(v, [type |-> "state", status |-> status, round |-> round,
                            mine |-> mine, theirs |-> theirs, won |-> won,
                            online |-> online])
<1>10. v \in View
  BY <1>1
<1>5. w = x
  BY <1>3, Zenon
<1>11. v.conn = client[s].conn /\ v.reveal = client[s].reveal /\ v.over = client[s].over
  OBVIOUS
<1> HIDE DEF v
<1>12. /\ round \in Nat /\ mine \in Nat /\ theirs \in Nat /\ won \in BOOLEAN => x \in View
       /\ x.idx = round /\ x.mine = mine /\ x.theirs = theirs /\ x.won = won
       /\ x.conn = v.conn /\ x.reveal = v.reveal /\ x.over = v.over
       /\ x.phase \in {"done", "playing", "lobby"}
       /\ x.phase = "done" => status = "completed"
  BY <1>10, StateView, Zenon
<1> HIDE DEF x
<1>4. /\ x \in View /\ x.idx = round /\ x.mine = mine /\ x.theirs = theirs /\ x.won = won
      /\ x.conn = client[s].conn /\ x.reveal = client[s].reveal /\ x.over = client[s].over
      /\ x.phase \in {"done", "playing", "lobby"}
      /\ x.phase = "done" => status = "completed"
  BY <1>1, <1>2, <1>11, <1>12, Zenon
<1> HIDE DEF x
<1> HIDE DEF w
<1>6. snap.round = round /\ snap.status = status /\ (won <=> snap.winner = s)
  BY DEF round, status, won
<1>7. /\ w \in View /\ w.idx = snap.round /\ w.mine = Score(snap.round, s)
      /\ w.theirs = Score(snap.round, Other(s)) /\ w.conn = client[s].conn
      /\ w.reveal = client[s].reveal /\ w.over = client[s].over
      /\ w.phase \in {"done", "playing", "lobby"}
      /\ w.phase = "done" => snap.status = "completed"
  BY <1>1, <1>4, <1>5, <1>6, Zenon
<1>8. w.won = (snap.winner = s)
  BY <1>4, <1>5, Zenon DEF won
<1> QED
  BY <1>7, <1>8, Zenon DEF w

\* A screen whose question and score stay, while its handlers at most lose answers.
LEMMA SameQuestion ==
  ASSUME Past, SocketsTyped, NEW s \in Sides, ViewTrue(s), ResultShown(s), Fresh(s),
         client'[s].idx = client[s].idx, client'[s].mine = client[s].mine,
         client'[s].theirs = client[s].theirs, client'[s].reveal = client[s].reveal,
         client'[s].over = client[s].over, client'[s].won = client[s].won,
         client'[s].conn = client[s].conn, stale[s] => stale'[s],
         \/ client'[s].phase = client[s].phase
         \/ client'[s].phase \notin {"closed", "reveal", "done"}
         \/ client'[s].phase = "done" /\ client[s].over,
         Connects(s)' => Connects(s), Joined(s)' => Joined(s),
         NEW i, i = client[s].idx, Ahead(s, i) => Ahead(s, i)',
         handler' \in [Sides -> [Sockets -> Desk]]
  PROVE  ViewTrue(s)' /\ ResultShown(s)' /\ Fresh(s)'
<1>1. ViewTrue(s)'
  BY ViewStays DEF SocketsTyped
<1>2. ResultShown(s)'
  BY ShownStays
<1>3. Fresh(s)'
  <2>1. i \in Nat /\ i <= i /\ i = client'[s].idx
    BY DEF SocketsTyped, View
  <2> QED
    BY <2>1, FreshStays
<1> QED
  BY <1>1, <1>2, <1>3

\* The other side of a step: its screen at most goes from the lobby into the duel.
LEMMA OtherStays ==
  ASSUME Past, SidesInv, NEW s \in Sides, handler'[s] = handler[s],
         handler' \in [Sides -> [Sockets -> Desk]],
         \/ client'[s] = client[s]
         \/ client'[s] = [client[s] EXCEPT !.phase = "playing"],
         stale'[s] = stale[s], room'[s] = room[s],
         \A j \in Nat : <<j, s>> \in answered' => <<j, s>> \in answered
  PROVE  SideInv(s)'
<1>1. CASE client'[s] = client[s]
  BY <1>1, SideStays DEF SidesInv
<1>2. CASE client'[s] = [client[s] EXCEPT !.phase = "playing"]
  <2>1. client[s] \in View /\ "playing" \in Phases
    BY DEF SidesInv, SocketsTyped, Phases
  <2>2. /\ client'[s].phase = "playing" /\ client'[s].conn = client[s].conn
        /\ client'[s].idx = client[s].idx /\ client'[s].mine = client[s].mine
        /\ client'[s].theirs = client[s].theirs /\ client'[s].reveal = client[s].reveal
        /\ client'[s].over = client[s].over /\ client'[s].won = client[s].won
    <3> DEFINE v == client[s]
               w == [v EXCEPT !.phase = "playing"]
    <3>1. client'[s] = w
      BY <1>2
    <3> HIDE DEF v
    <3>2. /\ w.phase = "playing" /\ w.conn = v.conn /\ w.idx = v.idx /\ w.mine = v.mine
          /\ w.theirs = v.theirs /\ w.reveal = v.reveal /\ w.over = v.over /\ w.won = v.won
      BY <2>1, PhaseView, ZenonT(60) DEF v
    <3> HIDE DEF w
    <3> QED
      BY <3>1, <3>2 DEF v
  <2>3. Connects(s)' = Connects(s) /\ Joined(s)' = Joined(s)
    BY <2>2 DEF Connects, Joined
  <2>4. ViewTrue(s)' /\ ResultShown(s)' /\ Fresh(s)'
    <3>1. PICK i : i = client[s].idx
      OBVIOUS
    <3>2. Ahead(s, i) => Ahead(s, i)'
      BY DEF Ahead
    <3>3. SocketsTyped /\ ViewTrue(s) /\ ResultShown(s) /\ Fresh(s)
      BY DEF SidesInv, SideInv
    <3> QED
      BY <2>2, <2>3, <3>1, <3>2, <3>3, SameQuestion
  <2>5. RoomTrue(s)'
    BY DEF SidesInv, SideInv, RoomTrue
  <2>6. ASSUME NEW c \in Sockets PROVE HandlerTrue(s, c)'
    <3>1. \A k \in DOMAIN handler[s][c].up : handler[s][c].up[k] \in Nat
      BY DEF SidesInv, SocketsTyped, Desk
    <3>2. \A k \in DOMAIN handler'[s][c].up : handler'[s][c].up[k] <= Len(rounds')
      BY <3>1 DEF SidesInv, SideInv, HandlerTrue, Past
    <3> QED
      BY <3>2, HandlerStays DEF SidesInv, SideInv
  <2> QED
    BY <2>4, <2>5, <2>6 DEF SideInv
<1> QED
  BY <1>1, <1>2

LEMMA JoinKeeps ==
  ASSUME LiveInv, RowTrue, Past, SidesInv, NEW s \in Sides, NEW c \in Sockets, Join(s, c)
  PROVE  SidesInv'
<1> DEFINE o == Other(s)
           snap == handler[s][c].snap
<1>1. /\ handler[s][c].pc = "read" /\ Greets(s, c)
      /\ stale' = IF client[s].conn = c THEN [stale EXCEPT ![s] = snap # duel] ELSE stale
      /\ UNCHANGED <<duel, answered, rounds, accepts>>
      /\ client \in [Sides -> View] /\ handler \in [Sides -> [Sockets -> Desk]]
      /\ stale \in [Sides -> BOOLEAN] /\ room \in [Sides -> Nat] /\ o # s /\ o \in Sides
      /\ s \in Sides
  BY TwoSides DEF Join, tables, challenge, SidesInv, SocketsTyped
<1>2. SnapTrue(snap)
  BY <1>1 DEF SidesInv, SideInv, HandlerTrue
<1>3. stale' \in [Sides -> BOOLEAN] /\ stale'[o] = stale[o]
  <2>1. (snap # duel) \in BOOLEAN
    OBVIOUS
  <2> QED
    BY <1>1, <2>1, Zenon
<1>4. /\ client' \in [Sides -> View]
      /\ client'[s] = IF client[s].conn = c THEN Handled(client[s], StateMessage(s, snap))
                       ELSE IF room[s] # c /\ Reaches(s) THEN Lost(s) ELSE client[s]
      /\ client'[o] = client[o] \/ client'[o] = [client[o] EXCEPT !.phase = "playing"]
  <2> DEFINE v == IF client[s].conn = c THEN Handled(client[s], StateMessage(s, snap))
                  ELSE IF room[s] # c /\ Reaches(s) THEN Lost(s) ELSE client[s]
             w == IF Reaches(o) THEN Handled(client[o], [type |-> "opponent_joined"])
                  ELSE client[o]
  <2>1. v \in View
    <3>1. Lost(s) \in View /\ client[s] \in View
      BY <1>1, LostView DEF SidesInv
    <3>2. Handled(client[s], StateMessage(s, snap)) \in View
      BY <1>2, GreetsView DEF SidesInv
    <3> QED
      BY <3>1, <3>2
  <2>2. w \in View /\ (w = client[o] \/ w = [client[o] EXCEPT !.phase = "playing"])
    <3>1. client[o] \in View /\ "playing" \in Phases
      BY <1>1 DEF Phases
    <3>2. [client[o] EXCEPT !.phase = "playing"] \in View
      BY <3>1, PhaseView, Zenon
    <3> QED
      BY <3>1, <3>2, JoinedView, Zenon
  <2>3. client' = [client EXCEPT ![s] = v, ![o] = w]
    BY <1>1 DEF Greets
  <2> HIDE DEF v, w, o
  <2> QED
    BY <1>1, <2>1, <2>2, <2>3 DEF v, w
<1>5. /\ handler' \in [Sides -> [Sockets -> Desk]]
      /\ handler'[o] = handler[o] /\ \A d \in Sockets \ {c} : handler'[s][d] = handler[s][d]
      /\ room' \in [Sides -> Nat] /\ room'[o] = room[o]
      /\ \/ /\ handler'[s][c].pc = "serving" /\ handler'[s][c].up = handler[s][c].up
            /\ room'[s] = c
         \/ /\ client[s].conn # c
            /\ handler'[s][c].pc = "none" /\ handler'[s][c].up = <<>>
            /\ room'[s] = DeadSocket
  <2>1. CASE /\ Becomes(s, c, [handler[s][c] EXCEPT !.pc = "serving", !.snap = <<>>])
             /\ room' = [room EXCEPT ![s] = c]
    <3> DEFINE h == [handler[s][c] EXCEPT !.pc = "serving", !.snap = <<>>]
    <3>1. h \in Desk /\ h.pc = "serving" /\ h.up = handler[s][c].up
      <4>1. handler[s][c] \in Desk /\ "serving" \in Steps
        BY <1>1 DEF Steps
      <4>2. <<>> \in Row \cup {<<>>}
        OBVIOUS
      <4> QED
        BY <4>1, <4>2, Zenon DEF Desk
    <3> HIDE DEF h
    <3>2. Becomes(s, c, h)
      BY <2>1 DEF h
    <3>3. /\ handler' \in [Sides -> [Sockets -> Desk]] /\ handler'[s][c] = h
          /\ \A p \in Sides \ {s} : handler'[p] = handler[p]
          /\ \A p \in Sides, d \in Sockets : p # s \/ d # c => handler'[p][d] = handler[p][d]
      BY <3>1, <3>2, BecomesEffect DEF SidesInv
    <3>4. room' \in [Sides -> Nat] /\ room'[o] = room[o] /\ room'[s] = c
      BY <1>1, <2>1 DEF Sockets
    <3>5. handler'[o] = handler[o] /\ \A d \in Sockets \ {c} : handler'[s][d] = handler[s][d]
      BY <1>1, <3>3
    <3> QED
      BY <3>1, <3>3, <3>4, <3>5
  <2>2. CASE /\ client[s].conn # c /\ Becomes(s, c, NoHandler)
             /\ room' = [room EXCEPT ![s] = DeadSocket]
    <3>1. NoHandler \in Desk /\ NoHandler.pc = "none" /\ NoHandler.up = <<>>
      BY <1>2, NoHandlerFields DEF SnapTrue
    <3>2. /\ handler' \in [Sides -> [Sockets -> Desk]] /\ handler'[s][c] = NoHandler
          /\ \A p \in Sides \ {s} : handler'[p] = handler[p]
          /\ \A p \in Sides, d \in Sockets : p # s \/ d # c => handler'[p][d] = handler[p][d]
      BY <2>2, <3>1, BecomesEffect DEF SidesInv
    <3>3. room' \in [Sides -> Nat] /\ room'[o] = room[o] /\ room'[s] = DeadSocket
      BY <1>1, <2>2 DEF DeadSocket
    <3>4. handler'[o] = handler[o] /\ \A d \in Sockets \ {c} : handler'[s][d] = handler[s][d]
      BY <1>1, <3>2
    <3> QED
      BY <2>2, <3>1, <3>2, <3>3, <3>4
  <2> QED
    BY <2>1, <2>2 DEF Join
<1>6. SocketsTyped'
  BY <1>3, <1>4, <1>5 DEF SocketsTyped
<1> HIDE DEF snap
<1>7. \A d \in Sockets : HandlerTrue(s, d)'
  <2>1. \A k \in DOMAIN handler[s][c].up : handler[s][c].up[k] <= Len(rounds')
    BY <1>1 DEF SidesInv, SideInv, HandlerTrue
  <2>2. HandlerTrue(s, c)'
    <3>1. handler'[s][c].up = handler[s][c].up \/ handler'[s][c].up = <<>>
      BY <1>5
    <3>2. handler'[s][c].pc \in {"serving", "none"}
      BY <1>5
    <3>3. \A k \in DOMAIN handler'[s][c].up : handler'[s][c].up[k] <= Len(rounds')
      BY <2>1, <3>1
    <3> QED
      BY <3>2, <3>3 DEF HandlerTrue
  <2> QED
    BY <1>5, <2>2, OtherDesks
<1>8. RoomTrue(s)'
  BY <1>5 DEF RoomTrue, DeadSocket, Sockets
<1>9. ASSUME client[s].conn = c PROVE ViewTrue(s)' /\ ResultShown(s)' /\ Fresh(s)'
  <2>1. /\ client'[s].idx = snap.round /\ client'[s].mine = Score(snap.round, s)
        /\ client'[s].theirs = Score(snap.round, o) /\ client'[s].conn = c
        /\ client'[s].reveal = client[s].reveal /\ client'[s].over = client[s].over
        /\ client'[s].phase \in {"done", "playing", "lobby"}
        /\ client'[s].phase = "done" =>
             snap.status = "completed" /\ client'[s].won = (snap.winner = s)
    <3> DEFINE w == Handled(client[s], StateMessage(s, snap))
    <3>1. client'[s] = w
      BY <1>4, <1>9
    <3>2. SocketsTyped
      BY DEF SidesInv
    <3>3. /\ w \in View /\ w.idx = snap.round /\ w.mine = Score(snap.round, s)
          /\ w.theirs = Score(snap.round, Other(s)) /\ w.conn = client[s].conn
          /\ w.reveal = client[s].reveal /\ w.over = client[s].over
          /\ w.phase \in {"done", "playing", "lobby"}
          /\ w.phase = "done" => snap.status = "completed" /\ w.won = (snap.winner = s)
      BY <1>2, <3>2, GreetsView, Zenon
    <3> HIDE DEF w
    <3> QED
      BY <1>9, <3>1, <3>3, Zenon
  <2>2. snap.round \in Nat /\ snap.round <= Len(rounds) /\ Len(rounds) \in Nat
    BY <1>2 DEF SnapTrue, Row, Past
  <2>3. ViewTrue(s)'
    <3>1. PICK n : n = snap.round
      OBVIOUS
    <3>2. /\ n \in 0..Len(rounds) /\ client'[s].idx = n /\ client'[s].mine = Score(n, s)
          /\ client'[s].theirs = Score(n, Other(s))
      BY <2>1, <2>2, <3>1
    <3>3. Score(n, s)' = Score(n, s) /\ Score(n, Other(s))' = Score(n, Other(s))
      BY <3>2 DEF Past
    <3>4. client'[s].reveal + 1 \in 0..Len(rounds')
      BY <1>1, <2>1 DEF SidesInv, SideInv, ViewTrue
    <3>5. n \in 0..Len(rounds') /\ n <= Len(rounds') /\ client'[s].phase \notin {"closed", "reveal"}
      BY <1>1, <2>1, <2>2, <3>2
    <3> QED
      BY <3>2, <3>3, <3>4, <3>5 DEF ViewTrue
  <2>4. ResultShown(s)'
    <3>1. ~client[s].over
      BY <1>1, <1>9 DEF SidesInv, SideInv, ResultShown, Connects
    <3>2. ~Connects(s)'
      BY <1>5, <2>1 DEF Connects
    <3>3. snap.status = "completed" /\ accepts <= 1 =>
            duel.winner # "none" /\ snap.winner = duel.winner
      BY <1>2 DEF SnapTrue
    <3> QED
      BY <1>1, <2>1, <3>1, <3>2, <3>3 DEF ResultShown
  <2>5. Fresh(s)'
    <3> SUFFICES ASSUME ~stale'[s] PROVE Ahead(s, client[s].idx)'
      BY DEF Fresh
    <3>1. snap = duel
      BY <1>1, <1>9
    <3>2. client'[s].idx = Len(rounds)
      BY <2>1, <3>1 DEF LiveInv, RoundsAgree
    <3>3. \A d \in Sockets : \A k \in DOMAIN handler'[s][d].up :
            handler'[s][d].up[k] <= Len(rounds)
      BY <1>1, <1>7 DEF HandlerTrue
    <3>4. \A j \in Nat : <<j, s>> \in answered' => j <= Len(rounds)
      BY <1>1 DEF RowTrue
    <3> QED
      BY <3>2, <3>3, <3>4 DEF Ahead
  <2> QED
    BY <2>3, <2>4, <2>5
<1>10. ASSUME client[s].conn # c, client'[s] = Lost(s)
       PROVE ViewTrue(s)' /\ ResultShown(s)' /\ Fresh(s)'
  <2>1. stale'[s] = stale[s]
    BY <1>1, <1>10
  <2> QED
    BY <1>10, <2>1, LostKeeps DEF SidesInv, SideInv
<1>11. ASSUME client[s].conn # c, client'[s] = client[s]
       PROVE ViewTrue(s)' /\ ResultShown(s)' /\ Fresh(s)'
  <2>1. (Connects(s)' => Connects(s)) /\ (Joined(s)' => Joined(s))
    BY <1>5, <1>11 DEF Connects, Joined
  <2>2. PICK i : i = client[s].idx
    OBVIOUS
  <2>3. Ahead(s, i) => Ahead(s, i)'
    <3>1. \A d \in Sockets :
            handler'[s][d].up = handler[s][d].up \/ handler'[s][d].up = <<>>
      BY <1>5
    <3>2. answered' = answered
      BY <1>1
    <3> QED
      BY <3>1, <3>2 DEF Ahead
  <2>4. SocketsTyped /\ ViewTrue(s) /\ ResultShown(s) /\ Fresh(s)
    BY DEF SidesInv, SideInv
  <2>5. stale'[s] = stale[s]
    BY <1>1, <1>11
  <2> QED
    BY <1>5, <1>11, <2>1, <2>2, <2>3, <2>4, <2>5, SameQuestion
<1>12. SideInv(s)'
  BY <1>4, <1>7, <1>8, <1>9, <1>10, <1>11 DEF SideInv
<1>13. SideInv(o)'
  BY <1>1, <1>3, <1>4, <1>5, OtherStays
<1> QED
  BY <1>6, <1>12, <1>13, TwoSides DEF SidesInv

\* A handler of s takes a step and stays what it is to the hub: what does not depend on
\* the screens.
LEMMA DeskStep ==
  ASSUME Past, SidesInv, NEW s \in Sides, NEW c \in Sockets, NEW h \in Desk,
         Becomes(s, c, h), UNCHANGED room,
         h.pc = "none" <=> handler[s][c].pc = "none",
         h.pc = "read" <=> handler[s][c].pc = "read",
         h.pc = "read" => h.snap = handler[s][c].snap,
         \A k \in DOMAIN h.up : h.up[k] <= Len(rounds'),
         h.pc \in {"own", "others"} => ResultTrue(h.res)'
  PROVE  /\ handler' \in [Sides -> [Sockets -> Desk]] /\ handler'[s][c] = h
         /\ handler'[Other(s)] = handler[Other(s)]
         /\ \A d \in Sockets \ {c} : handler'[s][d] = handler[s][d]
         /\ RoomTrue(s)' /\ (\A d \in Sockets : HandlerTrue(s, d)')
         /\ client'[s].conn = client[s].conn =>
              (Connects(s)' <=> Connects(s)) /\ (Joined(s)' <=> Joined(s))
<1>1. /\ handler' \in [Sides -> [Sockets -> Desk]] /\ handler'[s][c] = h
      /\ \A p \in Sides \ {s} : handler'[p] = handler[p]
      /\ \A p \in Sides, d \in Sockets : p # s \/ d # c => handler'[p][d] = handler[p][d]
  BY BecomesEffect DEF SidesInv
<1>2. /\ handler'[Other(s)] = handler[Other(s)]
      /\ \A d \in Sockets \ {c} : handler'[s][d] = handler[s][d]
  BY <1>1, TwoSides
<1>3. \A d \in Sockets : /\ handler'[s][d].pc = "none" <=> handler[s][d].pc = "none"
                         /\ handler'[s][d].pc = "read" <=> handler[s][d].pc = "read"
  BY <1>1, <1>2
<1>4. RoomTrue(s)'
  BY <1>3, RoomStays DEF SidesInv, SideInv
<1>5. HandlerTrue(s, c)'
  <2>1. h.pc = "read" => SnapTrue(h.snap)'
    <3> SUFFICES ASSUME h.pc = "read" PROVE SnapTrue(h.snap)'
      OBVIOUS
    <3>1. SnapTrue(h.snap)
      BY DEF SidesInv, SideInv, HandlerTrue
    <3> QED
      BY <3>1, SnapStays
  <2> QED
    BY <1>1, <2>1 DEF HandlerTrue
<1>6. \A d \in Sockets : HandlerTrue(s, d)'
  BY <1>2, <1>5, OtherDesks
<1>7. client'[s].conn = client[s].conn =>
        (Connects(s)' <=> Connects(s)) /\ (Joined(s)' <=> Joined(s))
  BY <1>3 DEF Connects, Joined
<1> QED
  BY <1>1, <1>2, <1>4, <1>6, <1>7

LEMMA ScoreAllNext ==
  ASSUME LiveInv', NEW p \in Sides
  PROVE  Score(Len(rounds), p)' = duel'.wins[p]
<1>1. DOMAIN rounds' = 1..Len(rounds')
  BY DEF LiveInv, TablesTyped
<1>2. WinsOf(p)' = Score(Len(rounds), p)'
  BY <1>1 DEF WinsOf, Score
<1> QED
  BY <1>2 DEF LiveInv, RoundsAgree

\* The result as the player p is sent it.
LEMMA PostView ==
  ASSUME NEW v \in View, NEW p \in Sides, NEW res \in Result
  PROVE  LET w == Handled(v, Personalize(res, p))
         IN /\ w \in View /\ w.phase = "reveal" /\ w.reveal = res.idx
            /\ w.mine = res.wins[p] /\ w.theirs = res.wins[Other(p)] /\ w.idx = v.idx
            /\ w.conn = v.conn /\ w.over = (res.winner # "none")
            /\ (res.winner # "none" => w.won = (res.winner = p))
<1> DEFINE idx == res.idx
           mine == res.wins[p]
           theirs == res.wins[Other(p)]
           finished == res.winner # "none"
           won == res.winner = p
           w == Handled(v, Personalize(res, p))
           x == Handled(v, [type |-> "round_result", idx |-> idx, mine |-> mine,
                            theirs |-> theirs, finished |-> finished, won |-> won])
<1>1. idx \in Nat /\ mine \in Nat /\ theirs \in Nat
  BY TwoSides DEF Result
<1>2. finished \in BOOLEAN /\ won \in BOOLEAN
  OBVIOUS
<1>3. w = x
  BY Zenon DEF Personalize
<1> HIDE DEF idx, mine, theirs, finished, won
<1>4. /\ x \in View /\ x.phase = "reveal" /\ x.reveal = idx /\ x.mine = mine
      /\ x.theirs = theirs /\ x.idx = v.idx /\ x.conn = v.conn
      /\ x.over = finished /\ (finished => x.won = won)
  BY <1>1, <1>2, ResultView
<1> HIDE DEF w, x
<1>5. /\ w \in View /\ w.phase = "reveal" /\ w.reveal = res.idx
      /\ w.mine = res.wins[p] /\ w.theirs = res.wins[Other(p)] /\ w.idx = v.idx
      /\ w.conn = v.conn
  BY <1>3, <1>4, Zenon DEF idx, mine, theirs
<1>6. w.over = (res.winner # "none") /\ (res.winner # "none" => w.won = (res.winner = p))
  BY <1>3, <1>4, Zenon DEF finished, won
<1> QED
  BY <1>5, <1>6, Zenon DEF w

\* A result that is sent to p: late or not, what the screen shows was true, and if
\* everything it was sent was up to date so is its question.
LEMMA PostKeeps ==
  ASSUME LiveInv, Past, SidesInv, NEW p \in Sides, NEW res, ResultTrue(res),
         PostResult(res, p), UNCHANGED <<duel, answered, rounds, accepts, room>>,
         handler' \in [Sides -> [Sockets -> Desk]],
         client'[p].conn = client[p].conn =>
           (Connects(p)' <=> Connects(p)) /\ (Joined(p)' <=> Joined(p)),
         \A d \in Sockets : handler'[p][d].up = handler[p][d].up
  PROVE  /\ client' \in [Sides -> View] /\ stale' \in [Sides -> BOOLEAN]
         /\ client'[Other(p)] = client[Other(p)] /\ stale'[Other(p)] = stale[Other(p)]
         /\ ViewTrue(p)' /\ ResultShown(p)' /\ Fresh(p)'
<1>1. /\ client \in [Sides -> View] /\ stale \in [Sides -> BOOLEAN] /\ Other(p) # p
      /\ Other(p) \in Sides /\ Len(rounds) \in Nat /\ SocketsTyped
      /\ ViewTrue(p) /\ ResultShown(p) /\ Fresh(p) /\ RoomTrue(p)
  BY TwoSides DEF SidesInv, SideInv, SocketsTyped, Past
<1>2. PICK i : i = client[p].idx
  OBVIOUS
<1>3. Ahead(p, i) => Ahead(p, i)'
  BY DEF Ahead
<1>4. CASE ~Reaches(p)
  <2>1. client' = client /\ stale' = stale
    BY <1>4 DEF PostResult
  <2> QED
    BY <1>1, <1>2, <1>3, <2>1, SameQuestion
<1>5. CASE Reaches(p)
  <2> DEFINE w == Handled(client[p], Personalize(res, p))
             late == stale[p] \/ res.idx + 1 # duel.round
  <2>1. /\ w \in View /\ w.phase = "reveal" /\ w.reveal = res.idx
        /\ w.mine = res.wins[p] /\ w.theirs = res.wins[Other(p)] /\ w.idx = client[p].idx
        /\ w.conn = client[p].conn /\ w.over = (res.winner # "none")
        /\ (res.winner # "none" => w.won = (res.winner = p))
    <3>1. client[p] \in View /\ res \in Result
      BY <1>1 DEF ResultTrue
    <3> QED
      BY <3>1, PostView
  <2>2. client' = [client EXCEPT ![p] = w] /\ stale' = [stale EXCEPT ![p] = late]
    BY <1>5 DEF PostResult
  <2>3. late \in BOOLEAN
    BY <1>1
  <2> HIDE DEF w, late
  <2>4. client' \in [Sides -> View] /\ client'[p] = w /\ client'[Other(p)] = client[Other(p)]
    BY <1>1, <2>1, <2>2
  <2>5. /\ stale' \in [Sides -> BOOLEAN] /\ stale'[p] = late
        /\ stale'[Other(p)] = stale[Other(p)]
    BY <1>1, <2>2, <2>3
  <2>6. Joined(p) /\ ~Connects(p)
    BY <1>1, <1>5 DEF Reaches, RoomTrue, Joined, Connects, SocketsTyped, View, NoSocket, Sockets
  <2>7. client'[p].conn = client[p].conn /\ client'[p].idx = client[p].idx
    BY <2>1, <2>4
  <2>8. res.idx \in Nat /\ res.idx < Len(rounds)
    BY DEF ResultTrue, Result
  <2>9. ~late => ~stale[p] /\ res.idx + 1 = Len(rounds)
    BY DEF late, LiveInv, RoundsAgree
  <2>10. ~late => i \in {res.idx, res.idx + 1}
    <3> SUFFICES ASSUME ~late PROVE i \in {res.idx, res.idx + 1}
      OBVIOUS
    <3>1. <<res.idx, p>> \in answered
      <4>1. res.idx \in 0..Len(rounds) - 1
        BY <1>1, <2>8
      <4> QED
        BY <4>1 DEF LiveInv, RoundsAgree
    <3>2. Ahead(p, i)
      BY <1>1, <1>2, <2>6, <2>9 DEF Fresh
    <3>3. i \in Nat /\ i <= Len(rounds)
      BY <1>1, <1>2 DEF ViewTrue, View
    <3>4. res.idx <= i
      BY <2>8, <3>1, <3>2 DEF Ahead
    <3> QED
      BY <2>8, <2>9, <3>3, <3>4
  <2>11. ViewTrue(p)'
    <3>1. PICK n : n = res.idx + 1
      OBVIOUS
    <3>2. /\ n \in 0..Len(rounds) /\ client'[p].mine = Score(n, p)
          /\ client'[p].theirs = Score(n, Other(p))
      <4>1. res.wins[p] = Score(n, p) /\ res.wins[Other(p)] = Score(n, Other(p))
        BY <1>1, <3>1 DEF ResultTrue
      <4> QED
        BY <1>1, <2>1, <2>4, <2>8, <3>1, <4>1
    <3>3. Score(n, p)' = Score(n, p) /\ Score(n, Other(p))' = Score(n, Other(p))
      BY <3>2 DEF Past
    <3>4. /\ client'[p].idx = i /\ i <= Len(rounds') /\ client'[p].reveal = res.idx
          /\ client'[p].phase = "reveal"
      BY <1>1, <1>2, <2>1, <2>4 DEF ViewTrue
    <3>5. client'[p].reveal + 1 = n /\ n \in 0..Len(rounds')
      BY <3>1, <3>2, <3>4
    <3>6. stale'[p] \/ client'[p].idx \in {n - 1, n}
      BY <2>5, <2>8, <2>10, <3>1, <3>4
    <3> QED
      BY <3>2, <3>3, <3>4, <3>5, <3>6 DEF ViewTrue
  <2>12. ResultShown(p)'
    <3>1. ~Connects(p)'
      BY <2>6, <2>7
    <3>2. res.winner # "none" /\ accepts <= 1 => res.winner = duel.winner
      BY DEF ResultTrue
    <3>3. /\ client'[p].over = (res.winner # "none") /\ client'[p].phase = "reveal"
          /\ (res.winner # "none" => client'[p].won = (res.winner = p))
      BY <2>1, <2>4
    <3> QED
      BY <3>1, <3>2, <3>3 DEF ResultShown
  <2>13. Fresh(p)'
    <3>1. stale[p] => stale'[p]
      BY <2>5 DEF late
    <3>2. Joined(p)' => Joined(p)
      BY <2>7
    <3>3. i \in Nat /\ i <= i /\ i = client'[p].idx
      BY <1>1, <1>2, <2>7 DEF View
    <3> QED
      BY <1>1, <1>2, <1>3, <3>1, <3>2, <3>3, FreshStays
  <2> QED
    BY <2>4, <2>5, <2>11, <2>12, <2>13
<1> QED
  BY <1>4, <1>5

LEMMA SendKeeps ==
  ASSUME LiveInv, Past, SidesInv, NEW s \in Sides, NEW c \in Sockets,
         SendOwn(s, c) \/ SendOthers(s, c)
  PROVE  SidesInv'
<1> DEFINE res == handler[s][c].res
<1>1. /\ UNCHANGED <<duel, answered, rounds, accepts, room>>
      /\ handler[s][c] \in Desk /\ handler[s][c].pc \in {"own", "others"}
      /\ Other(s) \in Sides /\ Other(s) # s /\ Other(Other(s)) = s
      /\ SocketsTyped
  BY TwoSides DEF SendOwn, SendOthers, tables, challenge, SidesInv, SocketsTyped
<1>2. ResultTrue(res)
  BY <1>1 DEF SidesInv, SideInv, HandlerTrue
<1>3. PICK h \in Desk : /\ Becomes(s, c, h) /\ h.up = handler[s][c].up
                        /\ h.pc \in {"serving", "others"}
                        /\ h.pc = "others" => h.res = res
  <2>1. CASE SendOwn(s, c)
    <3> DEFINE h == [handler[s][c] EXCEPT !.pc = "others"]
    <3>1. /\ h \in Desk /\ h.pc = "others" /\ h.up = handler[s][c].up
          /\ h.res = handler[s][c].res
      <4>1. "others" \in Steps
        BY DEF Steps
      <4> QED
        BY <1>1, <4>1, Zenon DEF Desk
    <3>2. Becomes(s, c, h)
      BY <2>1 DEF SendOwn
    <3> HIDE DEF h
    <3> QED
      BY <3>1, <3>2
  <2>2. CASE SendOthers(s, c)
    <3> DEFINE h == [handler[s][c] EXCEPT !.pc = "serving", !.res = <<>>]
    <3>1. h \in Desk /\ h.pc = "serving" /\ h.up = handler[s][c].up
      <4>1. "serving" \in Steps /\ <<>> \in Result \cup {<<>>}
        BY DEF Steps
      <4> QED
        BY <1>1, <4>1, Zenon DEF Desk
    <3>2. Becomes(s, c, h)
      BY <2>2 DEF SendOthers
    <3> HIDE DEF h
    <3> QED
      BY <3>1, <3>2
  <2> QED
    BY <2>1, <2>2
<1>4. PICK p \in Sides : PostResult(res, p)
  BY <1>1 DEF SendOwn, SendOthers
<1> HIDE DEF res
<1>5. /\ handler' \in [Sides -> [Sockets -> Desk]] /\ handler'[s][c] = h
      /\ handler'[Other(s)] = handler[Other(s)]
      /\ \A d \in Sockets \ {c} : handler'[s][d] = handler[s][d]
      /\ RoomTrue(s)' /\ (\A d \in Sockets : HandlerTrue(s, d)')
      /\ client'[s].conn = client[s].conn =>
           (Connects(s)' <=> Connects(s)) /\ (Joined(s)' <=> Joined(s))
  <2>1. \A k \in DOMAIN h.up : h.up[k] <= Len(rounds')
    BY <1>1, <1>3 DEF SidesInv, SideInv, HandlerTrue
  <2>2. h.pc \in {"own", "others"} => ResultTrue(h.res)'
    <3> SUFFICES ASSUME h.pc = "others" PROVE ResultTrue(h.res)'
      BY <1>3
    <3>1. ResultTrue(h.res)
      BY <1>2, <1>3
    <3> QED
      BY <3>1, ResultStays
  <2>3. /\ h.pc = "none" <=> handler[s][c].pc = "none"
        /\ h.pc = "read" <=> handler[s][c].pc = "read"
        /\ h.pc = "read" => h.snap = handler[s][c].snap
    BY <1>1, <1>3
  <2> QED
    BY <1>1, <1>3, <2>1, <2>2, <2>3, DeskStep
<1>6. \A q \in Sides :
        /\ \A d \in Sockets : handler'[q][d].up = handler[q][d].up
        /\ client'[q].conn = client[q].conn =>
             (Connects(q)' <=> Connects(q)) /\ (Joined(q)' <=> Joined(q))
  <2>1. \A d \in Sockets : handler'[s][d].up = handler[s][d].up
    BY <1>3, <1>5
  <2>2. client'[Other(s)].conn = client[Other(s)].conn =>
             /\ Connects(Other(s))' <=> Connects(Other(s))
             /\ Joined(Other(s))' <=> Joined(Other(s))
    BY <1>5 DEF Connects, Joined
  <2> QED
    BY <1>5, <2>1, <2>2, TwoSides
<1>7. /\ client' \in [Sides -> View] /\ stale' \in [Sides -> BOOLEAN]
      /\ client'[Other(p)] = client[Other(p)] /\ stale'[Other(p)] = stale[Other(p)]
      /\ ViewTrue(p)' /\ ResultShown(p)' /\ Fresh(p)'
  BY <1>1, <1>2, <1>4, <1>5, <1>6, PostKeeps
<1>8. \A q \in Sides : ViewTrue(q)' /\ ResultShown(q)' /\ Fresh(q)'
  <2>1. PICK i : i = client[Other(p)].idx
    OBVIOUS
  <2>2. Ahead(Other(p), i) => Ahead(Other(p), i)'
    BY <1>1, <1>6, TwoSides DEF Ahead
  <2>3. ViewTrue(Other(p)) /\ ResultShown(Other(p)) /\ Fresh(Other(p)) /\ Other(p) \in Sides
    BY TwoSides DEF SidesInv, SideInv
  <2>4. ViewTrue(Other(p))' /\ ResultShown(Other(p))' /\ Fresh(Other(p))'
    BY <1>1, <1>5, <1>6, <1>7, <2>1, <2>2, <2>3, SameQuestion
  <2> QED
    BY <1>7, <2>4, TwoSides
<1>9. RoomTrue(Other(s))' /\ \A d \in Sockets : HandlerTrue(Other(s), d)'
  <2>1. RoomTrue(Other(s))'
    BY <1>1, <1>5 DEF SidesInv, SideInv, RoomTrue
  <2>2. ASSUME NEW d \in Sockets PROVE HandlerTrue(Other(s), d)'
    <3>1. \A k \in DOMAIN handler'[Other(s)][d].up : handler'[Other(s)][d].up[k] <= Len(rounds')
      BY <1>1, <1>5 DEF SidesInv, SideInv, HandlerTrue
    <3> QED
      BY <1>1, <1>5, <3>1, HandlerStays DEF SidesInv, SideInv
  <2> QED
    BY <2>1, <2>2
<1>10. SocketsTyped'
  BY <1>1, <1>5, <1>7 DEF SocketsTyped
<1> QED
  BY <1>5, <1>8, <1>9, <1>10, TwoSides DEF SidesInv, SideInv

\* Only s is concerned, and its screen keeps its question.
LEMMA OwnScreen ==
  ASSUME Past, SidesInv, NEW s \in Sides, NEW c \in Sockets, NEW h \in Desk,
         Becomes(s, c, h), UNCHANGED room,
         h.pc = "none" <=> handler[s][c].pc = "none",
         h.pc = "read" <=> handler[s][c].pc = "read",
         h.pc = "read" => h.snap = handler[s][c].snap,
         \A k \in DOMAIN h.up : h.up[k] <= Len(rounds'),
         h.pc \in {"own", "others"} => ResultTrue(h.res)',
         \A p \in Sides : \A j \in Nat : <<j, p>> \in answered' =>
           <<j, p>> \in answered \/ (p = s /\ \E k \in DOMAIN handler[s][c].up :
                                                 handler[s][c].up[k] = j),
         \A k \in DOMAIN h.up : (\E l \in DOMAIN handler[s][c].up :
                                   handler[s][c].up[l] = h.up[k]) \/ h.up[k] = client[s].idx,
         NEW phase \in Phases, NEW late \in BOOLEAN,
         phase = client[s].phase \/ phase \notin {"closed", "reveal", "done"},
         client' = client \/ client' = [client EXCEPT ![s] = [client[s] EXCEPT !.phase = phase]],
         stale' = stale \/ stale' = [stale EXCEPT ![s] = stale[s] \/ late]
  PROVE  SidesInv'
<1>1. /\ client \in [Sides -> View] /\ stale \in [Sides -> BOOLEAN] /\ Other(s) # s
      /\ Other(s) \in Sides /\ SocketsTyped /\ client[s] \in View
      /\ ViewTrue(s) /\ ResultShown(s) /\ Fresh(s) /\ RoomTrue(s)
      /\ handler \in [Sides -> [Sockets -> Desk]]
  BY TwoSides DEF SidesInv, SideInv, SocketsTyped
<1>2. /\ handler' \in [Sides -> [Sockets -> Desk]] /\ handler'[s][c] = h
      /\ handler'[Other(s)] = handler[Other(s)]
      /\ \A d \in Sockets \ {c} : handler'[s][d] = handler[s][d]
      /\ RoomTrue(s)' /\ (\A d \in Sockets : HandlerTrue(s, d)')
      /\ client'[s].conn = client[s].conn =>
           (Connects(s)' <=> Connects(s)) /\ (Joined(s)' <=> Joined(s))
  BY DeskStep
<1>3. /\ stale' \in [Sides -> BOOLEAN] /\ stale'[Other(s)] = stale[Other(s)]
      /\ stale[s] => stale'[s]
  <2>1. CASE stale' = stale
    BY <1>1, <2>1
  <2>2. CASE stale' = [stale EXCEPT ![s] = stale[s] \/ late]
    <3>1. (stale[s] \/ late) \in BOOLEAN
      BY <1>1
    <3> QED
      BY <1>1, <2>2, <3>1
  <2> QED
    BY <2>1, <2>2
<1>4. /\ client' \in [Sides -> View] /\ client'[Other(s)] = client[Other(s)]
      /\ client'[s].conn = client[s].conn /\ client'[s].idx = client[s].idx
      /\ client'[s].mine = client[s].mine /\ client'[s].theirs = client[s].theirs
      /\ client'[s].reveal = client[s].reveal /\ client'[s].over = client[s].over
      /\ client'[s].won = client[s].won
      /\ client'[s].phase = client[s].phase \/ client'[s].phase \notin {"closed", "reveal", "done"}
  <2>1. CASE client' = client
    BY <1>1, <2>1
  <2>2. CASE client' = [client EXCEPT ![s] = [client[s] EXCEPT !.phase = phase]]
    <3> DEFINE v == client[s]
               w == [v EXCEPT !.phase = phase]
    <3>1. client' = [client EXCEPT ![s] = w]
      BY <2>2
    <3>2. v \in View
      BY <1>1
    <3> HIDE DEF v
    <3>3. /\ w \in View /\ w.phase = phase /\ w.conn = v.conn /\ w.idx = v.idx
          /\ w.mine = v.mine /\ w.theirs = v.theirs /\ w.reveal = v.reveal
          /\ w.over = v.over /\ w.won = v.won
      BY <3>2, PhaseView
    <3> HIDE DEF w
    <3>4. client' \in [Sides -> View] /\ client'[s] = w /\ client'[Other(s)] = client[Other(s)]
      BY <1>1, <3>1, <3>3
    <3> QED
      BY <3>3, <3>4 DEF v
  <2> QED
    BY <2>1, <2>2
<1>5. SocketsTyped'
  BY <1>1, <1>2, <1>3, <1>4 DEF SocketsTyped
<1>6. ViewTrue(s)' /\ ResultShown(s)' /\ Fresh(s)'
  <2>1. PICK i : i = client[s].idx
    OBVIOUS
  <2>2. i \in Nat
    BY <1>1, <2>1 DEF View
  <2>3. Ahead(s, i) => Ahead(s, i)'
    <3> SUFFICES ASSUME Ahead(s, i) PROVE Ahead(s, i)'
      OBVIOUS
    <3>1. \A d \in Sockets : \A k \in DOMAIN handler[s][d].up : handler[s][d].up[k] <= i
      BY DEF Ahead
    <3>2. \A k \in DOMAIN h.up : h.up[k] <= i
      BY <2>1, <2>2, <3>1
    <3>3. \A d \in Sockets : \A k \in DOMAIN handler'[s][d].up : handler'[s][d].up[k] <= i
      BY <1>2, <3>1, <3>2
    <3>4. \A j \in Nat : <<j, s>> \in answered' => j <= i
      <4>1. \A j \in Nat : <<j, s>> \in answered => j <= i
        BY DEF Ahead
      <4> QED
        BY <3>1, <4>1
    <3> QED
      BY <3>3, <3>4 DEF Ahead
  <2>4. /\ Connects(s)' => Connects(s)
        /\ Joined(s)' => Joined(s)
    BY <1>2, <1>4
  <2> QED
    BY <1>1, <1>2, <1>3, <1>4, <2>1, <2>3, <2>4, SameQuestion
<1>7. \A j \in Nat : <<j, Other(s)>> \in answered' => <<j, Other(s)>> \in answered
  BY <1>1
<1>8. SideInv(s)'
  BY <1>2, <1>6 DEF SideInv
<1>9. room'[Other(s)] = room[Other(s)]
  OBVIOUS
<1> QED
  BY <1>2, <1>3, <1>4, <1>5, <1>7, <1>8, <1>9, OneSide

LEMMA SendAckKeeps ==
  ASSUME Past, SidesInv, NEW s \in Sides, NEW c \in Sockets, SendAck(s, c)
  PROVE  SidesInv'
<1>1. /\ UNCHANGED <<duel, answered, rounds, accepts, room>>
      /\ handler[s][c] \in Desk /\ handler[s][c].pc = "ack" /\ client[s] \in View
  BY DEF SendAck, tables, challenge, SidesInv, SocketsTyped
<1> DEFINE h == [handler[s][c] EXCEPT !.pc = "serving", !.res = <<>>]
           late == handler[s][c].res.idx # duel.round
<1>2. h \in Desk /\ h.pc = "serving" /\ h.up = handler[s][c].up
  <2>1. "serving" \in Steps /\ <<>> \in Result \cup {<<>>}
    BY DEF Steps
  <2> QED
    BY <1>1, <2>1, Zenon DEF Desk
<1>3. Becomes(s, c, h) /\ UNCHANGED room
  BY <1>1 DEF SendAck
<1>4. late \in BOOLEAN /\ "waiting" \in Phases
  BY DEF Phases
<1>5. /\ client' = client \/ client' = [client EXCEPT ![s] = [client[s] EXCEPT !.phase = "waiting"]]
      /\ stale' = stale \/ stale' = [stale EXCEPT ![s] = stale[s] \/ late]
  <2>1. Handled(client[s], [type |-> "answer_ack"]) = [client[s] EXCEPT !.phase = "waiting"]
    BY <1>1, AckView, Zenon
  <2>2. \/ UNCHANGED <<client, stale>>
        \/ /\ client' = [client EXCEPT ![s] = Handled(client[s], [type |-> "answer_ack"])]
           /\ stale' = [stale EXCEPT ![s] = stale[s] \/ late]
    BY DEF SendAck
  <2> QED
    BY <2>1, <2>2, Zenon
<1> HIDE DEF h, late
<1>6. \A k \in DOMAIN h.up : h.up[k] <= Len(rounds')
  BY <1>1, <1>2 DEF SidesInv, SideInv, HandlerTrue
<1>7. \A p \in Sides : \A j \in Nat : <<j, p>> \in answered' => <<j, p>> \in answered
  BY <1>1
<1>8. \A k \in DOMAIN h.up : \E l \in DOMAIN handler[s][c].up :
        handler[s][c].up[l] = h.up[k]
  BY <1>2
<1> QED
  BY <1>1, <1>2, <1>3, <1>4, <1>5, <1>6, <1>7, <1>8, OwnScreen

LEMMA SubmitKeeps ==
  ASSUME Past, SidesInv, NEW s \in Sides, SubmitAnswer(s)
  PROVE  SidesInv'
<1> DEFINE c == client[s].conn
           h == [handler[s][c] EXCEPT !.up = Append(handler[s][c].up, client[s].idx)]
<1>1. /\ UNCHANGED <<duel, answered, rounds, accepts, room, stale>>
      /\ client[s] \in View /\ ViewTrue(s) /\ Becomes(s, c, h)
      /\ client' = [client EXCEPT ![s].phase = "waiting"]
      /\ handler \in [Sides -> [Sockets -> Desk]]
  BY DEF SubmitAnswer, tables, challenge, SidesInv, SideInv, SocketsTyped
<1>2. client[s].idx \in Nat /\ client[s].idx <= Len(rounds) /\ "waiting" \in Phases
  BY <1>1 DEF View, ViewTrue, Phases
<1>3. client' = [client EXCEPT ![s] = [client[s] EXCEPT !.phase = "waiting"]]
  BY <1>1
<1>4. \A p \in Sides : \A j \in Nat : <<j, p>> \in answered' => <<j, p>> \in answered
  BY <1>1
<1>5. CASE c \in Sockets
  <2>1. handler[s][c] \in Desk /\ handler[s][c].up \in Seq(Nat)
    BY <1>1, <1>5 DEF Desk
  <2>2. PICK up : up = Append(handler[s][c].up, client[s].idx)
    OBVIOUS
  <2>3. up \in Seq(Nat)
    BY <1>2, <2>1, <2>2
  <2>4. /\ h \in Desk /\ h.pc = handler[s][c].pc /\ h.up = up
        /\ h.snap = handler[s][c].snap /\ h.res = handler[s][c].res
    <3>1. h = [handler[s][c] EXCEPT !.up = up]
      BY <2>2
    <3> HIDE DEF h
    <3> QED
      BY <2>1, <2>3, <3>1, Zenon DEF Desk
  <2> HIDE DEF h, c
  <2>8. PICK g \in Desk : /\ Becomes(s, c, g) /\ g.pc = handler[s][c].pc /\ g.up = up
                          /\ g.snap = handler[s][c].snap /\ g.res = handler[s][c].res
    BY <1>1, <2>4
  <2>5. \A k \in DOMAIN g.up : (\E l \in DOMAIN handler[s][c].up :
          handler[s][c].up[l] = g.up[k]) \/ g.up[k] = client[s].idx
    BY <2>1, <2>2, <2>8, SMTT(40)
  <2>6. \A k \in DOMAIN g.up : g.up[k] <= Len(rounds')
    BY <1>1, <1>2, <1>5, <2>5 DEF SidesInv, SideInv, HandlerTrue
  <2>7. g.pc \in {"own", "others"} => ResultTrue(g.res)'
    <3> SUFFICES ASSUME g.pc \in {"own", "others"} PROVE ResultTrue(g.res)'
      OBVIOUS
    <3>1. ResultTrue(g.res)
      BY <1>5, <2>8 DEF SidesInv, SideInv, HandlerTrue
    <3> QED
      BY <3>1, ResultStays
  <2> QED
    BY <1>1, <1>2, <1>3, <1>4, <1>5, <2>8, <2>5, <2>6, <2>7, OwnScreen
<1>6. CASE c \notin Sockets
  <2>1. handler' = handler
    BY <1>1, <1>6 DEF Becomes
  <2>2. PICK h2 \in Desk : \E d \in Sockets : h2 = handler[s][d]
    BY <1>1 DEF Sockets
  <2>3. PICK d \in Sockets : h2 = handler[s][d]
    BY <2>2
  <2>4. Becomes(s, d, h2)
    BY <1>1, <2>1, <2>3 DEF Becomes
  <2>5. \A k \in DOMAIN h2.up : h2.up[k] <= Len(rounds')
    BY <1>1, <2>3 DEF SidesInv, SideInv, HandlerTrue
  <2>6. h2.pc \in {"own", "others"} => ResultTrue(h2.res)'
    <3> SUFFICES ASSUME h2.pc \in {"own", "others"} PROVE ResultTrue(h2.res)'
      OBVIOUS
    <3>1. ResultTrue(h2.res)
      BY <2>3, SMTT(40) DEF SidesInv, SideInv, HandlerTrue
    <3> QED
      BY <3>1, ResultStays
  <2> QED
    BY <1>1, <1>2, <1>3, <1>4, <2>3, <2>4, <2>5, <2>6, OwnScreen
<1> QED
  BY <1>5, <1>6

LEMMA ServeKeeps ==
  ASSUME LiveInv, LiveInv', Past, SidesInv, NEW s \in Sides, NEW c \in Sockets, Serve(s, c)
  PROVE  SidesInv'
<1>1. /\ UNCHANGED <<accepts, room, client, stale>> /\ handler[s][c] \in Desk
      /\ handler[s][c].pc = "serving" /\ client[s] \in View /\ handler[s][c].up \in Seq(Nat)
      /\ handler[s][c].up # <<>> /\ stale \in [Sides -> BOOLEAN]
      /\ Len(rounds) \in Nat /\ Len(rounds') \in Nat /\ Len(rounds) <= Len(rounds')
  BY DEF Serve, challenge, SidesInv, SocketsTyped, Desk, Past
<1>2. PICK up, i : up = handler[s][c].up /\ i = Head(up)
  OBVIOUS
<1>3. /\ up \in Seq(Nat) /\ up # <<>> /\ i \in Nat /\ Tail(up) \in Seq(Nat)
      /\ 1 \in DOMAIN up /\ up[1] = i
      /\ \A k \in DOMAIN Tail(up) : k + 1 \in DOMAIN up /\ Tail(up)[k] = up[k + 1]
  <2>1. up \in Seq(Nat) /\ up # <<>>
    BY <1>1, <1>2
  <2>2. Len(up) \in Nat /\ Len(up) > 0 /\ DOMAIN up = 1..Len(up)
    BY <2>1
  <2>3. i = up[1] /\ 1 \in DOMAIN up /\ i \in Nat
    BY <1>2, <2>1, <2>2
  <2>4. Tail(up) \in Seq(Nat) /\ Len(Tail(up)) = Len(up) - 1
    BY <2>1, <2>2
  <2>5. \A k \in DOMAIN Tail(up) : k + 1 \in DOMAIN up /\ Tail(up)[k] = up[k + 1]
    BY <2>1, <2>2, <2>4
  <2> QED
    BY <2>1, <2>3, <2>4, <2>5
<1>4. \A k \in DOMAIN up : up[k] \in Nat /\ up[k] <= Len(rounds')
  <2>1. \A k \in DOMAIN up : up[k] <= Len(rounds)
    BY <1>2 DEF SidesInv, SideInv, HandlerTrue
  <2> QED
    BY <1>1, <1>3, <2>1
<1>5. ASSUME NEW g \in Desk, Becomes(s, c, g), g.up = Tail(up),
             g.pc \in {"serving", "ack", "own"}, g.pc = "own" => ResultTrue(g.res)',
             answered' \in {answered, answered \cup {<<i, s>>}}
      PROVE  SidesInv'
  <2>1. \A p \in Sides : \A j \in Nat : <<j, p>> \in answered' =>
           <<j, p>> \in answered \/ (p = s /\ \E k \in DOMAIN handler[s][c].up :
                                                 handler[s][c].up[k] = j)
    BY <1>2, <1>3, <1>5
  <2>2. \A k \in DOMAIN g.up : \E l \in DOMAIN handler[s][c].up :
          handler[s][c].up[l] = g.up[k]
    BY <1>2, <1>3, <1>5
  <2>3. \A k \in DOMAIN g.up : g.up[k] <= Len(rounds')
    BY <1>3, <1>4, <1>5
  <2>4. FALSE \in BOOLEAN
    OBVIOUS
  <2>5. g.pc \in {"own", "others"} => ResultTrue(g.res)'
    BY <1>5
  <2>6. /\ g.pc = "none" <=> handler[s][c].pc = "none"
        /\ g.pc = "read" <=> handler[s][c].pc = "read"
        /\ g.pc = "read" => g.snap = handler[s][c].snap
    BY <1>1, <1>5
  <2>7. /\ client' = client /\ stale' = stale /\ UNCHANGED room /\ Becomes(s, c, g)
        /\ "waiting" \in Phases
    BY <1>1, <1>5 DEF Phases
  <2> QED
    BY <1>5, <2>1, <2>2, <2>3, <2>4, <2>5, <2>6, <2>7, OwnScreen
<1>6. ASSUME Becomes(s, c, [handler[s][c] EXCEPT !.up = Tail(up)]), UNCHANGED tables
      PROVE  SidesInv'
  <2> DEFINE g == [handler[s][c] EXCEPT !.up = Tail(up)]
  <2>1. g \in Desk /\ g.up = Tail(up) /\ g.pc = "serving"
    BY <1>1, <1>3, Zenon DEF Desk
  <2>2. Becomes(s, c, g) /\ answered' = answered
    BY <1>6 DEF tables
  <2> HIDE DEF g
  <2> QED
    BY <1>5, <2>1, <2>2
<1>7. ASSUME NEW res \in Result, NEW pc \in {"ack", "own"}, pc = "own" => ResultTrue(res)',
             Becomes(s, c, [handler[s][c] EXCEPT !.up = Tail(up), !.pc = pc, !.res = res]),
             answered' = answered \cup {<<i, s>>}
      PROVE  SidesInv'
  <2> DEFINE g == [handler[s][c] EXCEPT !.up = Tail(up), !.pc = pc, !.res = res]
  <2>1. g \in Desk /\ g.up = Tail(up) /\ g.pc = pc /\ g.res = res
    <3>1. pc \in Steps /\ res \in Result \cup {<<>>}
      BY <1>7 DEF Steps
    <3> QED
      BY <1>1, <1>3, <3>1, Zenon DEF Desk
  <2>2. Becomes(s, c, g)
    BY <1>7, SMTT(40)
  <2> HIDE DEF g
  <2> QED
    BY <1>5, <1>7, <2>1, <2>2
<1>8. CASE Accepts(i) /\ AwaitsOther(s, i) /\ Becomes(s, c,
             [handler[s][c] EXCEPT !.up = Tail(@), !.pc = "ack",
                !.res = [idx |-> i, wins |-> duel.wins, winner |-> "none"]])
  <2>1. [idx |-> i, wins |-> duel.wins, winner |-> "none"] \in Result
    BY <1>3, SMTT(40) DEF Result, LiveInv, TablesTyped
  <2> QED
    BY <1>2, <1>7, <1>8, <2>1 DEF AwaitsOther
<1>9. ASSUME NEW outcome \in Outcomes, NEW winner \in Sides \cup {"none"}, Accepts(i),
             Resolves(s, i, outcome, winner), Becomes(s, c,
               [handler[s][c] EXCEPT !.up = Tail(@), !.pc = "own",
                  !.res = [idx |-> i, wins |-> duel'.wins, winner |-> winner]])
      PROVE  SidesInv'
  <2>1. PICK res : res = [idx |-> i, wins |-> duel'.wins, winner |-> winner]
    OBVIOUS
  <2>2. res \in Result
    BY <1>3, <2>1 DEF Result, LiveInv, TablesTyped
  <2>3. /\ i = Len(rounds) /\ rounds' = Append(rounds, outcome) /\ Len(rounds') = i + 1
        /\ answered' = answered \cup {<<i, s>>}
        /\ winner # "none" => duel'.winner = winner
    BY <1>9 DEF Resolves, Accepts, LiveInv, RoundsAgree, TablesTyped, Outcomes
  <2>4. ResultTrue(res)'
    <3>1. \A p \in Sides : res.wins[p] = Score(res.idx + 1, p)'
      <4>1. PICK n : n = i + 1
        OBVIOUS
      <4>2. \A p \in Sides : duel'.wins[p] = Score(Len(rounds), p)'
        BY ScoreAllNext
      <4>3. \A p \in Sides : Score(Len(rounds), p)' = Score(n, p)'
        BY <2>3, <4>1 DEF Score
      <4>4. res.idx + 1 = n /\ res.wins = duel'.wins
        BY <2>1, <4>1
      <4> QED
        BY <4>2, <4>3, <4>4
    <3>2. res.idx < Len(rounds')
      BY <1>3, <2>1, <2>3
    <3>3. res.winner # "none" => res.winner = duel'.winner
      BY <2>1, <2>3
    <3> QED
      BY <2>2, <3>1, <3>2, <3>3 DEF ResultTrue
  <2>5. Becomes(s, c, [handler[s][c] EXCEPT !.up = Tail(up), !.pc = "own", !.res = res])
    BY <1>2, <1>9, <2>1
  <2> QED
    BY <1>7, <2>2, <2>3, <2>4, <2>5
<1> QED
  BY <1>2, <1>6, <1>8, <1>9 DEF Serve, Outcomes

LEMMA DisconnectKeeps ==
  ASSUME Past, SidesInv, NEW s \in Sides, NEW c \in Sockets, Disconnect(s, c)
  PROVE  SidesInv'
<1>1. /\ UNCHANGED <<duel, answered, rounds, accepts, client, stale>>
      /\ Becomes(s, c, NoHandler) /\ client[s].conn # c /\ HubLeave(s, c)
      /\ client \in [Sides -> View] /\ room \in [Sides -> Nat] /\ Other(s) \in Sides
      /\ Other(s) # s /\ stale \in [Sides -> BOOLEAN]
      /\ SocketsTyped /\ ViewTrue(s) /\ ResultShown(s) /\ Fresh(s)
  BY TwoSides DEF Disconnect, tables, challenge, SidesInv, SideInv, SocketsTyped
<1>2. NoHandler \in Desk /\ NoHandler.pc = "none" /\ NoHandler.up = <<>>
  BY DEF NoHandler, Desk, Steps
<1>3. /\ handler' \in [Sides -> [Sockets -> Desk]] /\ handler'[s][c] = NoHandler
      /\ \A p \in Sides \ {s} : handler'[p] = handler[p]
      /\ \A p \in Sides, d \in Sockets : p # s \/ d # c => handler'[p][d] = handler[p][d]
  BY <1>1, <1>2, BecomesEffect
<1>4. /\ room' \in [Sides -> Nat] /\ room'[Other(s)] = room[Other(s)]
      /\ \/ room'[s] = NoSocket
         \/ room'[s] = room[s] /\ room[s] # c
  BY <1>1 DEF HubLeave, NoSocket
<1>5. RoomTrue(s)'
  BY <1>3, <1>4 DEF RoomTrue, SidesInv, SideInv, NoSocket, Sockets
<1>6. HandlerTrue(s, c)'
  BY <1>2, <1>3 DEF HandlerTrue
<1>7. \A d \in Sockets : HandlerTrue(s, d)'
  BY <1>3, <1>6, OtherDesks
<1>8. ViewTrue(s)' /\ ResultShown(s)' /\ Fresh(s)'
  <2>1. PICK i : i = client[s].idx
    OBVIOUS
  <2>2. Ahead(s, i) => Ahead(s, i)'
    <3>1. \A d \in Sockets :
            handler'[s][d].up = handler[s][d].up \/ handler'[s][d].up = <<>>
      BY <1>2, <1>3
    <3> QED
      BY <1>1, <3>1, SMTT(40) DEF Ahead
  <2>3. (Connects(s)' => Connects(s)) /\ (Joined(s)' => Joined(s))
    BY <1>1, <1>3 DEF Connects, Joined
  <2> QED
    BY <1>1, <1>3, <2>1, <2>2, <2>3, SameQuestion
<1>9. SocketsTyped'
  BY <1>1, <1>3, <1>4 DEF SocketsTyped
<1>10. SideInv(s)'
  BY <1>5, <1>7, <1>8 DEF SideInv
<1> QED
  BY <1>1, <1>3, <1>4, <1>9, <1>10, OneSide

LEMMA AdvanceKeeps ==
  ASSUME Past, SidesInv, NEW s \in Sides, Advance(s)
  PROVE  SidesInv'
<1> DEFINE v == client[s]
           done == [v EXCEPT !.phase = "done"]
           next == [v EXCEPT !.phase = "playing", !.idx = v.reveal + 1, !.reveal = -1]
           w == IF v.over THEN done ELSE next
<1>1. /\ UNCHANGED <<duel, answered, rounds, accepts, room, handler, stale>>
      /\ client[s].phase = "reveal" /\ client' = [client EXCEPT ![s] = w]
      /\ client \in [Sides -> View] /\ Other(s) \in Sides /\ Other(s) # s /\ v \in View
      /\ handler \in [Sides -> [Sockets -> Desk]]
      /\ SocketsTyped /\ ViewTrue(s) /\ ResultShown(s) /\ Fresh(s) /\ RoomTrue(s)
      /\ Len(rounds) \in Nat /\ stale \in [Sides -> BOOLEAN]
  BY TwoSides DEF Advance, tables, challenge, SidesInv, SideInv, SocketsTyped, Past
<1>2. /\ v.reveal \in Int /\ v.reveal + 1 \in Nat /\ v.reveal + 1 <= Len(rounds)
      /\ v.idx \in Nat /\ v.over \in BOOLEAN /\ v.mine \in Nat /\ v.theirs \in Nat
  BY <1>1 DEF ViewTrue, View
<1>3. /\ done \in View /\ done.phase = "done" /\ done.conn = v.conn /\ done.idx = v.idx
      /\ done.mine = v.mine /\ done.theirs = v.theirs /\ done.reveal = v.reveal
      /\ done.over = v.over /\ done.won = v.won
  <2>1. "done" \in Phases
    BY DEF Phases
  <2> QED
    BY <1>1, <2>1, Zenon DEF View
<1>4. /\ next \in View /\ next.phase = "playing" /\ next.conn = v.conn
      /\ next.idx = v.reveal + 1 /\ next.mine = v.mine /\ next.theirs = v.theirs
      /\ next.reveal = -1 /\ next.over = v.over /\ next.won = v.won
  <2>1. "playing" \in Phases /\ -1 \in Int
    BY DEF Phases
  <2>2. PICK n : n = v.reveal + 1
    OBVIOUS
  <2>3. PICK m : m = -1
    OBVIOUS
  <2>4. n \in Nat /\ m \in Int
    BY <1>2, <2>2, <2>3
  <2>5. next = [v EXCEPT !.phase = "playing", !.idx = n, !.reveal = m]
    BY <2>2, <2>3
  <2> HIDE DEF next
  <2>6. /\ next \in View /\ next.phase = "playing" /\ next.conn = v.conn
        /\ next.idx = n /\ next.mine = v.mine /\ next.theirs = v.theirs
        /\ next.reveal = m /\ next.over = v.over /\ next.won = v.won
    BY <1>1, <2>1, <2>4, <2>5, Zenon DEF View
  <2> QED
    BY <2>2, <2>3, <2>6
<1> HIDE DEF done, next
<1>5. /\ w \in View /\ (v.over => w = done) /\ (~v.over => w = next)
      /\ w.conn = v.conn /\ w.over = v.over /\ w.won = v.won
  BY <1>2, <1>3, <1>4
<1> HIDE DEF w, v
<1>6. client' \in [Sides -> View] /\ client'[s] = w /\ client'[Other(s)] = client[Other(s)]
  BY <1>1, <1>5
<1>7. (Connects(s)' <=> Connects(s)) /\ (Joined(s)' <=> Joined(s))
  BY <1>1, <1>5, <1>6 DEF Connects, Joined, v
<1>8. PICK i : i = client[s].idx
  OBVIOUS
<1>9. Ahead(s, i) => Ahead(s, i)'
  BY <1>1 DEF Ahead
<1>10. CASE v.over
  <2>1. client'[s] = done
    BY <1>5, <1>6, <1>10
  <2> QED
    <3>1. ViewTrue(s)' /\ ResultShown(s)' /\ Fresh(s)'
      <4>1. /\ client'[s].idx = client[s].idx /\ client'[s].mine = client[s].mine
            /\ client'[s].theirs = client[s].theirs /\ client'[s].reveal = client[s].reveal
            /\ client'[s].over = client[s].over /\ client'[s].won = client[s].won
            /\ client'[s].conn = client[s].conn
            /\ client'[s].phase = "done" /\ client[s].over
        BY <1>3, <1>10, <2>1 DEF v
      <4> QED
        BY <1>1, <1>7, <1>8, <1>9, <4>1, SameQuestion
    <3>2. RoomTrue(s)'
      BY <1>1 DEF RoomTrue
    <3>3. SocketsTyped'
      BY <1>1, <1>6 DEF SocketsTyped
    <3>4. \A d \in Sockets : HandlerTrue(s, d)'
      <4>1. PICK c \in Sockets : TRUE
        BY DEF Sockets
      <4>2. HandlerTrue(s, c)'
        BY <1>1, HandlerStays DEF SidesInv, SideInv, HandlerTrue
      <4> QED
        BY <1>1, <4>2, OtherDesks
    <3> QED
      BY <1>1, <1>6, <3>1, <3>2, <3>3, <3>4, OneSide DEF SideInv
<1>11. CASE ~v.over
  <2>1. /\ client'[s].phase = "playing" /\ client'[s].idx = v.reveal + 1
        /\ client'[s].mine = v.mine /\ client'[s].theirs = v.theirs
        /\ client'[s].reveal = -1 /\ ~client'[s].over
    BY <1>4, <1>5, <1>6, <1>11
  <2>2. PICK n \in 0..Len(rounds) :
          /\ v.mine = Score(n, s) /\ v.theirs = Score(n, Other(s))
          /\ stale[s] \/ (v.idx \in {n - 1, n} /\ n = v.reveal + 1)
    BY <1>1 DEF ViewTrue, v
  <2>3. ViewTrue(s)'
    <3>1. Score(n, s)' = Score(n, s) /\ Score(n, Other(s))' = Score(n, Other(s))
      BY DEF Past
    <3>2. stale'[s] \/ client'[s].idx \in {n - 1, n}
      BY <1>1, <2>1, <2>2
    <3>3. /\ client'[s].idx <= Len(rounds') /\ client'[s].reveal + 1 \in 0..Len(rounds')
          /\ n \in 0..Len(rounds')
      BY <1>1, <1>2, <2>1
    <3> QED
      BY <2>1, <2>2, <3>1, <3>2, <3>3 DEF ViewTrue
  <2>4. ResultShown(s)'
    BY <2>1 DEF ResultShown
  <2>5. Fresh(s)'
    <3>1. PICK j : j = v.reveal + 1
      OBVIOUS
    <3>2. i \in Nat /\ j \in Nat /\ j = client'[s].idx /\ (i <= j \/ stale'[s])
      BY <1>1, <1>2, <1>8, <2>1, <2>2, <3>1 DEF v
    <3> QED
      BY <1>1, <1>7, <1>8, <1>9, <3>2, FreshStays
  <2>6. RoomTrue(s)'
    BY <1>1 DEF RoomTrue
  <2>7. SocketsTyped'
    BY <1>1, <1>6 DEF SocketsTyped
  <2>8. \A d \in Sockets : HandlerTrue(s, d)'
    <3>1. PICK c \in Sockets : TRUE
      BY DEF Sockets
    <3>2. HandlerTrue(s, c)'
      BY <1>1, HandlerStays DEF SidesInv, SideInv, HandlerTrue
    <3> QED
      BY <1>1, <3>2, OtherDesks
  <2> QED
    BY <1>1, <1>6, <2>3, <2>4, <2>5, <2>6, <2>7, <2>8, OneSide DEF SideInv
<1> QED
  BY <1>10, <1>11

\* The screen of s is closed or loses its socket; its handlers may lose answers.
LEMMA SocketGone ==
  ASSUME Past, SidesInv, NEW s \in Sides, UNCHANGED <<answered, rounds, room, stale>>,
         NEW w, w \in View, client' = [client EXCEPT ![s] = w], w = Lost(s) \/ w = Closed,
         handler' \in [Sides -> [Sockets -> Desk]], handler'[Other(s)] = handler[Other(s)],
         \A d \in Sockets : /\ handler'[s][d].pc = handler[s][d].pc
                            /\ handler'[s][d].snap = handler[s][d].snap
                            /\ handler'[s][d].res = handler[s][d].res
                            /\ handler'[s][d].up = handler[s][d].up \/ handler'[s][d].up = <<>>
  PROVE  SidesInv'
<1>1. /\ client \in [Sides -> View] /\ Other(s) \in Sides /\ Other(s) # s
      /\ SocketsTyped /\ ViewTrue(s) /\ ResultShown(s) /\ RoomTrue(s) /\ Len(rounds) \in Nat
  BY TwoSides DEF SidesInv, SideInv, SocketsTyped, Past
<1>2. client' \in [Sides -> View] /\ client'[s] = w /\ client'[Other(s)] = client[Other(s)]
  BY <1>1
<1>3. ViewTrue(s)' /\ ResultShown(s)' /\ Fresh(s)'
  <2>1. CASE w = Lost(s)
    BY <1>1, <1>2, <2>1, LostKeeps
  <2>2. CASE w = Closed
    <3>1. /\ client'[s].idx = 0 /\ client'[s].mine = 0 /\ client'[s].theirs = 0
          /\ client'[s].reveal = -1 /\ client'[s].over = FALSE
          /\ client'[s].phase = "closed" /\ client'[s].conn = NoSocket
      BY <1>2, <2>2, ClosedFields
    <3>2. ViewTrue(s)'
      <4>1. client'[s].reveal + 1 \in 0..Len(rounds)
        BY <1>1, <3>1
      <4> QED
        BY <3>1, <4>1, ViewEmpty
    <3>3. ResultShown(s)'
      BY <3>1, ShownEmpty
    <3>4. Fresh(s)'
      BY <3>1, NoSocketKeeps
    <3> QED
      BY <3>2, <3>3, <3>4
  <2> QED
    BY <2>1, <2>2
<1>4. RoomTrue(s)'
  BY <1>1 DEF RoomTrue
<1>5. ASSUME NEW d \in Sockets PROVE HandlerTrue(s, d)'
  <2>1. \A k \in DOMAIN handler[s][d].up : handler[s][d].up[k] <= Len(rounds')
    BY <1>1 DEF SidesInv, SideInv, HandlerTrue
  <2>2. \A k \in DOMAIN handler'[s][d].up : handler'[s][d].up[k] <= Len(rounds')
    BY <2>1
  <2> QED
    BY <2>2, HandlerStays DEF SidesInv, SideInv
<1>6. SocketsTyped'
  BY <1>1, <1>2 DEF SocketsTyped
<1>7. SideInv(s)'
  BY <1>3, <1>4, <1>5 DEF SideInv
<1> QED
  BY <1>1, <1>2, <1>6, <1>7, OneSide

LEMMA ExitKeeps ==
  ASSUME Past, SidesInv, NEW s \in Sides, GoBack(s) \/ WalkAway(s)
  PROVE  SidesInv'
<1>1. /\ client' = [client EXCEPT ![s] = Closed]
      /\ UNCHANGED <<answered, rounds, room, stale, handler>>
  BY DEF GoBack, WalkAway, Exit, tables
<1>2. PICK w : w = Closed
  OBVIOUS
<1>3. /\ w \in View /\ client' = [client EXCEPT ![s] = w]
      /\ handler' \in [Sides -> [Sockets -> Desk]]
  BY <1>1, <1>2, ClosedFields DEF SidesInv, SocketsTyped
<1> QED
  BY <1>1, <1>2, <1>3, SocketGone

LEMMA DropKeeps ==
  ASSUME Past, SidesInv, NEW s \in Sides, Drop(s)
  PROVE  SidesInv'
<1>1. PICK c, w : c = client[s].conn /\ w = Lost(s)
  OBVIOUS
<1>2. /\ UNCHANGED <<answered, rounds, room, stale>>
      /\ client' = [client EXCEPT ![s] = w] /\ c # NoSocket /\ SocketsTyped
      /\ handler' = handler \/ Becomes(s, c, [handler[s][c] EXCEPT !.up = <<>>])
  BY <1>1 DEF Drop, tables, SidesInv
<1>3. w \in View
  BY <1>1, <1>2, LostView
<1>4. c \in Sockets /\ handler[s][c] \in Desk /\ handler \in [Sides -> [Sockets -> Desk]]
  BY <1>1, <1>2 DEF SocketsTyped, View
<1>5. CASE handler' = handler
  BY <1>1, <1>2, <1>3, <1>4, <1>5, SocketGone
<1>6. CASE Becomes(s, c, [handler[s][c] EXCEPT !.up = <<>>])
  <2> DEFINE h == [handler[s][c] EXCEPT !.up = <<>>]
  <2>1. /\ h \in Desk /\ h.pc = handler[s][c].pc /\ h.up = <<>>
        /\ h.snap = handler[s][c].snap /\ h.res = handler[s][c].res
    <3>1. <<>> \in Seq(Nat)
      OBVIOUS
    <3> QED
      BY <1>4, <3>1, Zenon DEF Desk
  <2>2. Becomes(s, c, h)
    BY <1>6
  <2> HIDE DEF h
  <2>3. /\ handler' \in [Sides -> [Sockets -> Desk]] /\ handler'[s][c] = h
        /\ \A p \in Sides \ {s} : handler'[p] = handler[p]
        /\ \A p \in Sides, d \in Sockets : p # s \/ d # c => handler'[p][d] = handler[p][d]
    BY <1>2, <1>4, <2>1, <2>2, BecomesEffect
  <2>4. \A d \in Sockets : /\ handler'[s][d].pc = handler[s][d].pc
                           /\ handler'[s][d].snap = handler[s][d].snap
                           /\ handler'[s][d].res = handler[s][d].res
                           /\ handler'[s][d].up = handler[s][d].up \/ handler'[s][d].up = <<>>
    BY <2>1, <2>3
  <2>5. handler'[Other(s)] = handler[Other(s)]
    BY <2>3, TwoSides
  <2> QED
    BY <1>1, <1>2, <1>3, <2>3, <2>4, <2>5, SocketGone
<1> QED
  BY <1>2, <1>5, <1>6

LEMMA RestartKeeps ==
  ASSUME Past, SidesInv, Restart
  PROVE  SidesInv'
<1>1. /\ client' = [s \in Sides |-> Lost(s)] /\ room' = [s \in Sides |-> NoSocket]
      /\ handler' = [s \in Sides |-> [c \in Sockets |-> NoHandler]]
      /\ UNCHANGED stale /\ SocketsTyped
  BY DEF Restart, SidesInv
<1>2. NoHandler \in Desk /\ NoHandler.pc = "none" /\ NoHandler.up = <<>>
  BY DEF NoHandler, Desk, Steps
<1>3. ASSUME NEW s \in Sides
      PROVE  SideInv(s)' /\ client'[s] \in View
  <2>1. client'[s] = Lost(s) /\ stale'[s] = stale[s]
    BY <1>1
  <2>2. client'[s] \in View /\ ViewTrue(s)' /\ ResultShown(s)' /\ Fresh(s)'
    BY <1>1, <2>1, LostKeeps DEF SidesInv, SideInv
  <2>3. RoomTrue(s)'
    BY <1>1 DEF RoomTrue, NoSocket, Sockets
  <2>4. \A c \in Sockets : HandlerTrue(s, c)'
    BY <1>1, <1>2 DEF HandlerTrue
  <2> QED
    BY <2>2, <2>3, <2>4 DEF SideInv
<1>4. SocketsTyped'
  BY <1>1, <1>2, <1>3 DEF SocketsTyped, NoSocket
<1> QED
  BY <1>3, <1>4 DEF SidesInv

LEMMA RowKeeps ==
  ASSUME LiveInv, LiveInv', Past, RowTrue, [Next]_vars
  PROVE  RowTrue'
<1>1. /\ Len(rounds) \in Nat /\ Len(rounds') \in Nat /\ Len(rounds) <= Len(rounds')
      /\ duel.round = Len(rounds) /\ "none" \notin Sides
  BY TwoSides DEF Past, LiveInv, RoundsAgree
<1>2. CASE answered' = answered /\ (duel'.status = "completed" => duel' = duel)
  <2>1. ASSUME NEW s \in Sides, NEW i \in Nat, <<i, s>> \in answered' PROVE i <= Len(rounds')
    <3>1. i <= Len(rounds)
      BY <1>2, <2>1 DEF RowTrue
    <3> QED
      BY <1>1, <3>1
  <2> QED
    BY <1>2, <2>1 DEF RowTrue
<1>3. ASSUME NEW r \in Reqs, WriteVerdict(r) PROVE RowTrue'
  BY <1>2, <1>3 DEF WriteVerdict, WithStatus
<1>4. CASE WriteExpired
  BY <1>2, <1>4 DEF WriteExpired, WithStatus
<1>5. ASSUME NEW s \in Sides, NEW c \in Sockets, Serve(s, c) PROVE RowTrue'
  <2>1. CASE UNCHANGED tables
    BY <1>2, <2>1 DEF tables
  <2>2. ASSUME NEW i, Accepts(i), answered' = answered \cup {<<i, s>>},
               duel'.status = "completed" => duel'.winner # "none"
        PROVE  RowTrue'
    <3>1. i = Len(rounds)
      BY <1>1, <2>2 DEF Accepts
    <3>2. ASSUME NEW p \in Sides, NEW j \in Nat, <<j, p>> \in answered' PROVE j <= Len(rounds')
      <4>1. <<j, p>> \in answered \/ j = i
        BY <2>2, <3>2
      <4>2. j <= Len(rounds)
        BY <1>1, <3>1, <4>1 DEF RowTrue
      <4> QED
        BY <1>1, <4>2
    <3> QED
      BY <2>2, <3>2 DEF RowTrue
  <2>3. ASSUME NEW i, Accepts(i), AwaitsOther(s, i) PROVE RowTrue'
    BY <2>2, <2>3 DEF AwaitsOther, RowTrue
  <2>4. ASSUME NEW i, NEW outcome, NEW winner, Accepts(i), Resolves(s, i, outcome, winner)
        PROVE  RowTrue'
    <3>1. duel'.status = "completed" => duel'.winner # "none"
      BY <2>4 DEF Resolves
    <3> QED
      BY <2>2, <2>4, <3>1 DEF Resolves
  <2> QED
    BY <1>5, <2>1, <2>3, <2>4 DEF Serve
<1>6. CASE UNCHANGED <<tables, accepts>>
  BY <1>2, <1>6 DEF tables
<1> QED
  BY <1>3, <1>4, <1>5, <1>6, TablesStep

LEMMA InitScreens == Init => ScreenInv
<1> SUFFICES ASSUME Init PROVE ScreenInv
  OBVIOUS
<1>1. rounds = <<>> /\ Len(rounds) = 0 /\ answered = {} /\ duel.status = "pending"
  BY DEF Init
<1>2. NoHandler \in Desk /\ NoHandler.pc = "none" /\ NoHandler.up = <<>>
  BY DEF NoHandler, Desk, Steps
<1>3. SocketsTyped
  BY <1>2, ClosedFields DEF Init, SocketsTyped, NoSocket
<1>4. RowTrue
  BY <1>1 DEF RowTrue
<1>5. ASSUME NEW s \in Sides PROVE SideInv(s)
  <2>1. client[s] = Closed /\ room[s] = NoSocket
    BY DEF Init
  <2>2. \A c \in Sockets : handler[s][c] = NoHandler
    BY DEF Init
  <2>3. RoomTrue(s)
    BY <2>1 DEF RoomTrue, NoSocket, Sockets
  <2>4. ViewTrue(s)
    <3>1. Score(0, s) = 0 /\ Score(0, Other(s)) = 0
      BY ScoreZero
    <3>2. 0 \in 0..Len(rounds)
      BY <1>1
    <3>3. /\ client[s].phase = "closed" /\ client[s].conn = NoSocket /\ client[s].idx = 0
          /\ client[s].mine = 0 /\ client[s].theirs = 0 /\ client[s].reveal + 1 = 0
      BY <2>1, ClosedFields
    <3> QED
      BY <1>1, <3>1, <3>2, <3>3 DEF ViewTrue
  <2>5. ResultShown(s) /\ Fresh(s)
    BY <2>1, ClosedFields DEF ResultShown, Fresh, Joined, NoSocket, Sockets
  <2>6. \A c \in Sockets : HandlerTrue(s, c)
    BY <1>2, <2>2 DEF HandlerTrue
  <2> QED
    BY <2>3, <2>4, <2>5, <2>6 DEF SideInv
<1> QED
  BY <1>3, <1>4, <1>5 DEF ScreenInv

LEMMA ScreenStep ==
  ASSUME LiveInv, LiveInv', ScreenInv, [Next]_vars
  PROVE  ScreenInv'
<1>1. Past
  BY PastKept
<1>2. RowTrue /\ SidesInv
  BY DEF ScreenInv, SidesInv
<1>3. RowTrue'
  BY <1>1, <1>2, RowKeeps
<1>4. ASSUME UNCHANGED <<answered, room, handler, client, stale>> PROVE SidesInv'
  BY <1>1, <1>2, <1>4, QuietKeeps
<1>5. ASSUME NEW r \in Reqs, NEW verb, WriteVerdict(r) \/ ReadPending(r, verb)
      PROVE  SidesInv'
  BY <1>4, <1>5 DEF WriteVerdict, ReadPending, tables
<1>6. ASSUME Lapse \/ ScanExpired \/ WriteExpired PROVE SidesInv'
  BY <1>4, <1>6 DEF Lapse, ScanExpired, WriteExpired, tables
<1>7. ASSUME NEW s \in Sides, NEW c \in Sockets, Handle(s, c) \/ Disconnect(s, c)
      PROVE  SidesInv'
  BY <1>1, <1>2, <1>7, JoinKeeps, ServeKeeps, SendAckKeeps, SendKeeps, DisconnectKeeps
  DEF Handle
<1>8. ASSUME NEW s \in Sides,
             \/ Open(s) \/ SubmitAnswer(s) \/ Advance(s)
             \/ GoBack(s) \/ WalkAway(s) \/ Drop(s)
      PROVE  SidesInv'
  BY <1>1, <1>2, <1>8, OpenKeeps, SubmitKeeps, AdvanceKeeps, ExitKeeps, DropKeeps
<1>9. ASSUME UNCHANGED vars PROVE SidesInv'
  BY <1>4, <1>9 DEF vars, tables
<1>10. SidesInv'
  BY <1>1, <1>2, <1>5, <1>6, <1>7, <1>8, <1>9, RestartKeeps DEF Next
<1> QED
  BY <1>3, <1>10 DEF ScreenInv, SidesInv

LEMMA LiveAlways == Spec => []LiveInv
BY InitLive, LiveStep, PTL DEF Spec

LEMMA ScreensAlways == Spec => []ScreenInv
BY InitScreens, ScreenStep, LiveAlways, PTL DEF Spec

\* Whatever sockets, screens, restarts and crossing requests do, the row of a duel counts
\* the rounds that were played and, unless a second accept outlived the duel, has the
\* winner their score decides and moved both records once (submit_answer, _finalize).
THEOREM LiveRoundsAgree == Spec => []RoundsAgree
<1>1. LiveInv => RoundsAgree
  BY DEF LiveInv
<1> QED
  BY <1>1, LiveAlways, PTL

\* What a screen shows was true: a score that was the score, the next question or the one
\* being revealed unless it was sent something out of date, and the real winner
\* (LiveDuel.tsx handleMessage, live_duel_ws).
THEOREM LiveShownScoreIsReal == Spec => []ShownScoreIsReal
<1>1. LiveInv /\ ScreenInv => ShownScoreIsReal
  <2> SUFFICES ASSUME LiveInv, ScreenInv, NEW s \in Sides
               PROVE  LET v == client[s]
                          After(n, p) == Cardinality({k \in 1..n : rounds[k] = p})
                      IN /\ v.phase \in {"lobby", "playing", "waiting", "reveal"} =>
                              \E n \in 0..Len(rounds) :
                                /\ v.mine = After(n, s) /\ v.theirs = After(n, Other(s))
                                /\ v.idx \in {n - 1, n} \/ stale[s]
                         /\ v.phase = "done" /\ accepts = 1 => v.won = (duel.winner = s)
    BY DEF ShownScoreIsReal
  <2>1. PICK n \in 0..Len(rounds) :
          /\ client[s].mine = Score(n, s) /\ client[s].theirs = Score(n, Other(s))
          /\ client[s].idx \in {n - 1, n} \/ stale[s]
    BY DEF ScreenInv, SideInv, ViewTrue
  <2>2. ResultShown(s) /\ client[s] \in View
    BY DEF ScreenInv, SideInv, SocketsTyped
  <2>3. client[s].phase = "done" /\ accepts = 1 => client[s].won = (duel.winner = s)
    <3>1. client[s].won \in BOOLEAN
      BY <2>2 DEF View
    <3>2. accepts = 1 => accepts <= 1
      OBVIOUS
    <3>3. client[s].phase = "done" /\ accepts <= 1 =>
            (client[s].won <=> duel.winner = s)
      BY <2>2 DEF ResultShown
    <3> QED
      BY <3>1, <3>2, <3>3
  <2> QED
    BY <2>1, <2>3 DEF Score
<1> QED
  BY <1>1, LiveAlways, ScreensAlways, PTL

-------------------------------------------------------------------------------
(* What the actions do to the screens, the sockets and the hub *)

-------------------------------------------------------------------------------
(* What each step does to sockets and screens, field by field *)

\* Only the handler of socket c of s moves.
OnlyDesk(s, c) ==
  /\ handler' \in [Sides -> [Sockets -> Desk]]
  /\ \A p \in Sides, d \in Sockets : p # s \/ d # c => handler'[p][d] = handler[p][d]

\* The screen of p and its registration stay as they are.
SameScreen(p) == client'[p] = client[p] /\ stale'[p] = stale[p] /\ room'[p] = room[p]

RowStays == UNCHANGED <<duel, answered, rounds, accepts>>

LEMMA OpenEffect ==
  ASSUME LiveInv, SocketsTyped, NEW s \in Sides, Open(s)
  PROVE  /\ accepts > 0 /\ RowStays /\ SameScreen(Other(s)) /\ room' = room
         /\ client[s].phase = "closed"
         /\ \/ \E c \in Sockets :
                 /\ OnlyDesk(s, c) /\ handler[s][c].pc = "none"
                 /\ handler'[s][c].pc = "read" /\ handler'[s][c].up = <<>>
                 /\ client'[s].phase = "connecting" /\ client'[s].conn = c
            \/ /\ handler' = handler
               /\ client'[s].phase = "error" /\ client'[s].conn = client[s].conn
<1>1. /\ client[s].phase = "closed" /\ stale' = [stale EXCEPT ![s] = FALSE]
      /\ RowStays /\ room' = room /\ accepts > 0
      /\ client \in [Sides -> View] /\ handler \in [Sides -> [Sockets -> Desk]]
      /\ stale \in [Sides -> BOOLEAN] /\ Other(s) # s /\ Other(s) \in Sides
  BY TwoSides DEF Open, Listed, tables, challenge, SocketsTyped, RowStays
<1>2. stale'[Other(s)] = stale[Other(s)]
  BY <1>1
<1>3. ASSUME NEW c \in Sockets, handler[s][c].pc = "none",
             Becomes(s, c, [NoHandler EXCEPT !.pc = "read", !.snap = duel]),
             client' = [client EXCEPT ![s] =
               [Closed EXCEPT !.phase = "connecting", !.conn = c]]
      PROVE  /\ OnlyDesk(s, c) /\ client'[Other(s)] = client[Other(s)]
             /\ handler'[s][c].pc = "read" /\ handler'[s][c].up = <<>>
             /\ client'[s].phase = "connecting" /\ client'[s].conn = c
  <2> DEFINE h == [NoHandler EXCEPT !.pc = "read", !.snap = duel]
             w == [Closed EXCEPT !.phase = "connecting", !.conn = c]
  <2>1. h \in Desk /\ h.pc = "read" /\ h.up = <<>>
    <3>1. duel \in Row
      BY DEF LiveInv, TablesTyped, Row
    <3> QED
      BY <3>1, NoHandlerFields
  <2>2. w \in View /\ w.phase = "connecting" /\ w.conn = c
    <3>1. "connecting" \in Phases /\ Closed \in View
      BY ClosedFields DEF Phases
    <3> QED
      BY <1>3, <3>1, Zenon DEF View
  <2>3. Becomes(s, c, h) /\ client' = [client EXCEPT ![s] = w]
    BY <1>3
  <2> HIDE DEF h, w
  <2>4. OnlyDesk(s, c) /\ handler'[s][c] = h
    BY <2>1, <2>3, BecomesEffect DEF OnlyDesk
  <2>5. client'[s] = w /\ client'[Other(s)] = client[Other(s)]
    BY <1>1, <2>3
  <2> QED
    BY <2>1, <2>2, <2>4, <2>5
<1>4. ASSUME client' = [client EXCEPT ![s].phase = "error"]
      PROVE  /\ client'[s].phase = "error" /\ client'[s].conn = client[s].conn
             /\ client'[Other(s)] = client[Other(s)]
  <2>1. client' = [client EXCEPT ![s] = [client[s] EXCEPT !.phase = "error"]]
    BY <1>4
  <2>2. client[s] \in View /\ "error" \in Phases
    BY <1>1 DEF Phases
  <2> DEFINE w == [client[s] EXCEPT !.phase = "error"]
  <2>3. w.phase = "error" /\ w.conn = client[s].conn
    BY <2>2, PhaseView, Zenon
  <2> HIDE DEF w
  <2> QED
    BY <1>1, <2>1, <2>3 DEF w
<1> QED
  BY <1>1, <1>2, <1>3, <1>4 DEF Open, SameScreen

LEMMA StateMessageLobby ==
  ASSUME NEW v \in View, NEW s, NEW snap
  PROVE  Handled(v, StateMessage(s, snap)).phase = "lobby" => room[Other(s)] = NoSocket
<1> DEFINE round == snap.round
           mine == snap.wins[s]
           theirs == snap.wins[Other(s)]
           won == snap.winner = s
           online == room[Other(s)] # NoSocket
           status == snap.status
           phase == IF status = "completed" THEN "done"
                    ELSE IF online THEN "playing" ELSE "lobby"
           w == [v EXCEPT !.idx = round, !.mine = mine, !.theirs = theirs, !.won = won,
                          !.phase = phase]
<1>1. Handled(v, StateMessage(s, snap)) = w
  BY Zenon DEF Handled, StateMessage
<1>2. phase = "lobby" => room[Other(s)] = NoSocket
  OBVIOUS
<1> HIDE DEF phase, round, mine, theirs, won
<1>3. w.phase = phase
  BY Zenon DEF View
<1> QED
  BY <1>1, <1>2, <1>3

LEMMA JoinEffect ==
  ASSUME SidesInv, NEW s \in Sides, NEW c \in Sockets, Join(s, c), NEW o, o = Other(s)
  PROVE  /\ RowStays /\ handler[s][c].pc = "read" /\ OnlyDesk(s, c)
         /\ handler'[s][c].pc \in {"serving", "none"}
         /\ room'[o] = room[o] /\ room'[s] \in {c, DeadSocket}
         /\ stale'[o] = stale[o]
         /\ (client[s].conn = c) =>
              /\ handler'[s][c].pc = "serving" /\ room'[s] = c
              /\ client'[s].conn = c /\ client'[s].idx = handler[s][c].snap.round
              /\ client'[s].phase \in {"done", "playing", "lobby"}
              /\ client'[s].phase = "lobby" => room[o] = NoSocket
              /\ stale'[s] = (handler[s][c].snap # duel)
         /\ (client[s].conn # c) =>
              /\ stale'[s] = stale[s]
              /\ client'[s] = IF room[s] # c /\ Reaches(s) THEN Lost(s) ELSE client[s]
         /\ \/ client'[o] = client[o] /\ ~(client[o].phase = "lobby" /\ Reaches(o))
            \/ /\ client[o].phase = "lobby" /\ client'[o].phase = "playing"
               /\ client'[o].conn = client[o].conn /\ client'[o].idx = client[o].idx
<1> DEFINE snap == handler[s][c].snap
<1>1. /\ handler[s][c].pc = "read" /\ Greets(s, c)
      /\ stale' = IF client[s].conn = c THEN [stale EXCEPT ![s] = snap # duel] ELSE stale
      /\ RowStays
      /\ client \in [Sides -> View] /\ handler \in [Sides -> [Sockets -> Desk]]
      /\ stale \in [Sides -> BOOLEAN] /\ room \in [Sides -> Nat] /\ o # s /\ o \in Sides
      /\ SocketsTyped /\ SnapTrue(snap)
  BY TwoSides
  DEF Join, tables, challenge, SidesInv, SideInv, HandlerTrue, SocketsTyped, RowStays
<1>2. /\ stale'[o] = stale[o]
      /\ client[s].conn = c => stale'[s] = (snap # duel)
      /\ client[s].conn # c => stale'[s] = stale[s]
  <2>1. (snap # duel) \in BOOLEAN
    OBVIOUS
  <2> QED
    BY <1>1, <2>1, Zenon
<1>3. /\ client'[s] = IF client[s].conn = c THEN Handled(client[s], StateMessage(s, snap))
                      ELSE IF room[s] # c /\ Reaches(s) THEN Lost(s) ELSE client[s]
      /\ client'[o] = IF Reaches(o) THEN Handled(client[o], [type |-> "opponent_joined"])
                      ELSE client[o]
  <2> DEFINE v == IF client[s].conn = c THEN Handled(client[s], StateMessage(s, snap))
                  ELSE IF room[s] # c /\ Reaches(s) THEN Lost(s) ELSE client[s]
             w == IF Reaches(o) THEN Handled(client[o], [type |-> "opponent_joined"])
                  ELSE client[o]
  <2>1. client' = [client EXCEPT ![s] = v, ![o] = w]
    BY <1>1 DEF Greets
  <2> HIDE DEF v, w
  <2>2. client'[s] = v /\ client'[o] = w
    BY <1>1, <2>1
  <2> QED
    BY <2>2 DEF v, w
<1>4. ASSUME client[s].conn = c
      PROVE  /\ client'[s].conn = c /\ client'[s].idx = snap.round
             /\ client'[s].phase \in {"done", "playing", "lobby"}
             /\ client'[s].phase = "lobby" => room[o] = NoSocket
  <2> DEFINE w == Handled(client[s], StateMessage(s, snap))
  <2>1. /\ w.idx = snap.round /\ w.conn = client[s].conn
        /\ w.phase \in {"done", "playing", "lobby"}
    <3>1. /\ w \in View /\ w.idx = snap.round /\ w.mine = Score(snap.round, s)
          /\ w.theirs = Score(snap.round, Other(s)) /\ w.conn = client[s].conn
          /\ w.reveal = client[s].reveal /\ w.over = client[s].over
          /\ w.phase \in {"done", "playing", "lobby"}
          /\ w.phase = "done" => snap.status = "completed" /\ w.won = (snap.winner = s)
      BY <1>1, GreetsView, Zenon
    <3> HIDE DEF w
    <3> QED
      BY <3>1
  <2>2. w.phase = "lobby" => room[Other(s)] = NoSocket
    <3>1. client[s] \in View
      BY <1>1
    <3> QED
      BY <3>1, StateMessageLobby
  <2>3. client'[s] = w
    BY <1>3, <1>4
  <2> HIDE DEF w
  <2> QED
    BY <1>4, <2>1, <2>2, <2>3
<1>5. \/ client'[o] = client[o] /\ ~(client[o].phase = "lobby" /\ Reaches(o))
      \/ /\ client[o].phase = "lobby" /\ client'[o].phase = "playing"
         /\ client'[o].conn = client[o].conn /\ client'[o].idx = client[o].idx
  <2> DEFINE w == [client[o] EXCEPT !.phase = "playing"]
  <2>1. client[o] \in View /\ "playing" \in Phases
    BY <1>1 DEF Phases
  <2>2. Handled(client[o], [type |-> "opponent_joined"]) =
          IF client[o].phase = "lobby" THEN w ELSE client[o]
    BY Zenon DEF Handled
  <2>3. w.phase = "playing" /\ w.conn = client[o].conn /\ w.idx = client[o].idx
    BY <2>1, PhaseView, Zenon
  <2> HIDE DEF w
  <2> QED
    BY <1>3, <2>2, <2>3
<1>6. /\ OnlyDesk(s, c) /\ room'[o] = room[o]
      /\ \/ handler'[s][c].pc = "serving" /\ room'[s] = c
         \/ client[s].conn # c /\ handler'[s][c].pc = "none" /\ room'[s] = DeadSocket
  <2>1. CASE /\ Becomes(s, c, [handler[s][c] EXCEPT !.pc = "serving", !.snap = <<>>])
             /\ room' = [room EXCEPT ![s] = c]
    <3> DEFINE h == [handler[s][c] EXCEPT !.pc = "serving", !.snap = <<>>]
    <3>1. h \in Desk /\ h.pc = "serving"
      <4>1. handler[s][c] \in Desk /\ "serving" \in Steps
        BY <1>1 DEF Steps
      <4>2. <<>> \in Row \cup {<<>>}
        OBVIOUS
      <4> QED
        BY <4>1, <4>2, Zenon DEF Desk
    <3>2. Becomes(s, c, h)
      BY <2>1
    <3> HIDE DEF h
    <3>3. OnlyDesk(s, c) /\ handler'[s][c] = h
      BY <1>1, <3>1, <3>2, BecomesEffect DEF OnlyDesk
    <3>4. room'[o] = room[o] /\ room'[s] = c
      BY <1>1, <2>1
    <3> QED
      BY <3>1, <3>3, <3>4
  <2>2. CASE /\ client[s].conn # c /\ Becomes(s, c, NoHandler)
             /\ room' = [room EXCEPT ![s] = DeadSocket]
    <3>1. NoHandler \in Desk /\ NoHandler.pc = "none"
      BY DEF NoHandler, Desk, Steps
    <3>2. OnlyDesk(s, c) /\ handler'[s][c] = NoHandler
      BY <1>1, <2>2, <3>1, BecomesEffect DEF OnlyDesk
    <3>3. room'[o] = room[o] /\ room'[s] = DeadSocket
      BY <1>1, <2>2
    <3> QED
      BY <2>2, <3>1, <3>2, <3>3
  <2> QED
    BY <2>1, <2>2 DEF Join
<1> HIDE DEF snap
<1>7. client[s].conn = c => handler'[s][c].pc = "serving" /\ room'[s] = c
  BY <1>6
<1>8. client[s].conn # c =>
        /\ stale'[s] = stale[s]
        /\ client'[s] = IF room[s] # c /\ Reaches(s) THEN Lost(s) ELSE client[s]
  BY <1>2, <1>3
<1>9. client[s].conn = c =>
        /\ client'[s].conn = c /\ client'[s].idx = handler[s][c].snap.round
        /\ client'[s].phase \in {"done", "playing", "lobby"}
        /\ client'[s].phase = "lobby" => room[o] = NoSocket
        /\ stale'[s] = (handler[s][c].snap # duel)
  BY <1>2, <1>4 DEF snap
<1>10. handler'[s][c].pc \in {"serving", "none"} /\ room'[s] \in {c, DeadSocket}
  BY <1>6, SMTT(40)
<1> QED
  BY <1>1, <1>2, <1>5, <1>6, <1>7, <1>8, <1>9, <1>10

LEMMA SubmitEffect ==
  ASSUME SocketsTyped, NEW s \in Sides, SubmitAnswer(s), client[s].conn \in Sockets,
         NEW c, c = client[s].conn
  PROVE  /\ RowStays /\ UNCHANGED <<room, stale>> /\ OnlyDesk(s, c)
         /\ client[s].phase = "playing" /\ client[s].idx < Total
         /\ handler'[s][c].pc = handler[s][c].pc /\ handler'[s][c].res = handler[s][c].res
         /\ handler'[s][c].up = Append(handler[s][c].up, client[s].idx)
         /\ client'[s].phase = "waiting" /\ client'[s].conn = c
         /\ client'[s].idx = client[s].idx /\ client'[Other(s)] = client[Other(s)]
<1> DEFINE h == [handler[s][c] EXCEPT !.up = Append(handler[s][c].up, client[s].idx)]
<1>1. /\ RowStays /\ UNCHANGED <<room, stale>> /\ client[s] \in View /\ c \in Sockets
      /\ client[s].phase = "playing" /\ client[s].idx < Total /\ Becomes(s, c, h)
      /\ client' = [client EXCEPT ![s].phase = "waiting"]
      /\ handler \in [Sides -> [Sockets -> Desk]] /\ client \in [Sides -> View]
      /\ Other(s) \in Sides /\ Other(s) # s
  BY TwoSides DEF SubmitAnswer, tables, challenge, SocketsTyped, RowStays
<1>2. PICK up : up = Append(handler[s][c].up, client[s].idx)
  OBVIOUS
<1>3. handler[s][c] \in Desk /\ up \in Seq(Nat)
  BY <1>1, <1>2 DEF Desk, View
<1>4. h \in Desk /\ h.pc = handler[s][c].pc /\ h.up = up /\ h.res = handler[s][c].res
  <2>1. h = [handler[s][c] EXCEPT !.up = up]
    BY <1>2
  <2> HIDE DEF h
  <2> QED
    BY <1>3, <2>1, Zenon DEF Desk
<1> HIDE DEF h
<1>5. OnlyDesk(s, c) /\ handler'[s][c] = h
  BY <1>1, <1>4, BecomesEffect DEF OnlyDesk
<1>6. /\ client'[s].phase = "waiting" /\ client'[s].conn = client[s].conn
      /\ client'[s].idx = client[s].idx /\ client'[Other(s)] = client[Other(s)]
  <2> DEFINE w == [client[s] EXCEPT !.phase = "waiting"]
  <2>1. "waiting" \in Phases /\ client' = [client EXCEPT ![s] = w]
    BY <1>1 DEF Phases
  <2>2. w.phase = "waiting" /\ w.conn = client[s].conn /\ w.idx = client[s].idx
    BY <1>1, <2>1, PhaseView, ZenonT(60)
  <2> HIDE DEF w
  <2> QED
    BY <1>1, <2>1, <2>2
<1> QED
  BY <1>1, <1>2, <1>4, <1>5, <1>6

LEMMA ServeEffect ==
  ASSUME LiveInv, SocketsTyped, NEW s \in Sides, NEW c \in Sockets, Serve(s, c),
         NEW i, i = Head(handler[s][c].up)
  PROVE  /\ UNCHANGED <<accepts, room, client, stale>> /\ OnlyDesk(s, c)
         /\ handler[s][c].pc = "serving" /\ handler[s][c].up # <<>> /\ i \in Nat
         /\ handler'[s][c].up = Tail(handler[s][c].up)
         /\ \/ /\ ~Accepts(i) /\ RowStays
               /\ handler'[s][c].pc = "serving"
            \/ /\ Accepts(i) /\ AwaitsOther(s, i)
               /\ handler'[s][c].pc = "ack" /\ handler'[s][c].res.idx = i
            \/ /\ Accepts(i)
               /\ \E outcome \in Outcomes, winner \in Sides \cup {"none"} :
                    Resolves(s, i, outcome, winner)
               /\ handler'[s][c].pc = "own" /\ handler'[s][c].res.idx = i
<1>1. /\ UNCHANGED <<accepts, room, client, stale>> /\ handler[s][c] \in Desk
      /\ handler[s][c].pc = "serving" /\ handler[s][c].up \in Seq(Nat)
      /\ handler[s][c].up # <<>>
  BY DEF Serve, challenge, SocketsTyped, Desk
<1>2. PICK up : up = Tail(handler[s][c].up)
  OBVIOUS
<1>3. up \in Seq(Nat) /\ i \in Nat
  BY <1>1, <1>2
<1>4. ASSUME NEW res \in Result, NEW pc \in {"ack", "own"},
             Becomes(s, c, [handler[s][c] EXCEPT !.up = up, !.pc = pc, !.res = res])
      PROVE  OnlyDesk(s, c) /\ handler'[s][c].up = up /\ handler'[s][c].pc = pc
             /\ handler'[s][c].res = res
  <2> DEFINE g == [handler[s][c] EXCEPT !.up = up, !.pc = pc, !.res = res]
  <2>1. g \in Desk /\ g.up = up /\ g.pc = pc /\ g.res = res
    <3>1. pc \in Steps /\ res \in Result \cup {<<>>}
      BY <1>4 DEF Steps
    <3> QED
      BY <1>1, <1>3, <3>1, Zenon DEF Desk
  <2>2. Becomes(s, c, g)
    BY <1>4, SMTT(40)
  <2> HIDE DEF g
  <2> QED
    BY <2>1, <2>2, BecomesEffect DEF OnlyDesk
<1>5. CASE ~Accepts(i) /\ UNCHANGED tables /\
           Becomes(s, c, [handler[s][c] EXCEPT !.up = Tail(@)])
  <2> DEFINE g == [handler[s][c] EXCEPT !.up = up]
  <2>1. g \in Desk /\ g.up = up /\ g.pc = "serving"
    BY <1>1, <1>3, Zenon DEF Desk
  <2>2. Becomes(s, c, g) /\ RowStays
    BY <1>1, <1>2, <1>5 DEF tables, RowStays
  <2> HIDE DEF g
  <2>3. OnlyDesk(s, c) /\ handler'[s][c] = g
    BY <2>1, <2>2, BecomesEffect, SMTT(40) DEF OnlyDesk
  <2> QED
    BY <1>1, <1>2, <1>3, <1>5, <2>1, <2>2, <2>3
<1>6. CASE Accepts(i) /\ AwaitsOther(s, i) /\ Becomes(s, c,
             [handler[s][c] EXCEPT !.up = Tail(@), !.pc = "ack",
                !.res = [idx |-> i, wins |-> duel.wins, winner |-> "none"]])
  <2>1. PICK res : res = [idx |-> i, wins |-> duel.wins, winner |-> "none"]
    OBVIOUS
  <2>2. res \in Result /\ res.idx = i
    BY <1>3, <2>1, SMTT(40) DEF Result, LiveInv, TablesTyped
  <2>3. Becomes(s, c, [handler[s][c] EXCEPT !.up = up, !.pc = "ack", !.res = res])
    BY <1>2, <1>6, <2>1
  <2> QED
    BY <1>1, <1>2, <1>3, <1>4, <1>6, <2>2, <2>3
<1>7. ASSUME NEW outcome \in Outcomes, NEW winner \in Sides \cup {"none"}, Accepts(i),
             Resolves(s, i, outcome, winner), Becomes(s, c,
               [handler[s][c] EXCEPT !.up = Tail(@), !.pc = "own",
                  !.res = [idx |-> i, wins |-> duel'.wins, winner |-> winner]])
      PROVE  /\ OnlyDesk(s, c) /\ handler'[s][c].up = up /\ handler'[s][c].pc = "own"
             /\ handler'[s][c].res.idx = i
  <2>1. PICK res : res = [idx |-> i, wins |-> duel'.wins, winner |-> winner]
    OBVIOUS
  <2>2. duel'.wins \in [Sides -> Nat]
    <3> DEFINE wins == [x \in Sides |-> duel.wins[x] + IF x = outcome THEN 1 ELSE 0]
    <3>1. duel.wins \in [Sides -> Nat]
      BY DEF LiveInv, TablesTyped
    <3>2. wins \in [Sides -> Nat]
      BY <3>1
    <3>3. duel'.wins = wins
      BY <1>7 DEF Resolves
    <3> HIDE DEF wins
    <3> QED
      BY <3>2, <3>3
  <2>3. res \in Result /\ res.idx = i
    BY <1>3, <1>7, <2>1, <2>2 DEF Result
  <2>4. Becomes(s, c, [handler[s][c] EXCEPT !.up = up, !.pc = "own", !.res = res])
    BY <1>2, <1>7, <2>1, SMTT(40)
  <2> QED
    BY <1>4, <2>3, <2>4
<1>8. CASE Accepts(i) /\ \E outcome \in Sides \cup {"nobody"}, winner \in Sides \cup {"none"} :
             /\ Resolves(s, i, outcome, winner)
             /\ Becomes(s, c, [handler[s][c] EXCEPT !.up = Tail(@), !.pc = "own",
                  !.res = [idx |-> i, wins |-> duel'.wins, winner |-> winner]])
  BY <1>1, <1>2, <1>3, <1>7, <1>8 DEF Outcomes
<1> QED
  BY <1>5, <1>6, <1>8 DEF Serve

LEMMA AckEffect ==
  ASSUME SocketsTyped, NEW s \in Sides, NEW c \in Sockets, SendAck(s, c)
  PROVE  /\ RowStays /\ UNCHANGED room /\ OnlyDesk(s, c)
         /\ handler[s][c].pc = "ack" /\ handler'[s][c].pc = "serving"
         /\ handler'[s][c].up = handler[s][c].up
         /\ SameScreen(Other(s))
         /\ client[s].conn # c => SameScreen(s)
         /\ (client[s].conn = c) =>
              /\ client'[s].phase = "waiting" /\ client'[s].conn = c
              /\ client'[s].idx = client[s].idx
              /\ ~stale'[s] => ~stale[s] /\ handler[s][c].res.idx = duel.round
<1>1. /\ RowStays /\ UNCHANGED room /\ handler[s][c].pc = "ack"
      /\ Becomes(s, c, [handler[s][c] EXCEPT !.pc = "serving", !.res = <<>>])
      /\ IF client[s].conn = c
         THEN /\ client' = [client EXCEPT ![s] = Handled(@, [type |-> "answer_ack"])]
              /\ stale' = [stale EXCEPT ![s] = @ \/ handler[s][c].res.idx # duel.round]
         ELSE UNCHANGED <<client, stale>>
      /\ handler[s][c] \in Desk /\ client[s] \in View /\ client \in [Sides -> View]
      /\ stale \in [Sides -> BOOLEAN] /\ Other(s) \in Sides /\ Other(s) # s
  BY TwoSides DEF SendAck, tables, challenge, SocketsTyped, RowStays
<1>2. /\ OnlyDesk(s, c) /\ handler'[s][c].pc = "serving"
      /\ handler'[s][c].up = handler[s][c].up
  <2> DEFINE h == [handler[s][c] EXCEPT !.pc = "serving", !.res = <<>>]
  <2>1. "serving" \in Steps /\ <<>> \in Result \cup {<<>>} /\ <<>> \in Seq(Nat)
    BY DEF Steps
  <2>2. h \in Desk /\ h.pc = "serving" /\ h.up = handler[s][c].up
    BY <1>1, <2>1, Zenon DEF Desk
  <2>3. Becomes(s, c, h)
    BY <1>1
  <2> HIDE DEF h
  <2> QED
    BY <2>2, <2>3, BecomesEffect DEF OnlyDesk
<1>3. client[s].conn # c => SameScreen(s) /\ SameScreen(Other(s))
  BY <1>1 DEF SameScreen
<1>4. CASE client[s].conn = c
  <2> DEFINE w == [client[s] EXCEPT !.phase = "waiting"]
             late == stale[s] \/ handler[s][c].res.idx # duel.round
  <2>1. Handled(client[s], [type |-> "answer_ack"]) = w
    BY <1>1, AckView
  <2>2. client' = [client EXCEPT ![s] = w] /\ stale' = [stale EXCEPT ![s] = late]
    BY <1>1, <1>4, <2>1
  <2>3. "waiting" \in Phases
    BY DEF Phases
  <2>4. w.phase = "waiting" /\ w.conn = client[s].conn /\ w.idx = client[s].idx
    BY <1>1, <2>3, PhaseView, ZenonT(60)
  <2>5. ~late => ~stale[s] /\ handler[s][c].res.idx = duel.round
    OBVIOUS
  <2> HIDE DEF w, late
  <2>6. /\ client'[s] = w /\ client'[Other(s)] = client[Other(s)]
        /\ stale'[s] = late /\ stale'[Other(s)] = stale[Other(s)]
    BY <1>1, <2>2
  <2> QED
    BY <1>1, <1>2, <1>4, <2>4, <2>5, <2>6 DEF SameScreen
<1> QED
  BY <1>1, <1>2, <1>3, <1>4

\* A result that is sent to p.
LEMMA PostEffect ==
  ASSUME SocketsTyped, NEW p \in Sides, NEW res \in Result, PostResult(res, p), UNCHANGED room
  PROVE  /\ SameScreen(Other(p))
         /\ ~Reaches(p) => SameScreen(p)
         /\ Reaches(p) =>
              /\ client'[p].phase = "reveal" /\ client'[p].reveal = res.idx
              /\ client'[p].conn = client[p].conn /\ client'[p].idx = client[p].idx
              /\ ~stale'[p] => ~stale[p] /\ res.idx + 1 = duel.round
<1>1. /\ client[p] \in View /\ client \in [Sides -> View] /\ stale \in [Sides -> BOOLEAN]
      /\ Other(p) \in Sides /\ Other(p) # p
  BY TwoSides DEF SocketsTyped
<1>2. CASE ~Reaches(p)
  BY <1>2 DEF PostResult, SameScreen
<1>3. CASE Reaches(p)
  <2> DEFINE w == Handled(client[p], Personalize(res, p))
             late == stale[p] \/ res.idx + 1 # duel.round
  <2>1. /\ w.phase = "reveal" /\ w.reveal = res.idx /\ w.idx = client[p].idx
        /\ w.conn = client[p].conn
    BY <1>1, PostView
  <2>2. client' = [client EXCEPT ![p] = w] /\ stale' = [stale EXCEPT ![p] = late]
    BY <1>3 DEF PostResult
  <2>3. ~late => ~stale[p] /\ res.idx + 1 = duel.round
    OBVIOUS
  <2> HIDE DEF w, late
  <2>4. /\ client'[p] = w /\ client'[Other(p)] = client[Other(p)]
        /\ stale'[p] = late /\ stale'[Other(p)] = stale[Other(p)]
    BY <1>1, <2>2
  <2> QED
    BY <1>3, <2>1, <2>3, <2>4 DEF SameScreen
<1> QED
  BY <1>2, <1>3

\* A handler sends the result it holds to a player p.
LEMMA SendEffect ==
  ASSUME SidesInv, NEW s \in Sides, NEW c \in Sockets,
         NEW p, \/ SendOwn(s, c) /\ p = s
                \/ SendOthers(s, c) /\ p = Other(s)
  PROVE  /\ RowStays /\ UNCHANGED room /\ OnlyDesk(s, c) /\ p \in Sides
         /\ handler[s][c].res \in Result /\ PostResult(handler[s][c].res, p)
         /\ handler'[s][c].up = handler[s][c].up
         /\ \/ /\ handler[s][c].pc = "own" /\ p = s /\ handler'[s][c].pc = "others"
               /\ handler'[s][c].res = handler[s][c].res
            \/ /\ handler[s][c].pc = "others" /\ p = Other(s)
               /\ handler'[s][c].pc = "serving"
<1>1. /\ RowStays /\ UNCHANGED room /\ p \in Sides /\ PostResult(handler[s][c].res, p)
      /\ handler[s][c].pc \in {"own", "others"} /\ handler[s][c] \in Desk /\ SocketsTyped
  BY TwoSides DEF SendOwn, SendOthers, tables, challenge, SidesInv, SocketsTyped, RowStays
<1>2. handler[s][c].res \in Result
  BY <1>1 DEF SidesInv, SideInv, HandlerTrue, ResultTrue
<1>3. CASE SendOwn(s, c) /\ p = s
  <2> DEFINE h == [handler[s][c] EXCEPT !.pc = "others"]
  <2>1. "others" \in Steps /\ <<>> \in Result \cup {<<>>} /\ <<>> \in Seq(Nat)
    BY DEF Steps
  <2>2. h \in Desk /\ h.pc = "others" /\ h.up = handler[s][c].up /\ h.res = handler[s][c].res
    BY <1>1, <2>1, DeskFields, ZenonT(60)
  <2>3. Becomes(s, c, h) /\ handler[s][c].pc = "own"
    BY <1>3 DEF SendOwn
  <2> HIDE DEF h
  <2> QED
    BY <1>1, <1>2, <1>3, <2>2, <2>3, BecomesEffect DEF OnlyDesk
<1>4. CASE SendOthers(s, c) /\ p = Other(s)
  <2> DEFINE h == [handler[s][c] EXCEPT !.pc = "serving", !.res = <<>>]
  <2>1. "serving" \in Steps /\ <<>> \in Result \cup {<<>>} /\ <<>> \in Seq(Nat)
    BY DEF Steps
  <2>2. h \in Desk /\ h.pc = "serving" /\ h.up = handler[s][c].up
    BY <1>1, <2>1, Zenon DEF Desk
  <2>3. Becomes(s, c, h) /\ handler[s][c].pc = "others"
    BY <1>4 DEF SendOthers
  <2> HIDE DEF h
  <2> QED
    BY <1>1, <1>2, <1>4, <2>2, <2>3, BecomesEffect DEF OnlyDesk
<1> QED
  BY <1>3, <1>4

LEMMA DisconnectEffect ==
  ASSUME SocketsTyped, NEW s \in Sides, NEW c \in Sockets, Disconnect(s, c)
  PROVE  /\ RowStays /\ UNCHANGED <<client, stale>> /\ OnlyDesk(s, c)
         /\ client[s].conn # c /\ handler[s][c].pc = "serving"
         /\ handler'[s][c].pc = "none" /\ handler'[s][c].up = <<>>
         /\ room'[Other(s)] = room[Other(s)]
         /\ room'[s] = NoSocket \/ room'[s] = room[s]
         /\ room[s] # c => room'[s] = room[s]
<1>1. /\ RowStays /\ UNCHANGED <<client, stale>> /\ Becomes(s, c, NoHandler)
      /\ client[s].conn # c /\ handler[s][c].pc = "serving" /\ HubLeave(s, c)
      /\ room \in [Sides -> Nat] /\ Other(s) \in Sides /\ Other(s) # s
  BY TwoSides DEF Disconnect, tables, challenge, SocketsTyped, RowStays
<1>2. NoHandler \in Desk /\ NoHandler.pc = "none" /\ NoHandler.up = <<>>
  BY DEF NoHandler, Desk, Steps
<1>3. OnlyDesk(s, c) /\ handler'[s][c] = NoHandler
  BY <1>1, <1>2, BecomesEffect DEF OnlyDesk
<1> QED
  BY <1>1, <1>2, <1>3 DEF HubLeave

LEMMA AdvanceEffect ==
  ASSUME SocketsTyped, NEW s \in Sides, Advance(s), client[s].reveal + 1 \in Nat
  PROVE  /\ RowStays /\ UNCHANGED <<room, handler, stale>>
         /\ client'[Other(s)] = client[Other(s)] /\ client[s].phase = "reveal"
         /\ client'[s].conn = client[s].conn
         /\ \/ client'[s].phase = "done"
            \/ client'[s].phase = "playing" /\ client'[s].idx = client[s].reveal + 1
<1> DEFINE v == client[s]
           done == [v EXCEPT !.phase = "done"]
           next == [v EXCEPT !.phase = "playing", !.idx = v.reveal + 1, !.reveal = -1]
<1>1. /\ RowStays /\ UNCHANGED <<room, handler, stale>> /\ v.phase = "reveal"
      /\ client' = [client EXCEPT ![s] = IF v.over THEN done ELSE next]
      /\ client \in [Sides -> View] /\ v \in View /\ Other(s) \in Sides /\ Other(s) # s
  BY TwoSides DEF Advance, tables, challenge, SocketsTyped, RowStays
<1>2. PICK j : j = v.reveal + 1
  OBVIOUS
<1>3. j \in Nat /\ -1 \in Int /\ {"done", "playing"} \subseteq Phases
  BY <1>2 DEF Phases
<1>4. done.phase = "done" /\ done.conn = v.conn
  BY <1>1, <1>3, Zenon DEF View
<1>5. next.phase = "playing" /\ next.conn = v.conn /\ next.idx = j
  BY <1>1, <1>2, <1>3, Zenon DEF View
<1>6. client'[s] = (IF v.over THEN done ELSE next) /\ client'[Other(s)] = client[Other(s)]
  BY <1>1
<1> HIDE DEF done, next
<1> QED
  BY <1>1, <1>2, <1>4, <1>5, <1>6

\* The screen of s is closed or loses its socket; answers under way may be lost.
LEMMA LeaveEffect ==
  ASSUME SocketsTyped, NEW s \in Sides, GoBack(s) \/ WalkAway(s) \/ Drop(s)
  PROVE  /\ RowStays /\ UNCHANGED <<room, stale>> /\ client'[Other(s)] = client[Other(s)]
         /\ client'[s].conn = NoSocket /\ client'[s].phase \in {"closed", "done", "error"}
         /\ handler' \in [Sides -> [Sockets -> Desk]]
         /\ \A p \in Sides, d \in Sockets :
              /\ handler'[p][d].pc = handler[p][d].pc
              /\ handler'[p][d].res = handler[p][d].res
              /\ handler'[p][d].up = handler[p][d].up
                 \/ (p = s /\ handler'[p][d].up = <<>>)
         /\ Drop(s) => client[s].conn # NoSocket
<1>1. /\ client \in [Sides -> View] /\ client[s] \in View
      /\ handler \in [Sides -> [Sockets -> Desk]] /\ Other(s) \in Sides /\ Other(s) # s
  BY TwoSides DEF SocketsTyped
<1>2. CASE GoBack(s) \/ WalkAway(s)
  <2>1. /\ client' = [client EXCEPT ![s] = Closed]
        /\ UNCHANGED <<room, stale, handler>> /\ RowStays
    BY <1>2 DEF GoBack, WalkAway, Exit, tables, challenge, RowStays
  <2>2. client'[s] = Closed /\ client'[Other(s)] = client[Other(s)]
    BY <1>1, <2>1
  <2>3. Drop(s) => client[s].conn # NoSocket
    BY DEF Drop
  <2> QED
    BY <1>1, <2>1, <2>2, <2>3, ClosedFields
<1>3. CASE Drop(s)
  <2>1. PICK c, w : c = client[s].conn /\ w = Lost(s)
    OBVIOUS
  <2>2. /\ UNCHANGED <<room, stale>> /\ RowStays
        /\ client' = [client EXCEPT ![s] = w] /\ c # NoSocket
        /\ handler' = handler \/ Becomes(s, c, [handler[s][c] EXCEPT !.up = <<>>])
    BY <1>3, <2>1 DEF Drop, tables, challenge, RowStays
  <2>3. w.conn = NoSocket /\ w.phase \in {"done", "error"}
    <3>1. Lost(s).conn = NoSocket
      BY LostView
    <3>2. client[s].phase = "done" => Lost(s).phase = "done"
      <4>1. "done" \in Phases
        BY DEF Phases
      <4> QED
        BY <1>1, Zenon DEF Lost, View
    <3>3. client[s].phase # "done" => Lost(s).phase = "error"
      BY <2>1, <2>2, LostView
    <3> QED
      BY <2>1, <3>1, <3>2, <3>3
  <2>4. client'[s] = w /\ client'[Other(s)] = client[Other(s)]
    BY <1>1, <2>2
  <2>5. CASE handler' = handler
    BY <1>1, <2>1, <2>2, <2>3, <2>4, <2>5
  <2>6. CASE Becomes(s, c, [handler[s][c] EXCEPT !.up = <<>>])
    <3> DEFINE h == [handler[s][c] EXCEPT !.up = <<>>]
    <3>1. c \in Sockets /\ handler[s][c] \in Desk
      BY <1>1, <2>1, <2>2 DEF View
    <3>2. /\ h \in Desk /\ h.pc = handler[s][c].pc /\ h.up = <<>>
          /\ h.res = handler[s][c].res
      <4>1. <<>> \in Seq(Nat)
        OBVIOUS
      <4> QED
        BY <3>1, <4>1, Zenon DEF Desk
    <3>3. Becomes(s, c, h)
      BY <2>6
    <3> HIDE DEF h
    <3>4. /\ handler' \in [Sides -> [Sockets -> Desk]] /\ handler'[s][c] = h
          /\ \A p \in Sides, d \in Sockets :
               p # s \/ d # c => handler'[p][d] = handler[p][d]
      BY <3>1, <3>2, <3>3, BecomesEffect
    <3>5. \A p \in Sides, d \in Sockets :
            /\ handler'[p][d].pc = handler[p][d].pc
            /\ handler'[p][d].res = handler[p][d].res
            /\ handler'[p][d].up = handler[p][d].up \/ (p = s /\ handler'[p][d].up = <<>>)
      BY <3>2, <3>4
    <3> QED
      BY <2>1, <2>2, <2>3, <2>4, <3>4, <3>5
  <2> QED
    BY <2>2, <2>5, <2>6
<1> QED
  BY <1>2, <1>3

-------------------------------------------------------------------------------
(* Where the screens are: PlaceInv *)

InDuel == {"lobby", "playing", "waiting", "reveal"}

\* A screen in the duel has joined, one that connects waits for its handler, a closed one
\* has no socket; a socket on a screen has a handler.
Placed(s) ==
  /\ client[s].phase \in InDuel => Joined(s)
  /\ client[s].phase = "connecting" => Connects(s)
  /\ client[s].phase \in {"closed", "error"} => client[s].conn = NoSocket
  /\ client[s].conn \in Sockets => handler[s][client[s].conn].pc # "none"

\* The hub has the socket of a screen that has joined: no other handler took its place.
Registered(s) == Joined(s) => room[s] = client[s].conn

\* In the lobby one is alone.
Alone(s) == client[s].phase = "lobby" => room[Other(s)] = NoSocket

PlaceSide(s) == Placed(s) /\ Registered(s) /\ Alone(s)

\* No socket is opened before the accept.
Unopened ==
  accepts = 0 =>
    \A s \in Sides : client[s].phase = "closed" /\ \A c \in Sockets : handler[s][c].pc = "none"

PlaceInv == Unopened /\ \A s \in Sides : PlaceSide(s)

LEMMA PlaceStays ==
  ASSUME NEW p \in Sides, PlaceSide(p), client'[p].conn = client[p].conn,
         \/ client'[p].phase = client[p].phase
         \/ client'[p].phase \in InDuel \ {"lobby"} /\ Joined(p)
         \/ client'[p].phase = "done",
         \A d \in Sockets : d = client[p].conn =>
           /\ handler'[p][d].pc = "none" <=> handler[p][d].pc = "none"
           /\ handler'[p][d].pc = "read" <=> handler[p][d].pc = "read",
         room'[p] = room[p],
         \/ room'[Other(p)] \in {room[Other(p)], NoSocket}
         \/ client'[p].phase # "lobby"
  PROVE  PlaceSide(p)'
<1>1. (Joined(p)' <=> Joined(p)) /\ (Connects(p)' <=> Connects(p))
  BY DEF Joined, Connects
<1>2. Placed(p)'
  <2>1. client'[p].phase \in InDuel => Joined(p)'
    BY <1>1 DEF PlaceSide, Placed, InDuel
  <2>2. client'[p].phase = "connecting" => Connects(p)'
    BY <1>1 DEF PlaceSide, Placed, InDuel
  <2>3. client'[p].phase \in {"closed", "error"} => client'[p].conn = NoSocket
    BY DEF PlaceSide, Placed, InDuel
  <2>4. client'[p].conn \in Sockets => handler'[p][client'[p].conn].pc # "none"
    BY DEF PlaceSide, Placed
  <2> QED
    BY <2>1, <2>2, <2>3, <2>4 DEF Placed
<1>3. Registered(p)'
  BY <1>1 DEF PlaceSide, Registered
<1>4. Alone(p)'
  BY DEF PlaceSide, Alone, InDuel
<1> QED
  BY <1>2, <1>3, <1>4 DEF PlaceSide

LEMMA PlaceGone ==
  ASSUME NEW p \in Sides, client'[p].conn = NoSocket,
         client'[p].phase \in {"closed", "done", "error"}
  PROVE  PlaceSide(p)'
BY DEF PlaceSide, Placed, Registered, Alone, Joined, Connects, InDuel, NoSocket, Sockets

LEMMA InitPlace == Init => PlaceInv
<1> SUFFICES ASSUME Init PROVE PlaceInv
  OBVIOUS
<1>1. /\ \A s \in Sides : client[s] = Closed /\ room[s] = NoSocket
      /\ \A s \in Sides, c \in Sockets : handler[s][c] = NoHandler
  BY DEF Init
<1>2. NoHandler.pc = "none"
  BY DEF NoHandler
<1>3. ASSUME NEW s \in Sides PROVE PlaceSide(s)
  <2>1. client[s].conn = NoSocket /\ client[s].phase = "closed"
    BY <1>1, ClosedFields
  <2> QED
    BY <2>1
    DEF PlaceSide, Placed, Registered, Alone, Joined, Connects, InDuel, NoSocket, Sockets
<1> QED
  BY <1>1, <1>2, <1>3, ClosedFields DEF PlaceInv, Unopened

\* Who has a socket or a handler came after the accept.
LEMMA Accepted ==
  ASSUME PlaceInv, NEW s \in Sides,
         \/ client[s].phase # "closed"
         \/ client[s].conn \in Sockets
         \/ \E c \in Sockets : handler[s][c].pc # "none"
  PROVE  accepts # 0
BY DEF PlaceInv, Unopened, PlaceSide, Placed, NoSocket, Sockets

LEMMA OpenPlace ==
  ASSUME LiveInv, SidesInv, PlaceInv, NEW s \in Sides, Open(s)
  PROVE  PlaceInv'
<1>1. PICK o : o = Other(s)
  OBVIOUS
<1>2. /\ o \in Sides /\ o # s /\ (\A p \in Sides : p = s \/ p = o) /\ Other(o) = s
      /\ PlaceSide(s) /\ PlaceSide(o)
  BY <1>1, TwoSides DEF PlaceInv
<1>3. /\ accepts > 0 /\ accepts \in Nat /\ RowStays /\ SameScreen(o) /\ room' = room
      /\ client[s].phase = "closed"
      /\ \/ \E c \in Sockets :
              /\ OnlyDesk(s, c) /\ handler[s][c].pc = "none"
              /\ handler'[s][c].pc = "read" /\ handler'[s][c].up = <<>>
              /\ client'[s].phase = "connecting" /\ client'[s].conn = c
         \/ /\ handler' = handler
            /\ client'[s].phase = "error" /\ client'[s].conn = client[s].conn
  BY <1>1, OpenEffect DEF SidesInv, LiveInv, TablesTyped
<1>4. Unopened'
  BY <1>3 DEF Unopened, RowStays
<1>5. PlaceSide(o)'
  <2>1. \A d \in Sockets : handler'[o][d] = handler[o][d]
    BY <1>2, <1>3 DEF OnlyDesk
  <2> QED
    BY <1>2, <1>3, <2>1, PlaceStays DEF SameScreen
<1>6. PlaceSide(s)'
  BY <1>2, <1>3
  DEF PlaceSide, Placed, Registered, Alone, Joined, Connects, InDuel, NoSocket, Sockets
<1> QED
  BY <1>2, <1>4, <1>5, <1>6 DEF PlaceInv

LEMMA JoinPlace ==
  ASSUME LiveInv, SidesInv, PlaceInv, NEW s \in Sides, NEW c \in Sockets, Join(s, c)
  PROVE  PlaceInv'
<1>1. PICK o : o = Other(s)
  OBVIOUS
<1>2. /\ o \in Sides /\ o # s /\ (\A p \in Sides : p = s \/ p = o) /\ Other(o) = s
      /\ PlaceSide(s) /\ PlaceSide(o) /\ client[s] \in View /\ SocketsTyped
  BY <1>1, TwoSides DEF PlaceInv, SidesInv, SocketsTyped
<1>3. /\ RowStays /\ handler[s][c].pc = "read" /\ OnlyDesk(s, c)
      /\ handler'[s][c].pc \in {"serving", "none"}
      /\ room'[o] = room[o] /\ room'[s] \in {c, DeadSocket}
      /\ (client[s].conn = c) =>
           /\ handler'[s][c].pc = "serving" /\ room'[s] = c /\ client'[s].conn = c
           /\ client'[s].phase \in {"done", "playing", "lobby"}
           /\ client'[s].phase = "lobby" => room[o] = NoSocket
      /\ (client[s].conn # c) =>
           client'[s] = IF room[s] # c /\ Reaches(s) THEN Lost(s) ELSE client[s]
      /\ \/ client'[o] = client[o] /\ ~(client[o].phase = "lobby" /\ Reaches(o))
         \/ /\ client[o].phase = "lobby" /\ client'[o].phase = "playing"
            /\ client'[o].conn = client[o].conn
  BY <1>1, JoinEffect
<1>4. Unopened'
  <2>1. accepts # 0
    BY <1>3, Accepted
  <2> QED
    BY <1>3, <2>1 DEF Unopened, RowStays
<1>5. PlaceSide(o)'
  <2>1. \A d \in Sockets : handler'[o][d] = handler[o][d]
    BY <1>2, <1>3 DEF OnlyDesk
  <2>2. client[o].phase = "lobby" => Joined(o) /\ Reaches(o)
    BY <1>2 DEF PlaceSide, Placed, Registered, Reaches, InDuel, Joined, Sockets, NoSocket
  <2>3. client'[o].phase # "lobby"
    BY <1>3, <2>2
  <2>4. client'[o].conn = client[o].conn
    BY <1>3
  <2>5. \/ client'[o].phase = client[o].phase
        \/ client'[o].phase \in InDuel \ {"lobby"} /\ Joined(o)
    BY <1>3, <2>2 DEF InDuel
  <2> QED
    BY <1>2, <1>3, <2>1, <2>3, <2>4, <2>5, PlaceStays
<1>6. CASE client[s].conn = c
  <2>1. PlaceSide(s)'
    BY <1>1, <1>2, <1>3, <1>6
    DEF PlaceSide, Placed, Registered, Alone, Joined, Connects, InDuel
  <2> QED
    BY <1>2, <1>4, <1>5, <2>1 DEF PlaceInv
<1>7. CASE client[s].conn # c
  <2>1. \A d \in Sockets : d = client[s].conn => handler'[s][d] = handler[s][d]
    BY <1>3, <1>7 DEF OnlyDesk
  <2>2. CASE Reaches(s)
    <3>1. client'[s] = IF room[s] # c THEN Lost(s) ELSE client[s]
      BY <1>3, <1>7, <2>2
    <3>2. room[s] # c
      BY <1>7, <2>2 DEF Reaches
    <3>3. client'[s].conn = NoSocket /\ client[s].conn # NoSocket
      BY <1>2, <2>2, <3>1, <3>2, LostView DEF Reaches
    <3>4. client'[s].phase \in {"done", "error"}
      BY <1>2, <3>1, <3>2, <3>3, LostView
    <3>5. PlaceSide(s)'
      BY <3>3, <3>4, PlaceGone
    <3> QED
      BY <1>2, <1>4, <1>5, <3>5 DEF PlaceInv
  <2>3. CASE ~Reaches(s)
    <3>1. client'[s] = client[s]
      BY <1>3, <1>7, <2>3
    <3>2. ~Joined(s)
      BY <1>2, <2>3 DEF PlaceSide, Registered, Reaches, Joined, Sockets, NoSocket
    <3>3. ~Joined(s)' /\ (Connects(s) => Connects(s)')
      BY <2>1, <3>1, <3>2 DEF Joined, Connects
    <3>4. Placed(s)' /\ Alone(s)' /\ Registered(s)'
      BY <1>2, <2>1, <3>1, <3>2, <3>3 DEF PlaceSide, Placed, Alone, Registered, InDuel
    <3> QED
      BY <1>2, <1>4, <1>5, <3>4 DEF PlaceInv, PlaceSide
  <2> QED
    BY <2>2, <2>3
<1> QED
  BY <1>6, <1>7

\* A step of one handler that neither joins nor ends, and moves a screen only on in the duel.
LEMMA DeskPlace ==
  ASSUME PlaceInv, NEW s \in Sides, NEW c \in Sockets, OnlyDesk(s, c), UNCHANGED <<room, accepts>>,
         handler[s][c].pc \notin {"none", "read"}, handler'[s][c].pc \notin {"none", "read"},
         \A p \in Sides : /\ client'[p].conn = client[p].conn
                          /\ \/ client'[p].phase = client[p].phase
                             \/ client'[p].phase \in InDuel \ {"lobby"} /\ Joined(p)
  PROVE  PlaceInv'
<1>1. accepts # 0
  BY Accepted
<1>2. Unopened'
  BY <1>1 DEF Unopened
<1>3. ASSUME NEW p \in Sides PROVE PlaceSide(p)'
  <2>1. \A d \in Sockets : /\ handler'[p][d].pc = "none" <=> handler[p][d].pc = "none"
                           /\ handler'[p][d].pc = "read" <=> handler[p][d].pc = "read"
    BY DEF OnlyDesk
  <2>2. PlaceSide(p) /\ Other(p) \in Sides
    BY TwoSides DEF PlaceInv
  <2> QED
    BY <2>1, <2>2, PlaceStays
<1> QED
  BY <1>2, <1>3 DEF PlaceInv

LEMMA SubmitPlace ==
  ASSUME SidesInv, PlaceInv, NEW s \in Sides, SubmitAnswer(s)
  PROVE  PlaceInv'
<1>1. PICK c : c = client[s].conn
  OBVIOUS
<1>2. client[s].phase = "playing"
  BY DEF SubmitAnswer
<1>3. Joined(s) /\ c \in Sockets /\ SocketsTyped
  BY <1>1, <1>2 DEF PlaceInv, PlaceSide, Placed, InDuel, Joined, SidesInv
<1>4. /\ RowStays /\ UNCHANGED room /\ OnlyDesk(s, c)
      /\ handler'[s][c].pc = handler[s][c].pc
      /\ client'[s].phase = "waiting" /\ client'[s].conn = c
      /\ client'[Other(s)] = client[Other(s)]
  BY <1>1, <1>3, SubmitEffect
<1>5. handler[s][c].pc \notin {"none", "read"}
  BY <1>1, <1>3 DEF Joined
<1>6. \A p \in Sides : /\ client'[p].conn = client[p].conn
                       /\ \/ client'[p].phase = client[p].phase
                          \/ client'[p].phase \in InDuel \ {"lobby"} /\ Joined(p)
  BY <1>1, <1>3, <1>4, TwoSides DEF InDuel
<1> QED
  BY <1>3, <1>4, <1>5, <1>6, DeskPlace DEF RowStays

LEMMA ServePlace ==
  ASSUME LiveInv, SidesInv, PlaceInv, NEW s \in Sides, NEW c \in Sockets, Serve(s, c)
  PROVE  PlaceInv'
<1>1. /\ UNCHANGED <<accepts, room, client>> /\ OnlyDesk(s, c)
      /\ handler[s][c].pc = "serving" /\ handler'[s][c].pc \in {"serving", "ack", "own"}
  <2>1. PICK i : i = Head(handler[s][c].up)
    OBVIOUS
  <2> QED
    BY <2>1, ServeEffect DEF SidesInv
<1> QED
  BY <1>1, DeskPlace

LEMMA AckPlace ==
  ASSUME SidesInv, PlaceInv, NEW s \in Sides, NEW c \in Sockets, SendAck(s, c)
  PROVE  PlaceInv'
<1>1. /\ RowStays /\ UNCHANGED room /\ OnlyDesk(s, c)
      /\ handler[s][c].pc = "ack" /\ handler'[s][c].pc = "serving"
      /\ client'[Other(s)] = client[Other(s)]
      /\ client[s].conn # c => client'[s] = client[s]
      /\ client[s].conn = c => client'[s].phase = "waiting" /\ client'[s].conn = c
  BY AckEffect DEF SidesInv, SameScreen
<1>2. client[s].conn = c => Joined(s)
  BY <1>1 DEF Joined
<1>3. \A p \in Sides : /\ client'[p].conn = client[p].conn
                       /\ \/ client'[p].phase = client[p].phase
                          \/ client'[p].phase \in InDuel \ {"lobby"} /\ Joined(p)
  BY <1>1, <1>2, TwoSides DEF InDuel
<1> QED
  BY <1>1, <1>3, DeskPlace DEF RowStays

\* The hub reaches only those that have joined.
LEMMA ReachedJoined ==
  ASSUME SidesInv, NEW p \in Sides, Reaches(p)
  PROVE  Joined(p)
<1>1. client[p] \in View /\ RoomTrue(p)
  BY DEF SidesInv, SideInv, SocketsTyped
<1> QED
  BY <1>1 DEF Reaches, RoomTrue, Joined, View, NoSocket, Sockets

LEMMA SendPlace ==
  ASSUME SidesInv, PlaceInv, NEW s \in Sides, NEW c \in Sockets,
         NEW p, \/ SendOwn(s, c) /\ p = s
                \/ SendOthers(s, c) /\ p = Other(s)
  PROVE  PlaceInv'
<1>1. PICK res : res = handler[s][c].res
  OBVIOUS
<1>2. /\ RowStays /\ UNCHANGED room /\ OnlyDesk(s, c) /\ p \in Sides
      /\ res \in Result /\ PostResult(res, p)
      /\ handler[s][c].pc \in {"own", "others"} /\ handler'[s][c].pc \in {"others", "serving"}
  BY <1>1, SendEffect
<1>3. /\ client'[Other(p)] = client[Other(p)]
      /\ ~Reaches(p) => client'[p] = client[p]
      /\ Reaches(p) => client'[p].phase = "reveal" /\ client'[p].conn = client[p].conn
  BY <1>2, PostEffect DEF SidesInv, SameScreen
<1>4. Reaches(p) => Joined(p)
  BY <1>2, ReachedJoined
<1>5. \A q \in Sides : /\ client'[q].conn = client[q].conn
                       /\ \/ client'[q].phase = client[q].phase
                          \/ client'[q].phase \in InDuel \ {"lobby"} /\ Joined(q)
  BY <1>2, <1>3, <1>4, TwoSides DEF InDuel
<1> QED
  BY <1>2, <1>5, DeskPlace DEF RowStays

LEMMA DisconnectPlace ==
  ASSUME SidesInv, PlaceInv, NEW s \in Sides, NEW c \in Sockets, Disconnect(s, c)
  PROVE  PlaceInv'
<1>1. PICK o : o = Other(s)
  OBVIOUS
<1>2. /\ o \in Sides /\ o # s /\ (\A p \in Sides : p = s \/ p = o) /\ Other(o) = s
      /\ PlaceSide(s) /\ PlaceSide(o)
  BY <1>1, TwoSides DEF PlaceInv
<1>3. /\ RowStays /\ UNCHANGED client /\ OnlyDesk(s, c)
      /\ client[s].conn # c /\ handler[s][c].pc = "serving"
      /\ handler'[s][c].pc = "none"
      /\ room'[o] = room[o]
      /\ room'[s] = NoSocket \/ room'[s] = room[s]
      /\ room[s] # c => room'[s] = room[s]
  BY <1>1, DisconnectEffect DEF SidesInv
<1>4. Unopened'
  <2>1. accepts # 0
    BY <1>3, Accepted
  <2> QED
    BY <1>3, <2>1 DEF Unopened, RowStays
<1>5. PlaceSide(o)'
  <2>1. \A d \in Sockets : handler'[o][d] = handler[o][d]
    BY <1>2, <1>3 DEF OnlyDesk
  <2> QED
    BY <1>2, <1>3, <2>1, PlaceStays
<1>6. PlaceSide(s)'
  <2>1. \A d \in Sockets : d = client[s].conn => handler'[s][d] = handler[s][d]
    BY <1>3 DEF OnlyDesk
  <2>2. (Joined(s)' <=> Joined(s)) /\ (Connects(s)' <=> Connects(s))
    BY <1>3, <2>1 DEF Joined, Connects
  <2>3. Placed(s)' /\ Alone(s)'
    BY <1>1, <1>2, <1>3, <2>1, <2>2 DEF PlaceSide, Placed, Alone
  <2>4. Registered(s)'
    BY <1>2, <1>3, <2>2 DEF PlaceSide, Registered
  <2> QED
    BY <2>3, <2>4 DEF PlaceSide
<1> QED
  BY <1>2, <1>4, <1>5, <1>6 DEF PlaceInv

LEMMA AdvancePlace ==
  ASSUME SidesInv, PlaceInv, NEW s \in Sides, Advance(s)
  PROVE  PlaceInv'
<1>1. client[s].reveal + 1 \in Nat
  BY DEF SidesInv, SideInv, ViewTrue
<1>2. /\ RowStays /\ UNCHANGED <<room, handler>>
      /\ client'[Other(s)] = client[Other(s)] /\ client[s].phase = "reveal"
      /\ client'[s].conn = client[s].conn
      /\ client'[s].phase \in {"done", "playing"}
  BY <1>1, AdvanceEffect DEF SidesInv
<1>3. Joined(s)
  BY <1>2 DEF PlaceInv, PlaceSide, Placed, InDuel
<1>4. Unopened'
  <2>1. accepts # 0
    BY <1>2, Accepted
  <2> QED
    BY <1>2, <2>1 DEF Unopened, RowStays
<1>5. ASSUME NEW p \in Sides PROVE PlaceSide(p)'
  <2>1. /\ PlaceSide(p) /\ client'[p].conn = client[p].conn
        /\ \/ client'[p].phase = client[p].phase
           \/ client'[p].phase \in InDuel \ {"lobby"} /\ Joined(p)
           \/ client'[p].phase = "done"
    BY <1>2, <1>3, TwoSides DEF PlaceInv, InDuel
  <2> QED
    BY <1>2, <2>1, PlaceStays
<1> QED
  BY <1>4, <1>5 DEF PlaceInv

LEMMA LeavePlace ==
  ASSUME SidesInv, PlaceInv, NEW s \in Sides, GoBack(s) \/ WalkAway(s) \/ Drop(s)
  PROVE  PlaceInv'
<1>1. PICK o : o = Other(s)
  OBVIOUS
<1>2. /\ o \in Sides /\ o # s /\ (\A p \in Sides : p = s \/ p = o) /\ Other(o) = s
      /\ PlaceSide(s) /\ PlaceSide(o) /\ client[s] \in View
  BY <1>1, TwoSides DEF PlaceInv, SidesInv, SocketsTyped
<1>3. /\ RowStays /\ UNCHANGED room /\ client'[o] = client[o]
      /\ client'[s].conn = NoSocket /\ client'[s].phase \in {"closed", "done", "error"}
      /\ \A p \in Sides, d \in Sockets : handler'[p][d].pc = handler[p][d].pc
      /\ Drop(s) => client[s].conn # NoSocket
  BY <1>1, LeaveEffect DEF SidesInv
<1>4. PlaceSide(s)'
  BY <1>3, PlaceGone
<1>5. PlaceSide(o)'
  BY <1>2, <1>3, PlaceStays
<1>6. Unopened'
  <2>1. accepts # 0
    <3>1. \/ client[s].phase # "closed"
          \/ client[s].conn \in Sockets
      BY <1>2, <1>3 DEF GoBack, LeftBehind, WalkAway, View
    <3> QED
      BY <3>1, Accepted
  <2> QED
    BY <1>3, <2>1 DEF Unopened, RowStays
<1> QED
  BY <1>2, <1>4, <1>5, <1>6 DEF PlaceInv

LEMMA RestartPlace ==
  ASSUME SidesInv, PlaceInv, Restart
  PROVE  PlaceInv'
<1>1. /\ client' = [s \in Sides |-> Lost(s)] /\ UNCHANGED accepts /\ SocketsTyped
      /\ handler' = [s \in Sides |-> [c \in Sockets |-> NoHandler]]
      /\ NoHandler.pc = "none"
  BY DEF Restart, SidesInv, NoHandler
<1>2. ASSUME NEW s \in Sides
      PROVE  PlaceSide(s)' /\ (client[s].phase = "closed" => client'[s].phase = "closed")
  <2>1. client'[s] = Lost(s) /\ client[s] \in View /\ Placed(s)
    BY <1>1 DEF SocketsTyped, PlaceInv, PlaceSide
  <2>2. client'[s].conn = NoSocket
    BY <1>1, <2>1, LostView
  <2>3. CASE client[s].phase = "done" \/ client[s].conn # NoSocket
    <3>1. client'[s].phase \in {"done", "error"} /\ client[s].phase # "closed"
      BY <1>1, <2>1, <2>3, LostView DEF Placed
    <3> QED
      BY <2>2, <3>1, PlaceGone
  <2>4. CASE client[s].phase # "done" /\ client[s].conn = NoSocket
    <3>1. client'[s] = client[s]
      BY <2>1, <2>4 DEF Lost
    <3>2. client[s].phase \in {"closed", "error"}
      BY <2>1, <2>4 DEF Placed, Joined, Connects, NoSocket, Sockets, InDuel, View, Phases
    <3> QED
      BY <2>2, <3>1, <3>2, PlaceGone
  <2> QED
    BY <2>3, <2>4
<1>3. Unopened'
  BY <1>1, <1>2 DEF PlaceInv, Unopened
<1> QED
  BY <1>2, <1>3 DEF PlaceInv

LEMMA QuietPlace ==
  ASSUME PlaceInv, UNCHANGED <<room, handler, client>>, accepts' = 0 => accepts = 0
  PROVE  PlaceInv'
<1>1. ASSUME NEW p \in Sides PROVE PlaceSide(p)'
  BY PlaceStays DEF PlaceInv
<1> QED
  BY <1>1 DEF PlaceInv, Unopened

LEMMA PlaceStep ==
  ASSUME LiveInv, SidesInv, PlaceInv, [Next]_vars
  PROVE  PlaceInv'
<1>1. ASSUME NEW r \in Reqs, NEW verb, WriteVerdict(r) \/ ReadPending(r, verb) PROVE PlaceInv'
  BY <1>1, QuietPlace DEF WriteVerdict, ReadPending, LiveInv, TablesTyped
<1>2. ASSUME Lapse \/ ScanExpired \/ WriteExpired PROVE PlaceInv'
  BY <1>2, QuietPlace DEF Lapse, ScanExpired, WriteExpired
<1>3. ASSUME NEW s \in Sides, NEW c \in Sockets, Handle(s, c) \/ Disconnect(s, c) PROVE PlaceInv'
  <2>1. CASE SendOwn(s, c) \/ SendOthers(s, c)
    BY <2>1, SendPlace
  <2> QED
    BY <1>3, <2>1, JoinPlace, ServePlace, AckPlace, DisconnectPlace DEF Handle
<1>4. ASSUME NEW s \in Sides,
             \/ Open(s) \/ SubmitAnswer(s) \/ Advance(s)
             \/ GoBack(s) \/ WalkAway(s) \/ Drop(s)
      PROVE  PlaceInv'
  BY <1>4, OpenPlace, SubmitPlace, AdvancePlace, LeavePlace
<1>5. ASSUME UNCHANGED vars PROVE PlaceInv'
  BY <1>5, QuietPlace DEF vars, challenge
<1> QED
  BY <1>1, <1>2, <1>3, <1>4, <1>5, RestartPlace DEF Next

-------------------------------------------------------------------------------
(* Nobody is left waiting: AskedInv *)

\* A result for question i is still to be sent to s.
Pending(s, i) ==
  \E c \in Sockets :
    \/ handler[s][c].pc = "own" /\ handler[s][c].res.idx = i
    \/ handler[Other(s)][c].pc \in {"own", "others"} /\ handler[Other(s)][c].res.idx = i

\* The question a screen will be on when it goes on.
Seen(s) == IF client[s].phase = "reveal" THEN client[s].reveal + 1 ELSE client[s].idx

\* The answer of s for question i is recorded or under way.
Answering(s, i) ==
  \/ <<i, s>> \in answered
  \/ \E k \in DOMAIN handler[s][client[s].conn].up : handler[s][client[s].conn].up[k] = i

Playing == duel.status = "active" /\ accepts = 1

\* A screen that is behind the duel will be told, and one that waits on the question of the
\* duel has answered it.
Asked(s) ==
  Playing /\ ~stale[s] /\ Joined(s) =>
    /\ client[s].phase \in InDuel /\ Seen(s) < duel.round => Pending(s, Seen(s))
    /\ client[s].phase = "waiting" /\ client[s].idx = duel.round => Answering(s, client[s].idx)

\* An answer is recorded before it is acknowledged.
Acked(s) ==
  \A c \in Sockets : handler[s][c].pc = "ack" => <<handler[s][c].res.idx, s>> \in answered

\* The round that both have answered is over.
HalfAnswered == ~(\A s \in Sides : <<duel.round, s>> \in answered)

\* What is under way is an answer to a question there is.
UpsInRange ==
  \A s \in Sides, c \in Sockets :
    \A k \in DOMAIN handler[s][c].up : handler[s][c].up[k] \in 0..Total - 1

AskedInv == HalfAnswered /\ UpsInRange /\ \A s \in Sides : Asked(s) /\ Acked(s)

-------------------------------------------------------------------------------
LEMMA PendingStays ==
  ASSUME NEW s \in Sides, NEW i,
         \A p \in Sides, d \in Sockets :
           handler[p][d].pc \in {"own", "others"} =>
             handler'[p][d].pc = handler[p][d].pc /\ handler'[p][d].res = handler[p][d].res
  PROVE  Pending(s, i) => Pending(s, i)'
BY TwoSides DEF Pending

\* The answers of a screen that keeps its socket.
LEMMA AnsweringStays ==
  ASSUME NEW p, answered \subseteq answered', client'[p].conn = client[p].conn,
         handler'[p][client[p].conn].up = handler[p][client[p].conn].up
  PROVE  \A i : Answering(p, i) => Answering(p, i)'
<1>1. PICK up : up = handler[p][client[p].conn].up
  OBVIOUS
<1>2. handler'[p][client'[p].conn].up = up
  BY <1>1
<1>3. ASSUME NEW i, Answering(p, i) PROVE Answering(p, i)'
  <2>1. <<i, p>> \in answered' \/ \E k \in DOMAIN up : up[k] = i
    BY <1>1, <1>3 DEF Answering
  <2> QED
    BY <1>2, <2>1, SMTT(40) DEF Answering
<1> QED
  BY <1>3

\* A screen that is not moved, or only to another phase, while no result is sent.
LEMMA AskedStays ==
  ASSUME NEW s \in Sides, Asked(s), UNCHANGED <<duel, accepts>>,
         stale[s] => stale'[s], Joined(s)' => Joined(s), client'[s].conn = client[s].conn,
         client'[s].phase \in InDuel => client[s].phase \in InDuel /\ Seen(s)' = Seen(s),
         client'[s].phase = "waiting" =>
           client[s].phase = "waiting" /\ client'[s].idx = client[s].idx,
         \A i : Pending(s, i) => Pending(s, i)',
         \A i : Answering(s, i) => Answering(s, i)'
  PROVE  Asked(s)'
<1> SUFFICES ASSUME Playing', ~stale'[s], Joined(s)'
             PROVE  /\ client'[s].phase \in InDuel /\ Seen(s)' < duel'.round =>
                         Pending(s, Seen(s))'
                    /\ client'[s].phase = "waiting" /\ client'[s].idx = duel'.round =>
                         Answering(s, client[s].idx)'
  BY DEF Asked
<1>1. Playing /\ ~stale[s] /\ Joined(s)
  BY DEF Playing
<1>2. PICK i, j : i = Seen(s) /\ j = client[s].idx
  OBVIOUS
<1>3. /\ client[s].phase \in InDuel /\ i < duel.round => Pending(s, i)
      /\ client[s].phase = "waiting" /\ j = duel.round => Answering(s, j)
  BY <1>1, <1>2 DEF Asked
<1>4. ASSUME client'[s].phase \in InDuel, Seen(s)' < duel'.round PROVE Pending(s, Seen(s))'
  <2>1. Seen(s)' = i /\ client[s].phase \in InDuel /\ i < duel.round
    BY <1>2, <1>4
  <2>2. Pending(s, i)'
    BY <1>3, <2>1, SMTT(40)
  <2> QED
    BY <2>1, <2>2 DEF Pending
<1>5. ASSUME client'[s].phase = "waiting", client'[s].idx = duel'.round
      PROVE  Answering(s, client[s].idx)'
  <2>1. client'[s].idx = j /\ client[s].phase = "waiting" /\ j = duel.round
    BY <1>2, <1>5
  <2>2. Answering(s, j)'
    BY <1>3, <2>1
  <2> QED
    BY <2>1, <2>2 DEF Answering
<1> QED
  BY <1>4, <1>5

LEMMA NotJoinedAsked ==
  ASSUME NEW s \in Sides, ~Joined(s)'
  PROVE  Asked(s)'
BY DEF Asked

LEMMA AckedStays ==
  ASSUME NEW s \in Sides, Acked(s), answered \subseteq answered',
         \A d \in Sockets : handler'[s][d].pc = "ack" =>
           handler[s][d].pc = "ack" /\ handler'[s][d].res = handler[s][d].res
  PROVE  Acked(s)'
BY DEF Acked

LEMMA InitAsked == Init => AskedInv
<1> SUFFICES ASSUME Init PROVE AskedInv
  OBVIOUS
<1>1. /\ answered = {} /\ \A s \in Sides : client[s] = Closed
      /\ \A s \in Sides, c \in Sockets : handler[s][c] = NoHandler
      /\ Sides # {}
  BY DEF Init, Sides
<1>2. NoHandler.pc = "none" /\ NoHandler.up = <<>>
  BY DEF NoHandler
<1>3. HalfAnswered
  BY <1>1 DEF HalfAnswered
<1>4. UpsInRange
  BY <1>1, <1>2 DEF UpsInRange
<1>5. \A s \in Sides : Acked(s)
  BY <1>1, <1>2 DEF Acked
<1>6. \A s \in Sides : Asked(s)
  BY <1>1, ClosedFields DEF Asked, Joined, NoSocket, Sockets
<1> QED
  BY <1>3, <1>4, <1>5, <1>6 DEF AskedInv

\* A step of handlers and screens that sends and stores nothing.
LEMMA SilentAsked ==
  ASSUME AskedInv, RowStays, handler' \in [Sides -> [Sockets -> Desk]],
         \A p \in Sides, d \in Sockets :
           /\ handler[p][d].pc \in {"own", "others"} =>
                handler'[p][d].pc = handler[p][d].pc /\ handler'[p][d].res = handler[p][d].res
           /\ handler'[p][d].pc = "ack" =>
                handler[p][d].pc = "ack" /\ handler'[p][d].res = handler[p][d].res
           /\ handler'[p][d].up \in {handler[p][d].up, <<>>},
         \A p \in Sides :
           \/ ~Joined(p)'
           \/ Asked(p)'
           \/ /\ stale[p] => stale'[p]
              /\ Joined(p) /\ client'[p].conn = client[p].conn
              /\ client'[p].phase \in InDuel => client[p].phase \in InDuel /\ Seen(p)' = Seen(p)
              /\ client'[p].phase = "waiting" =>
                   client[p].phase = "waiting" /\ client'[p].idx = client[p].idx
              /\ handler'[p][client[p].conn].up = handler[p][client[p].conn].up
  PROVE  AskedInv'
<1>1. \A s \in Sides : \A i : Pending(s, i) => Pending(s, i)'
  BY PendingStays
<1>2. HalfAnswered'
  BY DEF AskedInv, HalfAnswered, RowStays
<1>3. UpsInRange'
  BY DEF AskedInv, UpsInRange
<1>4. ASSUME NEW p \in Sides PROVE Acked(p)'
  BY AckedStays DEF AskedInv, RowStays
<1>5. ASSUME NEW p \in Sides PROVE Asked(p)'
  <2>1. CASE ~Joined(p)'
    BY <2>1, NotJoinedAsked
  <2>2. CASE /\ stale[p] => stale'[p]
             /\ Joined(p) /\ client'[p].conn = client[p].conn
             /\ client'[p].phase \in InDuel => client[p].phase \in InDuel /\ Seen(p)' = Seen(p)
             /\ client'[p].phase = "waiting" =>
                  client[p].phase = "waiting" /\ client'[p].idx = client[p].idx
             /\ handler'[p][client[p].conn].up = handler[p][client[p].conn].up
    <3>1. \A i : Answering(p, i) => Answering(p, i)'
      BY <2>2, AnsweringStays DEF RowStays
    <3>2. Asked(p) /\ UNCHANGED <<duel, accepts>>
      BY DEF AskedInv, RowStays
    <3> QED
      BY <1>1, <2>2, <3>1, <3>2, AskedStays
  <2> QED
    BY <2>1, <2>2
<1> QED
  BY <1>2, <1>3, <1>4, <1>5 DEF AskedInv

LEMMA OpenAsked ==
  ASSUME LiveInv, SidesInv, PlaceInv, AskedInv, NEW s \in Sides, Open(s)
  PROVE  AskedInv'
<1>1. PICK o : o = Other(s)
  OBVIOUS
<1>2. /\ o \in Sides /\ o # s /\ (\A p \in Sides : p = s \/ p = o)
      /\ PlaceSide(s) /\ handler \in [Sides -> [Sockets -> Desk]]
  BY <1>1, TwoSides DEF PlaceInv, SidesInv, SocketsTyped
<1>3. /\ RowStays /\ SameScreen(o) /\ client[s].phase = "closed"
      /\ \/ \E c \in Sockets :
              /\ OnlyDesk(s, c) /\ handler[s][c].pc = "none"
              /\ handler'[s][c].pc = "read" /\ handler'[s][c].up = <<>>
              /\ client'[s].phase = "connecting" /\ client'[s].conn = c
         \/ /\ handler' = handler
            /\ client'[s].phase = "error" /\ client'[s].conn = client[s].conn
  BY <1>1, OpenEffect DEF SidesInv
<1>4. ~Joined(s)'
  BY <1>2, <1>3 DEF Joined, PlaceSide, Placed, NoSocket, Sockets
<1>5. /\ handler' \in [Sides -> [Sockets -> Desk]]
      /\ \A d \in Sockets : handler'[o][d] = handler[o][d]
      /\ \A d \in Sockets : \/ handler'[s][d] = handler[s][d]
                            \/ /\ handler[s][d].pc = "none" /\ handler'[s][d].pc = "read"
                               /\ handler'[s][d].up = <<>>
  BY <1>2, <1>3 DEF OnlyDesk
<1>6. /\ stale'[o] = stale[o] /\ client'[o] = client[o]
      /\ Joined(o)' => Joined(o) /\ handler'[o][client[o].conn] = handler[o][client[o].conn]
  BY <1>3, <1>5 DEF SameScreen, Joined
<1>7. Seen(o)' = Seen(o)
  BY <1>6 DEF Seen
<1>8. \A p \in Sides, d \in Sockets :
        /\ handler[p][d].pc \in {"own", "others"} =>
             handler'[p][d].pc = handler[p][d].pc /\ handler'[p][d].res = handler[p][d].res
        /\ handler'[p][d].pc = "ack" =>
             handler[p][d].pc = "ack" /\ handler'[p][d].res = handler[p][d].res
        /\ handler'[p][d].up \in {handler[p][d].up, <<>>}
  BY <1>2, <1>5
<1> QED
  BY <1>2, <1>3, <1>4, <1>5, <1>6, <1>7, <1>8, SilentAsked, ZenonT(60)

LEMMA JoinAsked ==
  ASSUME LiveInv, SidesInv, PlaceInv, AskedInv, NEW s \in Sides, NEW c \in Sockets, Join(s, c),
         PlaceInv'
  PROVE  AskedInv'
<1>1. PICK o : o = Other(s)
  OBVIOUS
<1>2. /\ o \in Sides /\ o # s /\ (\A p \in Sides : p = s \/ p = o) /\ Other(o) = s
      /\ PlaceSide(s) /\ PlaceSide(o) /\ client[s] \in View /\ SocketsTyped
      /\ duel.round \in Nat
  BY <1>1, TwoSides DEF PlaceInv, SidesInv, SocketsTyped, LiveInv, TablesTyped
<1>3. /\ RowStays /\ handler[s][c].pc = "read" /\ OnlyDesk(s, c)
      /\ handler'[s][c].pc \in {"serving", "none"}
      /\ stale'[o] = stale[o]
      /\ (client[s].conn = c) =>
           /\ client'[s].idx = handler[s][c].snap.round
           /\ client'[s].phase \in {"done", "playing", "lobby"}
           /\ stale'[s] = (handler[s][c].snap # duel)
      /\ (client[s].conn # c) =>
           /\ stale'[s] = stale[s]
           /\ client'[s] = IF room[s] # c /\ Reaches(s) THEN Lost(s) ELSE client[s]
      /\ \/ client'[o] = client[o]
         \/ /\ client[o].phase = "lobby" /\ client'[o].phase = "playing"
            /\ client'[o].conn = client[o].conn /\ client'[o].idx = client[o].idx
  BY <1>1, JoinEffect
<1>0. handler'[s][c].up \in {handler[s][c].up, <<>>}
  <2>1. CASE Becomes(s, c, [handler[s][c] EXCEPT !.pc = "serving", !.snap = <<>>])
    <3> DEFINE h == [handler[s][c] EXCEPT !.pc = "serving", !.snap = <<>>]
    <3>1. handler[s][c] \in Desk /\ "serving" \in Steps /\ <<>> \in Row \cup {<<>>}
      BY <1>2 DEF SocketsTyped, Steps
    <3>2. h \in Desk /\ h.up = handler[s][c].up
      BY <3>1, Zenon DEF Desk
    <3>3. Becomes(s, c, h)
      BY <2>1
    <3> HIDE DEF h
    <3> QED
      BY <1>2, <3>2, <3>3, BecomesEffect
  <2>2. CASE Becomes(s, c, NoHandler)
    <3>1. NoHandler \in Desk /\ NoHandler.up = <<>>
      BY DEF NoHandler, Desk, Steps
    <3> QED
      BY <1>2, <2>2, <3>1, BecomesEffect
  <2> QED
    BY <2>1, <2>2 DEF Join
<1>4. CASE client[s].conn = c
  <2>1. Asked(s)'
    <3> SUFFICES ASSUME ~stale'[s]
                 PROVE  /\ ~(Seen(s)' < duel'.round)
                        /\ client'[s].phase # "waiting"
      BY DEF Asked
    <3>1. client'[s].idx = duel.round /\ client'[s].phase # "reveal"
      BY <1>3, <1>4
    <3> QED
      BY <1>2, <1>3, <1>4, <3>1 DEF Seen, RowStays
  <2> QED
    <3>1. \A p \in Sides, d \in Sockets :
            /\ handler[p][d].pc \in {"own", "others"} =>
                 handler'[p][d].pc = handler[p][d].pc /\ handler'[p][d].res = handler[p][d].res
            /\ handler'[p][d].pc = "ack" =>
                 handler[p][d].pc = "ack" /\ handler'[p][d].res = handler[p][d].res
            /\ handler'[p][d].up \in {handler[p][d].up, <<>>}
      BY <1>0, <1>3 DEF OnlyDesk
    <3>2. \/ ~Joined(o)'
          \/ /\ stale[o] => stale'[o]
             /\ Joined(o) /\ client'[o].conn = client[o].conn
             /\ client'[o].phase \in InDuel => client[o].phase \in InDuel /\ Seen(o)' = Seen(o)
             /\ client'[o].phase = "waiting" =>
                  client[o].phase = "waiting" /\ client'[o].idx = client[o].idx
             /\ handler'[o][client[o].conn].up = handler[o][client[o].conn].up
      BY <1>2, <1>3 DEF OnlyDesk, Joined, InDuel, Seen
    <3>3. handler' \in [Sides -> [Sockets -> Desk]]
      BY <1>3 DEF OnlyDesk
    <3> QED
      BY <1>2, <1>3, <2>1, <3>1, <3>2, <3>3, SilentAsked
<1>5. CASE client[s].conn # c
  <2>1. \A p \in Sides, d \in Sockets :
          /\ handler[p][d].pc \in {"own", "others"} =>
               handler'[p][d].pc = handler[p][d].pc /\ handler'[p][d].res = handler[p][d].res
          /\ handler'[p][d].pc = "ack" =>
               handler[p][d].pc = "ack" /\ handler'[p][d].res = handler[p][d].res
          /\ handler'[p][d].up \in {handler[p][d].up, <<>>}
    BY <1>0, <1>3 DEF OnlyDesk
  <2>2. \/ ~Joined(o)'
        \/ /\ stale[o] => stale'[o]
           /\ Joined(o) /\ client'[o].conn = client[o].conn
           /\ client'[o].phase \in InDuel => client[o].phase \in InDuel /\ Seen(o)' = Seen(o)
           /\ client'[o].phase = "waiting" =>
                client[o].phase = "waiting" /\ client'[o].idx = client[o].idx
           /\ handler'[o][client[o].conn].up = handler[o][client[o].conn].up
    BY <1>2, <1>3 DEF OnlyDesk, Joined, InDuel, Seen
  <2>3. \/ ~Joined(s)'
        \/ /\ stale[s] => stale'[s]
           /\ Joined(s) /\ client'[s].conn = client[s].conn
           /\ client'[s].phase \in InDuel => client[s].phase \in InDuel /\ Seen(s)' = Seen(s)
           /\ client'[s].phase = "waiting" =>
                client[s].phase = "waiting" /\ client'[s].idx = client[s].idx
           /\ handler'[s][client[s].conn].up = handler[s][client[s].conn].up
    <3>1. CASE client'[s] = client[s]
      BY <1>2, <1>3, <1>5, <3>1 DEF OnlyDesk, Joined, InDuel, Seen
    <3>2. CASE client'[s] = Lost(s)
      <4>1. client'[s].conn = NoSocket
        BY <1>2, <3>2, LostView
      <4> QED
        BY <4>1 DEF Joined, NoSocket, Sockets
    <3> QED
      BY <1>3, <1>5, <3>1, <3>2
  <2>4. handler' \in [Sides -> [Sockets -> Desk]]
    BY <1>3 DEF OnlyDesk
  <2> QED
    BY <1>2, <1>3, <2>1, <2>2, <2>3, <2>4, SilentAsked
<1> QED
  BY <1>4, <1>5

LEMMA SubmitAsked ==
  ASSUME LiveInv, SidesInv, PlaceInv, AskedInv, NEW s \in Sides, SubmitAnswer(s)
  PROVE  AskedInv'
<1>1. PICK c, o : c = client[s].conn /\ o = Other(s)
  OBVIOUS
<1>2. /\ o \in Sides /\ o # s /\ (\A p \in Sides : p = s \/ p = o)
      /\ client[s].phase = "playing" /\ Joined(s) /\ c \in Sockets /\ SocketsTyped
      /\ client[s].idx \in Nat /\ handler[s][c].up \in Seq(Nat)
      /\ NormalRounds \in Nat /\ SuddenDeath \in Nat
  <2>1. client[s].phase = "playing"
    BY DEF SubmitAnswer
  <2>2. Joined(s) /\ c \in Sockets /\ SocketsTyped
    BY <1>1, <2>1 DEF PlaceInv, PlaceSide, Placed, InDuel, Joined, SidesInv
  <2>3. client[s].idx \in Nat /\ handler[s][c].up \in Seq(Nat)
    BY <2>2, SMTT(40) DEF SocketsTyped, View, Desk
  <2> QED
    BY <1>1, <2>1, <2>2, <2>3, TwoSides, LiveDuelAssumption DEF LiveDuelAssumption
<1>3. /\ RowStays /\ UNCHANGED <<room, stale>> /\ OnlyDesk(s, c)
      /\ client[s].idx < Total
      /\ handler'[s][c].pc = handler[s][c].pc /\ handler'[s][c].res = handler[s][c].res
      /\ handler'[s][c].up = Append(handler[s][c].up, client[s].idx)
      /\ client'[s].phase = "waiting" /\ client'[s].conn = c
      /\ client'[s].idx = client[s].idx /\ client'[o] = client[o]
  BY <1>1, <1>2, SubmitEffect, ZenonT(60)
<1>4. PICK up, i : up = handler[s][c].up /\ i = client[s].idx
  OBVIOUS
<1>5. /\ up \in Seq(Nat) /\ i \in 0..Total - 1 /\ handler'[s][c].up = Append(up, i)
  BY <1>2, <1>3, <1>4 DEF Total
<1>6. /\ \A k \in DOMAIN Append(up, i) :
           Append(up, i)[k] = i \/ (k \in DOMAIN up /\ Append(up, i)[k] = up[k])
      /\ \A k \in DOMAIN up : k \in DOMAIN Append(up, i) /\ Append(up, i)[k] = up[k]
      /\ \E k \in DOMAIN Append(up, i) : Append(up, i)[k] = i
  <2>1. /\ DOMAIN Append(up, i) = 1..Len(up) + 1 /\ DOMAIN up = 1..Len(up) /\ Len(up) \in Nat
        /\ Append(up, i)[Len(up) + 1] = i
        /\ \A k \in 1..Len(up) : Append(up, i)[k] = up[k]
    BY <1>5
  <2> HIDE <1>5
  <2>2. PICK w : w = Append(up, i)
    OBVIOUS
  <2>3. \E k \in DOMAIN w : w[k] = i
    BY <2>1, <2>2
  <2> QED
    BY <2>1, <2>2, <2>3
<1>7. /\ \A p \in Sides, d \in Sockets :
           /\ handler'[p][d].pc = handler[p][d].pc /\ handler'[p][d].res = handler[p][d].res
      /\ \A d \in Sockets : handler'[o][d] = handler[o][d]
  BY <1>2, <1>3 DEF OnlyDesk
<1>8. HalfAnswered'
  BY <1>3 DEF AskedInv, HalfAnswered, RowStays
<1>9. UpsInRange'
  <2>1. \A k \in DOMAIN up : up[k] \in 0..Total - 1
    BY <1>2, <1>4 DEF AskedInv, UpsInRange
  <2>2. \A k \in DOMAIN handler'[s][c].up : handler'[s][c].up[k] \in 0..Total - 1
    BY <1>5, <1>6, <2>1
  <2> QED
    BY <1>3, <2>2, ZenonT(60) DEF AskedInv, UpsInRange, OnlyDesk
<1>10. ASSUME NEW p \in Sides PROVE Acked(p)'
  BY <1>3, <1>7, AckedStays DEF AskedInv, RowStays
<1>11. \A p \in Sides : \A j : Pending(p, j) => Pending(p, j)'
  BY <1>7, PendingStays
<1>12. Asked(o)'
  <2>1. Asked(o) /\ UNCHANGED <<duel, accepts>> /\ client'[o] = client[o] /\ stale'[o] = stale[o]
    BY <1>2, <1>3 DEF AskedInv, RowStays
  <2>2. Joined(o)' => Joined(o)
    BY <1>7, <2>1 DEF Joined
  <2>3. CASE Joined(o)
    <3>1. \A j : Answering(o, j) => Answering(o, j)'
      <4>1. client'[o].conn = client[o].conn /\ client[o].conn \in Sockets
        BY <2>1, <2>3 DEF Joined
      <4>2. handler'[o][client[o].conn].up = handler[o][client[o].conn].up
        BY <1>7, <4>1
      <4> QED
        BY <1>3, <4>1, <4>2, AnsweringStays DEF RowStays
    <3>2. Seen(o)' = Seen(o)
      BY <2>1 DEF Seen
    <3> QED
      BY <1>2, <1>11, <2>1, <2>2, <3>1, <3>2, AskedStays
  <2> QED
    BY <1>2, <2>2, <2>3, NotJoinedAsked
<1>13. Asked(s)'
  <2> SUFFICES ASSUME Playing', ~stale'[s], Joined(s)'
               PROVE  /\ Seen(s)' < duel'.round => Pending(s, Seen(s))'
                      /\ Answering(s, client[s].idx)'
    BY DEF Asked
  <2>1. Seen(s)' = i /\ Seen(s) = i /\ client'[s].idx = i /\ client'[s].conn = c
    BY <1>2, <1>3, <1>4 DEF Seen
  <2>2. Answering(s, i)'
    BY <1>5, <1>6, <2>1 DEF Answering
  <2>3. i < duel.round => Pending(s, i)
    BY <1>2, <1>3, <2>1 DEF AskedInv, Asked, Playing, RowStays, InDuel
  <2>4. i < duel.round => Pending(s, i)'
    BY <1>11, <2>3
  <2> QED
    BY <1>3, <2>1, <2>2, <2>4 DEF RowStays, Answering, Pending
<1> QED
  BY <1>2, <1>8, <1>9, <1>10, <1>12, <1>13 DEF AskedInv

LEMMA ServeAsked ==
  ASSUME LiveInv, LiveInv', SidesInv, RowTrue, PlaceInv, AskedInv, NEW s \in Sides,
         NEW c \in Sockets, Serve(s, c)
  PROVE  AskedInv'
<1>1. PICK o, i, up : o = Other(s) /\ i = Head(up) /\ up = handler[s][c].up
  OBVIOUS
<1>2. /\ o \in Sides /\ o # s /\ (\A p \in Sides : p = s \/ p = o) /\ SocketsTyped
      /\ up \in Seq(Nat) /\ Len(rounds) \in Nat /\ duel.round = Len(rounds) /\ duel.round \in Nat
      /\ \A p \in Sides : client[p].idx \in Nat /\ client[p].idx <= Len(rounds)
      /\ \A p \in Sides : Seen(p) \in Int
  <2>1. SocketsTyped /\ Len(rounds) \in Nat /\ duel.round = Len(rounds)
    BY DEF SidesInv, LiveInv, TablesTyped, RoundsAgree
  <2>2. up \in Seq(Nat)
    BY <1>1, <2>1 DEF SocketsTyped, Desk
  <2>3. ASSUME NEW p \in Sides
        PROVE  client[p].idx \in Nat /\ client[p].idx <= Len(rounds) /\ Seen(p) \in Int
    <3>1. client[p] \in View /\ ViewTrue(p)
      BY <2>1 DEF SocketsTyped, SidesInv, SideInv
    <3>2. client[p].idx \in Nat /\ client[p].reveal \in Int
      BY <3>1 DEF View
    <3> QED
      BY <3>1, <3>2 DEF ViewTrue, Seen
  <2> QED
    BY <1>1, <2>1, <2>2, <2>3, TwoSides
<1>3. /\ UNCHANGED <<accepts, room, client, stale>> /\ OnlyDesk(s, c)
      /\ handler[s][c].pc = "serving" /\ up # <<>> /\ i \in Nat
      /\ handler'[s][c].up = Tail(up)
      /\ \/ ~Accepts(i) /\ RowStays /\ handler'[s][c].pc = "serving"
         \/ /\ Accepts(i) /\ AwaitsOther(s, i)
            /\ handler'[s][c].pc = "ack" /\ handler'[s][c].res.idx = i
         \/ /\ Accepts(i)
            /\ \E outcome \in Outcomes, winner \in Sides \cup {"none"} :
                 Resolves(s, i, outcome, winner)
            /\ handler'[s][c].pc = "own" /\ handler'[s][c].res.idx = i
  BY <1>1, <1>2, ServeEffect
<1>4. /\ \A k \in DOMAIN up : up[k] = i \/ \E l \in DOMAIN Tail(up) : Tail(up)[l] = up[k]
      /\ \A l \in DOMAIN Tail(up) : \E k \in DOMAIN up : Tail(up)[l] = up[k]
      /\ \E k \in DOMAIN up : up[k] = i
  <2>1. /\ Len(up) \in Nat /\ Len(up) > 0 /\ DOMAIN up = 1..Len(up) /\ i = up[1]
        /\ Tail(up) \in Seq(Nat) /\ Len(Tail(up)) = Len(up) - 1
        /\ DOMAIN Tail(up) = 1..Len(up) - 1
    <3>1. up \in Seq(Nat) /\ up # <<>> /\ i = Head(up)
      BY <1>1, <1>2, <1>3
    <3>2. Len(up) \in Nat /\ Len(up) > 0 /\ DOMAIN up = 1..Len(up) /\ i = up[1]
      BY <3>1
    <3>3. Tail(up) \in Seq(Nat) /\ Len(Tail(up)) = Len(up) - 1
      BY <3>1
    <3> QED
      BY <3>2, <3>3
  <2>2. \A l \in 1..Len(up) - 1 : Tail(up)[l] = up[l + 1]
    BY <1>2, <1>3
  <2>3. PICK w : w = Tail(up)
    OBVIOUS
  <2>4. ASSUME NEW k \in DOMAIN up, k # 1 PROVE \E l \in DOMAIN w : w[l] = up[k]
    <3>1. k - 1 \in 1..Len(up) - 1 /\ (k - 1) + 1 = k
      BY <2>1, <2>4
    <3> QED
      BY <2>1, <2>2, <2>3, <3>1
  <2>5. ASSUME NEW l \in DOMAIN w PROVE \E k \in DOMAIN up : w[l] = up[k]
    <3>1. l + 1 \in 1..Len(up)
      BY <2>1, <2>3
    <3> QED
      BY <2>1, <2>2, <2>3, <3>1
  <2>6. 1 \in DOMAIN up
    BY <2>1
  <2> QED
    BY <2>1, <2>3, <2>4, <2>5, <2>6
<1>5. UpsInRange'
  <2>1. \A k \in DOMAIN up : up[k] \in 0..Total - 1
    BY <1>1 DEF AskedInv, UpsInRange
  <2>2. \A k \in DOMAIN handler'[s][c].up : handler'[s][c].up[k] \in 0..Total - 1
    BY <1>3, <1>4, <2>1
  <2> QED
    BY <1>3, <2>2, ZenonT(60) DEF AskedInv, UpsInRange, OnlyDesk
<1>6. i < Total
  <2>1. \E k \in DOMAIN up : up[k] = i
    BY <1>4
  <2>2. i \in 0..Total - 1
    BY <1>1, <2>1 DEF AskedInv, UpsInRange
  <2>3. Total \in Int
    BY LiveDuelAssumption DEF LiveDuelAssumption, Total
  <2> QED
    BY <1>3, <2>2, <2>3
<1>7. /\ \A p \in Sides : (Joined(p)' <=> Joined(p)) /\ Seen(p)' = Seen(p)
      /\ \A p \in Sides, d \in Sockets : handler[p][d].pc \in {"own", "others"} =>
           handler'[p][d].pc = handler[p][d].pc /\ handler'[p][d].res = handler[p][d].res
      /\ \A d \in Sockets : handler'[o][d] = handler[o][d]
  <2>1. handler'[s][c].pc \in {"serving", "ack", "own"}
    BY <1>3
  <2> QED
    BY <1>2, <1>3, <2>1 DEF OnlyDesk, Joined, Seen
<1>8. \A p \in Sides : \A j : Pending(p, j) => Pending(p, j)'
  BY <1>7, PendingStays
<1>9. answered' \in {answered, answered \cup {<<i, s>>}}
  BY <1>3 DEF RowStays, AwaitsOther, Resolves
<1>10. ASSUME NEW p \in Sides, NEW j, Answering(p, j), Joined(p),
              <<i, s>> \in answered' \/ (p = s /\ j = i => FALSE)
       PROVE  Answering(p, j)'
  <2>1. CASE <<j, p>> \in answered
    BY <1>9, <2>1 DEF Answering
  <2>2. CASE p # s \/ client[p].conn # c
    <3>1. handler'[p][client[p].conn] = handler[p][client[p].conn]
      BY <1>3, <1>10, <2>2 DEF OnlyDesk, Joined
    <3> QED
      BY <1>3, <1>9, <1>10, <3>1 DEF Answering
  <2>3. CASE p = s /\ client[p].conn = c /\ <<j, p>> \notin answered
    <3>1. PICK k \in DOMAIN up : up[k] = j
      BY <1>1, <1>10, <2>3 DEF Answering
    <3>2. CASE j = i
      BY <1>10, <2>3, <3>2 DEF Answering
    <3>3. CASE j # i
      <4>1. \E l \in DOMAIN Tail(up) : Tail(up)[l] = j
        BY <1>4, <3>1, <3>3
      <4> QED
        BY <1>3, <2>3, <4>1 DEF Answering
    <3> QED
      BY <3>2, <3>3
  <2> QED
    BY <2>1, <2>2, <2>3
<1>11. ASSUME NEW p \in Sides PROVE Acked(p)'
  <2>1. ASSUME NEW d \in Sockets, handler'[p][d].pc = "ack", p # s \/ d # c
        PROVE  <<handler'[p][d].res.idx, p>> \in answered'
    BY <1>3, <1>9, <2>1 DEF OnlyDesk, AskedInv, Acked
  <2>2. handler'[s][c].pc = "ack" => <<handler'[s][c].res.idx, s>> \in answered'
    BY <1>3 DEF AwaitsOther
  <2> QED
    BY <2>1, <2>2 DEF Acked
<1>12. CASE ~Accepts(i) /\ RowStays
  <2>1. HalfAnswered'
    BY <1>12 DEF AskedInv, HalfAnswered, RowStays
  <2>2. ASSUME NEW p \in Sides PROVE Asked(p)'
    <3> SUFFICES ASSUME Playing', ~stale'[p], Joined(p)'
                 PROVE  /\ client'[p].phase \in InDuel /\ Seen(p)' < duel'.round =>
                             Pending(p, Seen(p))'
                        /\ client'[p].phase = "waiting" /\ client'[p].idx = duel'.round =>
                             Answering(p, client[p].idx)'
      BY DEF Asked
    <3>1. Playing /\ ~stale[p] /\ Joined(p) /\ duel' = duel /\ Asked(p)
      BY <1>3, <1>7, <1>12 DEF Playing, RowStays, AskedInv
    <3>2. PICK n, j : n = Seen(p) /\ j = client[p].idx
      OBVIOUS
    <3>3. client[p].phase \in InDuel /\ n < duel.round => Pending(p, n)'
      BY <1>8, <3>1, <3>2 DEF Asked
    <3>4. client[p].phase = "waiting" /\ j = duel.round => Answering(p, j)'
      <4> SUFFICES ASSUME client[p].phase = "waiting", j = duel.round PROVE Answering(p, j)'
        OBVIOUS
      <4>1. j # i
        BY <1>6, <1>12, <3>1 DEF Accepts, Playing
      <4>2. Answering(p, j)
        BY <3>1, <3>2 DEF Asked
      <4> QED
        BY <1>10, <3>1, <4>1, <4>2
    <3>5. client' = client /\ Seen(p)' = n
      BY <1>3, <1>7, <3>2
    <3> QED
      BY <3>1, <3>2, <3>3, <3>4, <3>5 DEF Pending, Answering
  <2> QED
    BY <1>5, <1>11, <2>1, <2>2 DEF AskedInv
<1>13. CASE Accepts(i) /\ AwaitsOther(s, i)
  <2>1. /\ UNCHANGED <<duel, accepts>> /\ <<i, o>> \notin answered /\ i = duel.round
        /\ answered' = answered \cup {<<i, s>>}
    BY <1>1, <1>3, <1>13 DEF AwaitsOther, Accepts
  <2>2. HalfAnswered'
    BY <1>2, <2>1 DEF HalfAnswered
  <2>3. ASSUME NEW p \in Sides PROVE Asked(p)'
    <3>1. CASE Joined(p)
      <4>1. \A j : Answering(p, j) => Answering(p, j)'
        BY <1>10, <2>1, <3>1
      <4>2. /\ Asked(p) /\ stale'[p] = stale[p] /\ client'[p] = client[p]
            /\ Joined(p)' => Joined(p)
        BY <1>3, <1>7 DEF AskedInv
      <4> QED
        BY <1>7, <1>8, <2>1, <4>1, <4>2, AskedStays
    <3>2. CASE ~Joined(p)
      BY <1>7, <3>2, NotJoinedAsked
    <3> QED
      BY <3>1, <3>2
  <2> QED
    BY <1>5, <1>11, <2>2, <2>3 DEF AskedInv
<1>14. ASSUME Accepts(i), NEW outcome \in Outcomes, NEW winner \in Sides \cup {"none"},
              Resolves(s, i, outcome, winner),
              handler'[s][c].pc = "own", handler'[s][c].res.idx = i
       PROVE  AskedInv'
  <2>1. /\ duel.status = "active" /\ i = duel.round /\ duel'.round = i + 1
        /\ answered' = answered \cup {<<i, s>>}
    BY <1>14 DEF Accepts, Resolves
  <2>2. HalfAnswered'
    <3>1. <<i + 1, s>> \notin answered
      <4>1. i + 1 \in Nat /\ ~(i + 1 <= Len(rounds))
        BY <1>2, <1>3, <2>1
      <4> QED
        BY <4>1 DEF RowTrue
    <3>2. i + 1 # i
      BY <1>3
    <3>3. <<i + 1, s>> # <<i, s>>
      BY <3>2
    <3> QED
      BY <2>1, <3>1, <3>3 DEF HalfAnswered
  <2>3. ASSUME NEW p \in Sides PROVE Pending(p, i)'
    <3>1. CASE p = s
      BY <1>14, <3>1 DEF Pending
    <3>2. CASE p # s
      <4>1. Other(p) = s
        BY <3>2, TwoSides
      <4>2. handler'[Other(p)][c].pc \in {"own", "others"} /\ handler'[Other(p)][c].res.idx = i
        BY <1>14, <4>1
      <4> QED
        BY <4>2 DEF Pending
    <3> QED
      BY <3>1, <3>2
  <2>4. ASSUME NEW p \in Sides PROVE Asked(p)'
    <3> SUFFICES ASSUME Playing', ~stale'[p], Joined(p)'
                 PROVE  /\ client'[p].phase \in InDuel /\ Seen(p)' < duel'.round =>
                             Pending(p, Seen(p))'
                        /\ client'[p].idx # duel'.round
      BY DEF Asked
    <3>1. Playing /\ ~stale[p] /\ Joined(p) /\ Asked(p) /\ client' = client
      BY <1>3, <1>7, <2>1 DEF Playing, AskedInv
    <3>2. PICK n : n = Seen(p)
      OBVIOUS
    <3>3. client[p].phase \in InDuel /\ n < i + 1 => Pending(p, n)'
      <4>1. n \in Int
        BY <1>2, <3>2
      <4>2. CASE n = i
        BY <2>3, <4>2
      <4>3. CASE n < i
        BY <1>8, <2>1, <3>1, <3>2, <4>3 DEF Asked
      <4> QED
        BY <1>3, <4>1, <4>2, <4>3
    <3>4. client'[p].idx # duel'.round
      BY <1>2, <1>3, <2>1, <3>1
    <3>5. Seen(p)' = n
      BY <1>7, <3>2
    <3> QED
      BY <2>1, <3>1, <3>3, <3>4, <3>5 DEF Pending
  <2> QED
    BY <1>5, <1>11, <2>2, <2>4 DEF AskedInv
<1> QED
  BY <1>3, <1>12, <1>13, <1>14

LEMMA AckAsked ==
  ASSUME LiveInv, SidesInv, PlaceInv, AskedInv, NEW s \in Sides, NEW c \in Sockets,
         SendAck(s, c)
  PROVE  AskedInv'
<1>1. PICK o : o = Other(s)
  OBVIOUS
<1>2. /\ o \in Sides /\ o # s /\ (\A p \in Sides : p = s \/ p = o) /\ SocketsTyped
      /\ duel.round = Len(rounds) /\ duel.round \in Nat /\ client[s].idx \in Nat
      /\ client[s].idx <= Len(rounds)
  BY <1>1, TwoSides
  DEF SidesInv, SideInv, SocketsTyped, View, ViewTrue, LiveInv, TablesTyped, RoundsAgree
<1>3. /\ RowStays /\ OnlyDesk(s, c)
      /\ handler[s][c].pc = "ack" /\ handler'[s][c].pc = "serving"
      /\ handler'[s][c].up = handler[s][c].up /\ SameScreen(o)
      /\ client[s].conn # c => SameScreen(s)
      /\ (client[s].conn = c) =>
           /\ client'[s].phase = "waiting" /\ client'[s].conn = c
           /\ client'[s].idx = client[s].idx
           /\ ~stale'[s] => ~stale[s] /\ handler[s][c].res.idx = duel.round
  BY <1>1, <1>2, AckEffect
<1>4. \A p \in Sides, d \in Sockets :
        /\ handler[p][d].pc \in {"own", "others"} =>
             handler'[p][d].pc = handler[p][d].pc /\ handler'[p][d].res = handler[p][d].res
        /\ handler'[p][d].pc = "ack" =>
             handler[p][d].pc = "ack" /\ handler'[p][d].res = handler[p][d].res
        /\ handler'[p][d].up \in {handler[p][d].up, <<>>}
        /\ handler'[p][d].up = handler[p][d].up
  BY <1>3 DEF OnlyDesk
<1>5. ASSUME NEW p \in Sides, SameScreen(p)
      PROVE  \/ ~Joined(p)'
             \/ /\ stale[p] => stale'[p]
                /\ Joined(p) /\ client'[p].conn = client[p].conn
                /\ client'[p].phase \in InDuel => client[p].phase \in InDuel /\ Seen(p)' = Seen(p)
                /\ client'[p].phase = "waiting" =>
                     client[p].phase = "waiting" /\ client'[p].idx = client[p].idx
                /\ handler'[p][client[p].conn].up = handler[p][client[p].conn].up
  <2>1. Joined(p)' => Joined(p)
    BY <1>3, <1>5 DEF Joined, SameScreen, OnlyDesk
  <2>2. Joined(p) => handler'[p][client[p].conn].up = handler[p][client[p].conn].up
    BY <1>4 DEF Joined
  <2>3. stale'[p] = stale[p] /\ client'[p] = client[p] /\ Seen(p)' = Seen(p)
    BY <1>5 DEF SameScreen, Seen
  <2> QED
    BY <2>1, <2>2, <2>3
<1>6. SameScreen(s) \/ Asked(s)'
  <2> SUFFICES ASSUME client[s].conn = c, Playing', ~stale'[s], Joined(s)'
               PROVE  /\ ~(Seen(s)' < duel'.round)
                      /\ Answering(s, client[s].idx)'
    BY <1>3 DEF Asked
  <2>1. /\ client'[s].phase = "waiting" /\ client'[s].idx = client[s].idx
        /\ ~stale[s] /\ handler[s][c].res.idx = duel.round /\ duel' = duel
        /\ answered' = answered
    BY <1>3 DEF RowStays
  <2>2. <<duel.round, s>> \in answered
    BY <1>3, <2>1 DEF AskedInv, Acked
  <2>3. Joined(s)
    BY <1>3 DEF Joined
  <2>4. duel.round <= client[s].idx
    BY <1>2, <2>1, <2>2, <2>3 DEF SidesInv, SideInv, Fresh, Ahead
  <2>5. client[s].idx = duel.round
    BY <1>2, <2>4
  <2>6. Seen(s)' = client[s].idx
    BY <2>1 DEF Seen
  <2> QED
    BY <1>2, <2>1, <2>2, <2>5, <2>6 DEF Answering
<1> QED
  <2>1. handler' \in [Sides -> [Sockets -> Desk]]
    BY <1>3 DEF OnlyDesk
  <2> QED
    BY <1>2, <1>3, <1>4, <1>5, <1>6, <2>1, SilentAsked

LEMMA SendAsked ==
  ASSUME LiveInv, SidesInv, PlaceInv, AskedInv, NEW s \in Sides, NEW c \in Sockets,
         NEW p, \/ SendOwn(s, c) /\ p = s
                \/ SendOthers(s, c) /\ p = Other(s)
  PROVE  AskedInv'
<1>1. PICK res, o : res = handler[s][c].res /\ o = Other(p)
  OBVIOUS
<1>2. /\ RowStays /\ UNCHANGED room /\ OnlyDesk(s, c) /\ p \in Sides
      /\ res \in Result /\ PostResult(res, p)
      /\ handler'[s][c].up = handler[s][c].up
      /\ \/ /\ handler[s][c].pc = "own" /\ p = s /\ handler'[s][c].pc = "others"
            /\ handler'[s][c].res = handler[s][c].res
         \/ /\ handler[s][c].pc = "others" /\ p = Other(s)
            /\ handler'[s][c].pc = "serving"
  BY <1>1, SendEffect
<1>3. /\ SameScreen(o)
      /\ ~Reaches(p) => SameScreen(p)
      /\ Reaches(p) =>
           /\ client'[p].phase = "reveal" /\ client'[p].reveal = res.idx
           /\ client'[p].conn = client[p].conn
           /\ ~stale'[p] => ~stale[p] /\ res.idx + 1 = duel.round
  BY <1>1, <1>2, PostEffect DEF SidesInv
<1>4. /\ o \in Sides /\ o # p /\ (\A q \in Sides : q = p \/ q = o)
      /\ Other(o) = p /\ (p = s \/ (p = Other(s) /\ o = s)) /\ duel.round \in Nat
  BY <1>1, <1>2, TwoSides DEF LiveInv, TablesTyped
<1>5. /\ \A q \in Sides, d \in Sockets : handler'[q][d].up = handler[q][d].up
      /\ \A q \in Sides, d \in Sockets : handler'[q][d].pc = "ack" =>
           handler[q][d].pc = "ack" /\ handler'[q][d].res = handler[q][d].res
  BY <1>2 DEF OnlyDesk
<1>6. HalfAnswered' /\ UpsInRange'
  <2>1. HalfAnswered'
    BY <1>2 DEF AskedInv, HalfAnswered, RowStays
  <2> QED
    BY <1>5, <2>1 DEF AskedInv, UpsInRange
<1>7. ASSUME NEW q \in Sides PROVE Acked(q)'
  BY <1>2, <1>5, AckedStays DEF AskedInv, RowStays
<1>8. ASSUME NEW q \in Sides PROVE Joined(q)' => client'[q].conn = client[q].conn /\ Joined(q)
  <2>1. client'[q].conn = client[q].conn
    BY <1>3, <1>4 DEF SameScreen
  <2> QED
    BY <1>2, <2>1 DEF OnlyDesk, Joined
<1>9. Asked(o)'
  <2>1. CASE Joined(o)'
    <3>1. /\ Asked(o) /\ stale'[o] = stale[o] /\ client'[o] = client[o]
          /\ UNCHANGED <<duel, accepts>> /\ Seen(o)' = Seen(o)
      BY <1>2, <1>3, <1>4 DEF AskedInv, SameScreen, RowStays, Seen
    <3>2. \A j : Answering(o, j) => Answering(o, j)'
      <4>1. client'[o].conn = client[o].conn /\ client[o].conn \in Sockets
        BY <1>4, <1>8, <2>1 DEF Joined
      <4>2. handler'[o][client[o].conn].up = handler[o][client[o].conn].up
        BY <1>4, <1>5, <4>1
      <4> QED
        BY <1>2, <4>1, <4>2, AnsweringStays DEF RowStays
    <3>3. ASSUME NEW j, Pending(o, j) PROVE Pending(o, j)'
      <4>1. PICK d \in Sockets :
              \/ handler[o][d].pc = "own" /\ handler[o][d].res.idx = j
              \/ handler[p][d].pc \in {"own", "others"} /\ handler[p][d].res.idx = j
        BY <1>4, <3>3 DEF Pending
      <4>2. CASE handler[o][d].pc = "own" /\ handler[o][d].res.idx = j
        <5>1. handler'[o][d] = handler[o][d]
          BY <1>2, <1>4, <4>2 DEF OnlyDesk
        <5> QED
          BY <4>2, <5>1 DEF Pending
      <4>3. CASE handler[p][d].pc \in {"own", "others"} /\ handler[p][d].res.idx = j
        <5>1. handler'[p][d].pc \in {"own", "others"} /\ handler'[p][d].res.idx = j
          <6>1. CASE p # s \/ d # c
            <7>1. handler'[p][d] = handler[p][d]
              BY <1>2, <6>1 DEF OnlyDesk
            <7> QED
              BY <4>3, <7>1
          <6>2. CASE p = s /\ d = c
            <7>1. handler'[s][c].pc = "others" /\ handler'[s][c].res = handler[s][c].res
              BY <1>2, <6>2, TwoSides
            <7> QED
              BY <4>3, <6>2, <7>1
          <6> QED
            BY <6>1, <6>2
        <5> QED
          BY <1>4, <5>1 DEF Pending
      <4> QED
        BY <4>1, <4>2, <4>3
    <3> QED
      BY <1>4, <1>8, <2>1, <3>1, <3>2, <3>3, AskedStays
  <2>2. CASE ~Joined(o)'
    BY <1>4, <2>2, NotJoinedAsked
  <2> QED
    BY <2>1, <2>2
<1>10. Asked(p)'
  <2>1. CASE Reaches(p)
    <3> SUFFICES ASSUME ~stale'[p]
                 PROVE  /\ ~(Seen(p)' < duel'.round) /\ client'[p].phase # "waiting"
      BY DEF Asked
    <3>1. /\ client'[p].phase = "reveal" /\ client'[p].reveal + 1 = duel.round
          /\ duel' = duel
      BY <1>2, <1>3, <2>1 DEF RowStays
    <3> QED
      BY <1>4, <3>1 DEF Seen
  <2>2. CASE ~Reaches(p)
    <3>1. ~Joined(p)
      BY <1>2, <2>2
      DEF PlaceInv, PlaceSide, Registered, Reaches, Joined, Sockets, NoSocket
    <3>2. ~Joined(p)'
      BY <1>2, <1>8, <3>1
    <3> QED
      BY <1>2, <3>2, NotJoinedAsked
  <2> QED
    BY <2>1, <2>2
<1> QED
  BY <1>4, <1>6, <1>7, <1>9, <1>10 DEF AskedInv

LEMMA DisconnectAsked ==
  ASSUME SidesInv, PlaceInv, AskedInv, NEW s \in Sides, NEW c \in Sockets, Disconnect(s, c)
  PROVE  AskedInv'
<1>1. /\ RowStays /\ UNCHANGED <<client, stale>> /\ OnlyDesk(s, c)
      /\ client[s].conn # c /\ handler[s][c].pc = "serving"
      /\ handler'[s][c].pc = "none" /\ handler'[s][c].up = <<>>
  BY DisconnectEffect DEF SidesInv
<1>2. \A p \in Sides, d \in Sockets :
        /\ handler[p][d].pc \in {"own", "others"} =>
             handler'[p][d].pc = handler[p][d].pc /\ handler'[p][d].res = handler[p][d].res
        /\ handler'[p][d].pc = "ack" =>
             handler[p][d].pc = "ack" /\ handler'[p][d].res = handler[p][d].res
        /\ handler'[p][d].up \in {handler[p][d].up, <<>>}
  BY <1>1 DEF OnlyDesk
<1>3. ASSUME NEW p \in Sides, Joined(p)'
      PROVE  /\ Joined(p) /\ Seen(p)' = Seen(p)
             /\ handler'[p][client[p].conn].up = handler[p][client[p].conn].up
  <2>1. client[p].conn \in Sockets /\ handler'[p][client[p].conn].pc # "none"
    BY <1>1, <1>3 DEF Joined
  <2>2. handler'[p][client[p].conn] = handler[p][client[p].conn]
    BY <1>1, <2>1 DEF OnlyDesk
  <2> QED
    BY <1>1, <1>3, <2>2 DEF Joined, Seen
<1>4. handler' \in [Sides -> [Sockets -> Desk]]
  BY <1>1 DEF OnlyDesk
<1> QED
  BY <1>1, <1>2, <1>3, <1>4, SilentAsked

LEMMA AdvanceAsked ==
  ASSUME SidesInv, PlaceInv, AskedInv, NEW s \in Sides, Advance(s)
  PROVE  AskedInv'
<1>1. PICK o : o = Other(s)
  OBVIOUS
<1>2. /\ o \in Sides /\ o # s /\ (\A p \in Sides : p = s \/ p = o) /\ SocketsTyped
      /\ client[s].reveal + 1 \in Nat
  BY <1>1, TwoSides DEF SidesInv, SideInv, ViewTrue
<1>3. /\ RowStays /\ UNCHANGED <<room, handler, stale>>
      /\ client'[o] = client[o] /\ client[s].phase = "reveal"
      /\ client'[s].conn = client[s].conn
      /\ \/ client'[s].phase = "done"
         \/ client'[s].phase = "playing" /\ client'[s].idx = client[s].reveal + 1
  BY <1>1, <1>2, AdvanceEffect
<1>4. /\ client'[s].phase \in InDuel => client[s].phase \in InDuel /\ Seen(s)' = Seen(s)
      /\ Seen(o)' = Seen(o) /\ client'[s].phase # "waiting"
  BY <1>3 DEF InDuel, Seen
<1>5. \A p \in Sides : (Joined(p)' => Joined(p)) /\ client'[p].conn = client[p].conn
  BY <1>2, <1>3 DEF Joined
<1>6. /\ handler' \in [Sides -> [Sockets -> Desk]]
      /\ \A p \in Sides, d \in Sockets :
           /\ handler[p][d].pc \in {"own", "others"} =>
                handler'[p][d].pc = handler[p][d].pc /\ handler'[p][d].res = handler[p][d].res
           /\ handler'[p][d].pc = "ack" =>
                handler[p][d].pc = "ack" /\ handler'[p][d].res = handler[p][d].res
           /\ handler'[p][d].up \in {handler[p][d].up, <<>>}
  BY <1>2, <1>3 DEF SocketsTyped
<1> QED
  BY <1>2, <1>3, <1>4, <1>5, <1>6, SilentAsked

LEMMA LeaveAsked ==
  ASSUME SidesInv, PlaceInv, AskedInv, NEW s \in Sides, GoBack(s) \/ WalkAway(s) \/ Drop(s)
  PROVE  AskedInv'
<1>1. PICK o : o = Other(s)
  OBVIOUS
<1>2. /\ o \in Sides /\ o # s /\ (\A p \in Sides : p = s \/ p = o) /\ SocketsTyped
  BY <1>1, TwoSides DEF SidesInv
<1>3. /\ RowStays /\ UNCHANGED <<room, stale>> /\ client'[o] = client[o]
      /\ client'[s].conn = NoSocket
      /\ handler' \in [Sides -> [Sockets -> Desk]]
      /\ \A p \in Sides, d \in Sockets :
           /\ handler'[p][d].pc = handler[p][d].pc
           /\ handler'[p][d].res = handler[p][d].res
           /\ handler'[p][d].up = handler[p][d].up \/ (p = s /\ handler'[p][d].up = <<>>)
  BY <1>1, <1>2, LeaveEffect
<1>4. ~Joined(s)'
  BY <1>3 DEF Joined, NoSocket, Sockets
<1>5. Joined(o)' => /\ Joined(o) /\ Seen(o)' = Seen(o)
                    /\ handler'[o][client[o].conn].up = handler[o][client[o].conn].up
  BY <1>2, <1>3 DEF Joined, Seen
<1> QED
  BY <1>2, <1>3, <1>4, <1>5, SilentAsked

LEMMA RestartAsked ==
  ASSUME SidesInv, PlaceInv, AskedInv, Restart
  PROVE  AskedInv'
<1>1. /\ client' = [s \in Sides |-> Lost(s)] /\ RowStays /\ SocketsTyped
      /\ handler' = [s \in Sides |-> [c \in Sockets |-> NoHandler]]
      /\ NoHandler.pc = "none" /\ NoHandler.up = <<>>
  BY DEF Restart, SidesInv, NoHandler, tables, RowStays
<1>2. ASSUME NEW s \in Sides PROVE ~Joined(s)'
  <2>1. client'[s].conn = NoSocket
    BY <1>1, LostView
  <2> QED
    BY <2>1 DEF Joined, NoSocket, Sockets
<1>3. HalfAnswered'
  BY <1>1 DEF AskedInv, HalfAnswered, RowStays
<1>4. UpsInRange' /\ \A s \in Sides : Acked(s)'
  BY <1>1 DEF UpsInRange, Acked
<1> QED
  BY <1>2, <1>3, <1>4, NotJoinedAsked DEF AskedInv

\* Steps of the challenge: what is asked of a duel in play was asked before.
LEMMA RowAsked ==
  ASSUME PlaceInv, AskedInv, LiveInv, UNCHANGED <<answered, room, handler, client, stale>>,
         duel'.round = duel.round,
         \/ duel'.status # "active"
         \/ duel'.status = duel.status /\ accepts' = accepts
         \/ accepts' = accepts + 1
  PROVE  AskedInv'
<1>1. HalfAnswered' /\ UpsInRange' /\ \A s \in Sides : Acked(s)'
  BY DEF AskedInv, HalfAnswered, UpsInRange, Acked
<1>2. ASSUME NEW s \in Sides PROVE Asked(s)'
  <2> SUFFICES ASSUME Playing', Joined(s)' PROVE Asked(s)'
    BY DEF Asked
  <2>1. Joined(s)
    BY DEF Joined
  <2>2. accepts # 0 /\ accepts \in Nat
    BY <2>1, Accepted DEF Joined, LiveInv, TablesTyped
  <2>3. duel'.status = duel.status /\ accepts' = accepts
    BY <2>2 DEF Playing
  <2> QED
    BY <2>3 DEF Asked, AskedInv, Playing, Seen, Pending, Answering, Joined
<1> QED
  BY <1>1, <1>2 DEF AskedInv

LEMMA AskedStep ==
  ASSUME LiveInv, LiveInv', SidesInv, RowTrue, PlaceInv, PlaceInv', AskedInv, [Next]_vars
  PROVE  AskedInv'
<1>1. ASSUME NEW r \in Reqs, WriteVerdict(r) PROVE AskedInv'
  <2>1. /\ UNCHANGED <<answered, room, handler, client, stale>> /\ duel'.round = duel.round
        /\ \/ duel'.status # "active"
           \/ accepts' = accepts + 1
    BY <1>1 DEF WriteVerdict, WithStatus
  <2> QED
    BY <2>1, RowAsked
<1>2. ASSUME NEW r \in Reqs, NEW verb, ReadPending(r, verb) PROVE AskedInv'
  BY <1>2, RowAsked DEF ReadPending, tables
<1>3. ASSUME Lapse \/ ScanExpired PROVE AskedInv'
  BY <1>3, RowAsked DEF Lapse, ScanExpired, tables
<1>4. ASSUME WriteExpired PROVE AskedInv'
  BY <1>4, RowAsked DEF WriteExpired, WithStatus
<1>5. ASSUME NEW s \in Sides, NEW c \in Sockets, Handle(s, c) \/ Disconnect(s, c) PROVE AskedInv'
  <2>1. CASE SendOwn(s, c) \/ SendOthers(s, c)
    BY <2>1, SendAsked
  <2> QED
    BY <1>5, <2>1, JoinAsked, ServeAsked, AckAsked, DisconnectAsked DEF Handle
<1>6. ASSUME NEW s \in Sides,
             \/ Open(s) \/ SubmitAnswer(s) \/ Advance(s)
             \/ GoBack(s) \/ WalkAway(s) \/ Drop(s)
      PROVE  AskedInv'
  BY <1>6, OpenAsked, SubmitAsked, AdvanceAsked, LeaveAsked
<1>7. ASSUME UNCHANGED vars PROVE AskedInv'
  BY <1>7, RowAsked DEF vars, tables, challenge
<1> QED
  BY <1>1, <1>2, <1>3, <1>4, <1>5, <1>6, <1>7, RestartAsked DEF Next

LEMMA PlaceAlways == Spec => []PlaceInv
<1>1. ScreenInv => SidesInv
  BY DEF ScreenInv, SidesInv
<1> QED
  BY <1>1, InitPlace, PlaceStep, LiveAlways, ScreensAlways, PTL DEF Spec

LEMMA AskedAlways == Spec => []AskedInv
<1>1. ScreenInv => SidesInv /\ RowTrue
  BY DEF ScreenInv, SidesInv
<1> QED
  BY <1>1, InitAsked, AskedStep, LiveAlways, ScreensAlways, PlaceAlways, PTL DEF Spec

\* A screen at which nothing is under way any more is not left behind: who is in the lobby
\* is alone there, and who waits has answered the duel's question while the other has not
\* (live_duel_ws sends every result to both, hub.join greets the one who waits).
THEOREM LiveNotLeftWaiting == Spec => []NotLeftWaiting
<1>1. LiveInv /\ ScreenInv /\ PlaceInv /\ AskedInv => NotLeftWaiting
  <2> SUFFICES ASSUME LiveInv, ScreenInv, PlaceInv, AskedInv, NEW s \in Sides,
                      Quiet(s), duel.status = "active", accepts = 1, ~stale[s]
               PROVE  /\ client[s].phase = "lobby" => room[Other(s)] = NoSocket
                      /\ client[s].phase = "waiting" =>
                           /\ client[s].idx = duel.round /\ <<client[s].idx, s>> \in answered
                           /\ <<client[s].idx, Other(s)>> \notin answered
    BY DEF NotLeftWaiting
  <2>1. client[s].phase = "lobby" => room[Other(s)] = NoSocket
    BY DEF PlaceInv, PlaceSide, Alone
  <2>2. ASSUME client[s].phase = "waiting"
        PROVE  /\ client[s].idx = duel.round /\ <<client[s].idx, s>> \in answered
               /\ <<client[s].idx, Other(s)>> \notin answered
    <3>1. Joined(s) /\ Asked(s) /\ Playing /\ client[s].phase \in InDuel
      BY <2>2 DEF PlaceInv, PlaceSide, Placed, AskedInv, Playing, InDuel
    <3>2. ~Pending(s, Seen(s))
      BY TwoSides DEF Quiet, Pending
    <3>3. ~(client[s].idx < duel.round)
      BY <2>2, <3>1, <3>2 DEF Asked, Seen
    <3>4. /\ client[s].idx \in Nat /\ client[s].idx <= Len(rounds)
          /\ duel.round = Len(rounds) /\ Len(rounds) \in Nat
      BY DEF ScreenInv, SocketsTyped, SideInv, ViewTrue, View, LiveInv, TablesTyped, RoundsAgree
    <3>5. client[s].idx = duel.round
      BY <3>3, <3>4
    <3>6. <<client[s].idx, s>> \in answered
      <4>1. Answering(s, client[s].idx)
        BY <2>2, <3>1, <3>5 DEF Asked
      <4>2. handler[s][client[s].conn].up = <<>>
        BY <3>1 DEF Quiet, Joined
      <4> QED
        BY <4>1, <4>2 DEF Answering
    <3>7. <<client[s].idx, Other(s)>> \notin answered
      BY <3>5, <3>6, TwoSides DEF AskedInv, HalfAnswered
    <3> QED
      BY <3>5, <3>6, <3>7
  <2> QED
    BY <2>1, <2>2
<1> QED
  BY <1>1, LiveAlways, ScreensAlways, PlaceAlways, AskedAlways, PTL

-------------------------------------------------------------------------------
(* The shape of the state: ChallengeInv, RoundsInv and RoomInv *)

Verbs == {"idle", "accept", "decline", "cancel"}

\* The requests that are about to accept.
Accepting == {r \in Reqs : req[r] = "accept"}

\* All of them read the challenge pending: while one may still accept it, no more of them
\* have accepted than there are requests.
ChallengeInv ==
  /\ deadline \in {"ahead", "passed", "selected"} /\ mishaps \in 0..MaxMishaps
  /\ req \in [Reqs -> Verbs]
  /\ duel.status = "pending" => accepts = 0
  /\ accepts + Cardinality(Accepting) <= Cardinality(Reqs)

\* There are no rounds beyond sudden death.
RoundsInv == Len(rounds) <= Total /\ answered \subseteq (0..Total - 1) \X Sides

LEMMA AcceptingFinite ==
  /\ IsFiniteSet(Accepting) /\ Cardinality(Accepting) \in Nat /\ Cardinality(Reqs) \in Nat
  /\ Cardinality(Accepting) <= Cardinality(Reqs)
<1>1. IsFiniteSet(Reqs) /\ Accepting \subseteq Reqs
  BY LiveDuelAssumption DEF LiveDuelAssumption, Accepting
<1> QED
  BY <1>1, FS_Subset, FS_CardinalityType

LEMMA InitChallenge == Init => ChallengeInv /\ RoundsInv
<1> SUFFICES ASSUME Init PROVE ChallengeInv /\ RoundsInv
  OBVIOUS
<1>1. req = [r \in Reqs |-> "idle"] /\ accepts = 0
  BY DEF Init
<1>2. Accepting = {}
  BY <1>1 DEF Accepting
<1>3. accepts + Cardinality(Accepting) <= Cardinality(Reqs)
  BY <1>1, <1>2, FS_EmptySet, AcceptingFinite
<1>4. ChallengeInv
  BY <1>1, <1>3, LiveDuelAssumption DEF Init, ChallengeInv, Verbs, LiveDuelAssumption
<1>5. RoundsInv
  <2>1. rounds = <<>> /\ answered = {} /\ Len(rounds) = 0
    BY DEF Init
  <2> QED
    BY <2>1, LiveDuelAssumption DEF RoundsInv, Total, LiveDuelAssumption
<1> QED
  BY <1>4, <1>5

\* The mishaps that are left.
LEMMA MishapTyped ==
  ASSUME mishaps \in 0..MaxMishaps, Mishap
  PROVE  mishaps' \in 0..MaxMishaps
BY LiveDuelAssumption DEF LiveDuelAssumption, Mishap

\* A step that leaves the challenge alone.
LEMMA ChallengeStays ==
  ASSUME ChallengeInv, UNCHANGED <<req, accepts>>, mishaps' = mishaps \/ Mishap,
         deadline' \in {"ahead", "passed", "selected"},
         duel'.status = "pending" => duel.status = "pending"
  PROVE  ChallengeInv'
<1>1. mishaps' \in 0..MaxMishaps
  BY MishapTyped DEF ChallengeInv
<1>2. Accepting' = Accepting
  BY DEF Accepting
<1> QED
  BY <1>1, <1>2 DEF ChallengeInv

LEMMA ReadKeeps ==
  ASSUME LiveInv, ChallengeInv, NEW r \in Reqs, NEW verb \in {"accept", "decline", "cancel"},
         ReadPending(r, verb)
  PROVE  ChallengeInv'
<1>1. /\ duel.status = "pending" /\ UNCHANGED <<duel, accepts, deadline>> /\ accepts = 0
      /\ req' = [req EXCEPT ![r] = verb] /\ (mishaps' = mishaps \/ Mishap)
  BY DEF ReadPending, tables, ChallengeInv
<1>2. req' \in [Reqs -> Verbs] /\ mishaps' \in 0..MaxMishaps
  <2>1. mishaps' \in 0..MaxMishaps
    BY <1>1, MishapTyped DEF ChallengeInv
  <2>2. req' \in [Reqs -> Verbs]
    BY <1>1 DEF ChallengeInv, Verbs
  <2> QED
    BY <2>1, <2>2
<1>3. Cardinality(Accepting') <= Cardinality(Reqs) /\ Cardinality(Accepting') \in Nat
  <2>1. Accepting' \subseteq Reqs /\ IsFiniteSet(Reqs)
    BY LiveDuelAssumption DEF Accepting, LiveDuelAssumption
  <2>2. PICK A : A = Accepting'
    OBVIOUS
  <2>3. Cardinality(A) <= Cardinality(Reqs) /\ Cardinality(A) \in Nat
    BY <2>1, <2>2, FS_Subset, FS_CardinalityType
  <2> QED
    BY <2>2, <2>3
<1>4. accepts' + Cardinality(Accepting)' <= Cardinality(Reqs)
  BY <1>1, <1>3
<1> QED
  BY <1>1, <1>2, <1>4 DEF ChallengeInv

LEMMA VerdictKeeps ==
  ASSUME LiveInv, ChallengeInv, NEW r \in Reqs, WriteVerdict(r)
  PROVE  ChallengeInv'
<1>1. /\ req[r] # "idle" /\ req' = [req EXCEPT ![r] = "idle"] /\ req \in [Reqs -> Verbs]
      /\ duel'.status # "pending" /\ UNCHANGED mishaps /\ accepts \in Nat
      /\ deadline' \in {"ahead", "passed", "selected"}
      /\ accepts' = IF req[r] = "accept" THEN accepts + 1 ELSE accepts
  BY DEF WriteVerdict, WithStatus, ChallengeInv, LiveInv, TablesTyped
<1>2. req' \in [Reqs -> Verbs]
  BY <1>1 DEF Verbs
<1>3. Accepting' = Accepting \ {r}
  BY <1>1 DEF Accepting
<1>4. accepts' + Cardinality(Accepting \ {r}) <= Cardinality(Reqs)
  <2>1. CASE req[r] = "accept"
    <3>1. r \in Accepting
      BY <2>1 DEF Accepting
    <3>2. Cardinality(Accepting \ {r}) = Cardinality(Accepting) - 1
      BY <3>1, AcceptingFinite, FS_RemoveElement
    <3>3. accepts' = accepts + 1 /\ Cardinality(Accepting) \in Nat /\ Cardinality(Reqs) \in Nat
          /\ accepts + Cardinality(Accepting) <= Cardinality(Reqs)
      BY <1>1, <2>1, AcceptingFinite DEF ChallengeInv
    <3> QED
      BY <1>1, <3>2, <3>3
  <2>2. CASE req[r] # "accept"
    <3>1. Accepting \ {r} = Accepting /\ accepts' = accepts
      BY <1>1, <2>2 DEF Accepting
    <3> QED
      BY <3>1 DEF ChallengeInv
  <2> QED
    BY <2>1, <2>2
<1>5. (accepts + Cardinality(Accepting))' <= Cardinality(Reqs)
  BY <1>3, <1>4
<1> QED
  BY <1>1, <1>2, <1>5 DEF ChallengeInv

LEMMA RestartChallenge ==
  ASSUME LiveInv, ChallengeInv, Restart
  PROVE  ChallengeInv'
<1>1. /\ req' = [r \in Reqs |-> "idle"] /\ Mishap /\ UNCHANGED <<duel, accepts>>
      /\ deadline' \in {"ahead", "passed", "selected"}
  BY DEF Restart, tables, ChallengeInv
<1>2. Accepting' = {}
  BY <1>1 DEF Accepting
<1>3. (accepts + Cardinality(Accepting))' <= Cardinality(Reqs)
  BY <1>1, <1>2, FS_EmptySet, AcceptingFinite DEF ChallengeInv, LiveInv, TablesTyped
<1>4. mishaps' \in 0..MaxMishaps
  BY <1>1, MishapTyped DEF ChallengeInv
<1> QED
  BY <1>1, <1>3, <1>4 DEF ChallengeInv, Verbs

\* A step of the screens and their handlers.
LEMMA DuelChallenge ==
  ASSUME LiveInv, ChallengeInv, NEW s \in Sides,
         \/ Open(s) \/ SubmitAnswer(s) \/ Advance(s)
         \/ GoBack(s) \/ WalkAway(s) \/ Drop(s)
         \/ \E c \in Sockets : Handle(s, c) \/ Disconnect(s, c)
  PROVE  ChallengeInv'
<1>1. deadline \in {"ahead", "passed", "selected"}
  BY DEF ChallengeInv
<1>2. ASSUME NEW c \in Sockets, Serve(s, c) PROVE ChallengeInv'
  <2>1. UNCHANGED <<req, accepts, deadline, mishaps>>
    BY <1>2 DEF Serve, challenge
  <2>2. duel'.status = "pending" => duel.status = "pending"
    <3> DEFINE i == Head(handler[s][c].up)
    <3>1. \/ UNCHANGED tables \/ AwaitsOther(s, i)
          \/ \E outcome \in Sides \cup {"nobody"}, winner \in Sides \cup {"none"} :
               Resolves(s, i, outcome, winner)
      BY <1>2 DEF Serve
    <3>2. CASE UNCHANGED tables \/ AwaitsOther(s, i)
      BY <3>2 DEF tables, AwaitsOther
    <3>3. ASSUME NEW outcome, NEW winner, Resolves(s, i, outcome, winner)
          PROVE  duel'.status # "pending"
      <4>1. duel'.status = IF winner = "none" THEN "active" ELSE "completed"
        BY <3>3 DEF Resolves
      <4> QED
        BY <4>1
    <3> QED
      BY <3>1, <3>2, <3>3
  <2> QED
    BY <1>1, <2>1, <2>2, ChallengeStays
<1>3. ASSUME NEW c \in Sockets,
             \/ Join(s, c) \/ SendAck(s, c) \/ SendOwn(s, c) \/ SendOthers(s, c)
             \/ Disconnect(s, c)
      PROVE  ChallengeInv'
  <2>1. UNCHANGED <<duel, req, accepts, deadline, mishaps>>
    BY <1>3 DEF Join, SendAck, SendOwn, SendOthers, Disconnect, tables, challenge
  <2> QED
    BY <1>1, <2>1, ChallengeStays
<1>4. CASE Open(s) \/ SubmitAnswer(s) \/ Advance(s) \/ GoBack(s) \/ WalkAway(s) \/ Drop(s)
  <2>1. UNCHANGED <<duel, req, accepts, deadline>> /\ (mishaps' = mishaps \/ Mishap)
    <3>1. CASE Open(s)
      BY <3>1 DEF Open, Listed, tables, challenge
    <3>2. CASE SubmitAnswer(s) \/ Advance(s)
      BY <3>2 DEF SubmitAnswer, Advance, tables, challenge
    <3>3. CASE GoBack(s) \/ WalkAway(s)
      BY <3>3 DEF GoBack, WalkAway, Exit, tables, challenge
    <3>4. CASE Drop(s)
      BY <3>4 DEF Drop, tables, challenge
    <3> QED
      BY <1>4, <3>1, <3>2, <3>3, <3>4
  <2> QED
    BY <1>1, <2>1, ChallengeStays
<1> QED
  BY <1>2, <1>3, <1>4 DEF Handle

LEMMA ChallengeStep == LiveInv /\ ChallengeInv /\ [Next]_vars => ChallengeInv'
<1> SUFFICES ASSUME LiveInv, ChallengeInv, [Next]_vars PROVE ChallengeInv'
  OBVIOUS
<1>1. CASE Lapse
  BY <1>1, ChallengeStays DEF Lapse, tables
<1>2. CASE ScanExpired
  BY <1>2, ChallengeStays DEF ScanExpired, tables
<1>3. CASE WriteExpired
  <2>1. UNCHANGED <<req, accepts, mishaps>> /\ duel'.status = "expired" /\ deadline' = "ahead"
    BY <1>3 DEF WriteExpired, WithStatus
  <2> QED
    BY <2>1, ChallengeStays
<1>4. CASE UNCHANGED vars
  <2>1. UNCHANGED <<duel, req, accepts, mishaps, deadline>>
    BY <1>4 DEF vars, tables, challenge
  <2> QED
    BY <2>1, ChallengeStays DEF ChallengeInv
<1> QED
  BY <1>1, <1>2, <1>3, <1>4, ReadKeeps, VerdictKeeps, RestartChallenge, DuelChallenge DEF Next

LEMMA RoundsStep ==
  ASSUME LiveInv, SidesInv, AskedInv, RoundsInv, [Next]_vars
  PROVE  RoundsInv'
<1>1. CASE UNCHANGED <<answered, rounds>>
  BY <1>1 DEF RoundsInv
<1>2. ASSUME NEW r \in Reqs, WriteVerdict(r) PROVE RoundsInv'
  BY <1>1, <1>2 DEF WriteVerdict
<1>3. CASE WriteExpired
  BY <1>1, <1>3 DEF WriteExpired
<1>4. ASSUME NEW s \in Sides, NEW c \in Sockets, Serve(s, c) PROVE RoundsInv'
  <2>1. PICK i : i = Head(handler[s][c].up)
    OBVIOUS
  <2>2. /\ i \in Nat
        /\ \/ RowStays
           \/ Accepts(i) /\ AwaitsOther(s, i)
           \/ /\ Accepts(i)
              /\ \E outcome \in Outcomes, winner \in Sides \cup {"none"} :
                   Resolves(s, i, outcome, winner)
    BY <1>4, <2>1, ServeEffect DEF SidesInv
  <2>3. CASE RowStays
    BY <1>1, <2>3 DEF RowStays
  <2>4. /\ Total \in Nat /\ Len(rounds) \in Nat /\ duel.round = Len(rounds)
        /\ rounds \in Seq(Outcomes)
    BY LiveDuelAssumption DEF LiveDuelAssumption, Total, LiveInv, TablesTyped, RoundsAgree
  <2>5. Accepts(i) => i \in 0..Total - 1 /\ i = Len(rounds)
    BY <2>2, <2>4 DEF Accepts
  <2>6. CASE Accepts(i) /\ AwaitsOther(s, i)
    BY <2>5, <2>6 DEF AwaitsOther, RoundsInv
  <2>7. ASSUME Accepts(i), NEW outcome \in Outcomes, NEW winner,
               Resolves(s, i, outcome, winner)
        PROVE  RoundsInv'
    <3>1. rounds' = Append(rounds, outcome) /\ answered' = answered \cup {<<i, s>>}
      BY <2>7 DEF Resolves
    <3>2. Len(rounds') = i + 1
      BY <2>4, <2>5, <2>7, <3>1
    <3>3. Len(rounds') <= Total
      BY <2>2, <2>4, <2>5, <2>7, <3>2
    <3> QED
      BY <2>5, <2>7, <3>1, <3>3 DEF RoundsInv
  <2> QED
    BY <2>2, <2>3, <2>6, <2>7
<1>5. CASE UNCHANGED <<tables, accepts>>
  BY <1>1, <1>5 DEF tables
<1> QED
  BY <1>2, <1>3, <1>4, <1>5, TablesStep

\* The hub knows a socket, none, or one whose handler has ended.
RoomInv == \A s \in Sides : room[s] \in Sockets \cup {NoSocket, DeadSocket}

LEMMA RoomStep ==
  ASSUME SidesInv, RoomInv, [Next]_vars
  PROVE  RoomInv'
<1>1. CASE UNCHANGED room
  BY <1>1 DEF RoomInv
<1>2. ASSUME NEW s \in Sides, NEW c \in Sockets, Join(s, c) PROVE RoomInv'
  <2>1. PICK o : o = Other(s)
    OBVIOUS
  <2>2. room'[o] = room[o] /\ room'[s] \in {c, DeadSocket}
    BY <1>2, <2>1, JoinEffect
  <2> QED
    BY <2>1, <2>2, TwoSides DEF RoomInv
<1>3. ASSUME NEW s \in Sides, NEW c \in Sockets, Disconnect(s, c) PROVE RoomInv'
  <2>1. room'[Other(s)] = room[Other(s)] /\ (room'[s] = NoSocket \/ room'[s] = room[s])
    BY <1>3, DisconnectEffect DEF SidesInv
  <2> QED
    BY <2>1, TwoSides DEF RoomInv
<1>4. CASE Restart
  BY <1>4 DEF Restart, RoomInv
<1>5. ASSUME NEW s \in Sides, NEW c \in Sockets,
             Serve(s, c) \/ SendAck(s, c) \/ SendOwn(s, c) \/ SendOthers(s, c)
      PROVE  RoomInv'
  <2>1. CASE Serve(s, c)
    BY <1>1, <2>1 DEF Serve
  <2>2. CASE SendAck(s, c)
    BY <1>1, <2>2 DEF SendAck
  <2>3. CASE SendOwn(s, c) \/ SendOthers(s, c)
    BY <1>1, <2>3 DEF SendOwn, SendOthers
  <2> QED
    BY <1>5, <2>1, <2>2, <2>3
<1>6. ASSUME NEW s \in Sides,
             \/ Open(s) \/ SubmitAnswer(s) \/ Advance(s)
             \/ GoBack(s) \/ WalkAway(s) \/ Drop(s)
      PROVE  RoomInv'
  <2>1. CASE Open(s)
    BY <1>1, <2>1 DEF Open
  <2>2. CASE SubmitAnswer(s) \/ Advance(s)
    BY <1>1, <2>2 DEF SubmitAnswer, Advance
  <2>3. CASE GoBack(s) \/ WalkAway(s)
    BY <1>1, <2>3 DEF GoBack, WalkAway, Exit
  <2>4. CASE Drop(s)
    BY <1>1, <2>4 DEF Drop
  <2> QED
    BY <1>6, <2>1, <2>2, <2>3, <2>4
<1>7. ASSUME NEW r \in Reqs, NEW verb, WriteVerdict(r) \/ ReadPending(r, verb) PROVE RoomInv'
  BY <1>1, <1>7 DEF WriteVerdict, ReadPending
<1>8. CASE Lapse \/ ScanExpired \/ WriteExpired
  BY <1>1, <1>8 DEF Lapse, ScanExpired, WriteExpired
<1>9. CASE UNCHANGED vars
  BY <1>1, <1>9 DEF vars
<1> QED
  BY <1>2, <1>3, <1>4, <1>5, <1>6, <1>7, <1>8, <1>9 DEF Next, Handle

LEMMA InitRoom == Init => RoomInv
BY DEF Init, RoomInv

LEMMA TypesHold ==
  ASSUME LiveInv, ScreenInv, PlaceInv, AskedInv, ChallengeInv, RoundsInv, RoomInv
  PROVE  TypeOK
<1>1. /\ rounds \in Seq(Outcomes) /\ Len(rounds) \in Nat /\ Len(rounds) <= Total
      /\ Total \in Nat /\ duel.round = Len(rounds) /\ accepts \in Nat
  BY LiveDuelAssumption
  DEF LiveDuelAssumption, Total, LiveInv, TablesTyped, RoundsAgree, RoundsInv
<1>2. duel \in [status : {"pending", "active"} \cup Ended, round : 0..Total,
                wins : [Sides -> 0..Total], winner : Sides \cup {"none"}]
  <2>1. /\ duel \in [status : {"pending", "active"} \cup Ended, round : Nat,
                     wins : [Sides -> Nat], winner : Sides \cup {"none"}]
        /\ duel.round \in 0..Total
    BY <1>1 DEF LiveInv, TablesTyped
  <2>2. ASSUME NEW s \in Sides PROVE duel.wins[s] <= Total
    <3>1. duel.wins[s] = WinsOf(s)
      BY DEF LiveInv, RoundsAgree
    <3>2. WinsOf(s) <= Len(rounds)
      <4>1. IsFiniteSet(1..Len(rounds)) /\ Cardinality(1..Len(rounds)) = Len(rounds)
        <5>1. 1 \in Int /\ Len(rounds) \in Int
          BY <1>1
        <5>2. /\ IsFiniteSet(1..Len(rounds))
              /\ Cardinality(1..Len(rounds)) =
                   IF 1 > Len(rounds) THEN 0 ELSE Len(rounds) - 1 + 1
          BY <5>1, FS_Interval
        <5> QED
          BY <1>1, <5>2
      <4>2. {n \in DOMAIN rounds : rounds[n] = s} \subseteq 1..Len(rounds)
        BY <1>1
      <4> QED
        BY <4>1, <4>2, FS_Subset DEF WinsOf
    <3>3. WinsOf(s) \in Nat
      BY <2>1, <3>1
    <3> QED
      BY <1>1, <3>1, <3>2, <3>3
  <2>3. duel.wins \in [Sides -> 0..Total]
    <3>1. \A s \in Sides : duel.wins[s] \in 0..Total
      BY <1>1, <2>1, <2>2
    <3> QED
      BY <2>1, <3>1
  <2> QED
    BY <2>1, <2>3
<1>3. accepts \in 0..Cardinality(Reqs)
  BY <1>1, AcceptingFinite DEF ChallengeInv
<1>4. room \in [Sides -> Sockets \cup {NoSocket, DeadSocket}]
  <2>1. room \in [Sides -> Nat]
    BY DEF ScreenInv, SocketsTyped
  <2>2. \A s \in Sides : room[s] \in Sockets \cup {NoSocket, DeadSocket}
    BY DEF RoomInv
  <2> QED
    BY <2>1, <2>2
<1>5. ASSUME NEW s \in Sides, NEW c \in Sockets
      PROVE  /\ handler[s][c].pc \in {"none", "read", "serving", "ack", "own", "others"}
             /\ handler[s][c].up \in Seq(0..Total - 1)
             /\ (client[s].conn = c) => handler[s][c].pc # "none"
  <2>1. handler[s][c].pc \in Steps /\ handler[s][c].up \in Seq(Nat)
    BY DEF ScreenInv, SocketsTyped, Desk
  <2>2. \A k \in DOMAIN handler[s][c].up : handler[s][c].up[k] \in 0..Total - 1
    BY DEF AskedInv, UpsInRange
  <2>3. PICK up : up = handler[s][c].up
    OBVIOUS
  <2>4. up \in Seq(0..Total - 1)
    <3>1. up \in Seq(Nat) /\ \A k \in 1..Len(up) : up[k] \in 0..Total - 1
      BY <2>1, <2>2, <2>3
    <3>2. up = [k \in 1..Len(up) |-> up[k]] /\ Len(up) \in Nat
      BY <3>1
    <3>3. [k \in 1..Len(up) |-> up[k]] \in Seq(0..Total - 1)
      BY <3>1, <3>2
    <3> QED
      BY <3>2, <3>3
  <2>5. (client[s].conn = c) => handler[s][c].pc # "none"
    BY DEF PlaceInv, PlaceSide, Placed
  <2> QED
    BY <2>1, <2>3, <2>4, <2>5 DEF Steps
<1>6. ASSUME NEW s \in Sides
      PROVE  /\ client[s].phase \in {"closed", "connecting", "lobby", "playing", "waiting",
                                      "reveal", "done", "error"}
             /\ client[s].conn \in Sockets \cup {NoSocket} /\ client[s].idx \in 0..Total
             /\ client[s].phase \in {"connecting", "lobby", "playing", "waiting", "reveal"}
                  => client[s].conn # NoSocket
             /\ client[s].reveal \in -1..Total - 1
  <2>1. /\ client[s].phase \in Phases /\ client[s].conn \in Sockets \cup {NoSocket}
        /\ client[s].idx \in Nat /\ client[s].reveal \in Int
    BY DEF ScreenInv, SocketsTyped, View
  <2>2. client[s].idx <= Len(rounds) /\ client[s].reveal + 1 \in 0..Len(rounds)
    BY DEF ScreenInv, SideInv, ViewTrue
  <2>3. client[s].idx \in 0..Total /\ client[s].reveal \in -1..Total - 1
    BY <1>1, <2>1, <2>2
  <2>4. client[s].phase \in {"connecting", "lobby", "playing", "waiting", "reveal"}
          => client[s].conn # NoSocket
    BY DEF PlaceInv, PlaceSide, Placed, InDuel, Joined, Connects, Sockets, NoSocket
  <2> QED
    BY <2>1, <2>3, <2>4 DEF Phases
<1>7. /\ deadline \in {"ahead", "passed", "selected"} /\ mishaps \in 0..MaxMishaps
      /\ req \in [Reqs -> {"idle", "accept", "decline", "cancel"}]
      /\ answered \subseteq (0..Total - 1) \X Sides
      /\ rounds \in Seq(Sides \cup {"nobody"}) /\ Len(rounds) <= Total
      /\ record \in [Sides -> [won : Nat, lost : Nat]]
      /\ stale \in [Sides -> BOOLEAN]
  BY <1>1 DEF ChallengeInv, Verbs, RoundsInv, LiveInv, TablesTyped, ScreenInv, SocketsTyped, Outcomes
<1> QED
  BY <1>2, <1>3, <1>4, <1>5, <1>6, <1>7 DEF TypeOK

LEMMA ChallengeAlways == Spec => []ChallengeInv
BY InitChallenge, ChallengeStep, LiveAlways, PTL DEF Spec

LEMMA RoundsAlways == Spec => [](RoundsInv /\ RoomInv)
<1>1. ScreenInv => SidesInv
  BY DEF ScreenInv, SidesInv
<1> QED
  BY <1>1, InitChallenge, InitRoom, RoundsStep, RoomStep, LiveAlways, ScreensAlways, AskedAlways,
     PTL DEF Spec

\* The duel, its challenge, the hub, the handlers and the screens keep their shape: no more
\* rounds than there are questions, no more accepts than requests, no screen in the duel
\* without a socket and no socket on a screen without a handler (friend_duel.py,
\* live_duel.py, LiveDuel.tsx).
THEOREM LiveTypes == Spec => []TypeOK
BY TypesHold, LiveAlways, ScreensAlways, PlaceAlways, AskedAlways, ChallengeAlways,
   RoundsAlways, PTL
===============================================================================
