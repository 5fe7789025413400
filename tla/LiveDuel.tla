-------------------------------- MODULE LiveDuel --------------------------------
(***************************************************************************)
(* A friend duel of Rot Royale from the challenge to the result: the       *)
(* transactions of services/friend_duel.py, the in-process hub and the     *)
(* socket handlers of api/friend_duel.py, and the two phones' screens      *)
(* (screens/friends/LiveDuel.tsx, FriendsScreen.tsx).  A submit holds the  *)
(* lock of the duel row from its read to its commit and is one step; the   *)
(* challenge's answers and the expiry read without a lock and write later. *)
(* A handler commits first and sends afterwards, so sends of two handlers  *)
(* may cross; sockets drop, phones leave and come back, the server dies.   *)
(* A message is shown when it is sent: a socket keeps its order, and what  *)
(* the network delays the handler could as well have sent later.           *)
(***************************************************************************)
EXTENDS Integers, Sequences, FiniteSets

CONSTANTS Challenger, Opponent,  \* the two players
          Reqs,                  \* requests that may answer the challenge at one time
          NormalRounds,          \* DUEL_NORMAL_ROUNDS
          SuddenDeath,           \* DUEL_SUDDEN_DEATH_MAX
          RoundsToWin,           \* DUEL_ROUNDS_TO_WIN
          MaxMishaps             \* bound: drops, walk-outs, restarts, passed deadlines, crossing requests

ASSUME LiveDuelAssumption ==
  /\ Challenger # Opponent /\ "none" \notin {Challenger, Opponent}
  /\ NormalRounds \in Nat \ {0} /\ SuddenDeath \in Nat
  /\ RoundsToWin \in 1..NormalRounds /\ MaxMishaps \in Nat /\ IsFiniteSet(Reqs)

VARIABLES
  duel,      \* the row: [status, round, wins, winner]
  deadline,  \* expires_at: "ahead", "passed", or "selected" by the heartbeat's job
  answered,  \* friend_duel_submissions: <<round, player>>
  rounds,    \* friend_duel_rounds: who won each, or "nobody"
  record,    \* training wins and losses of the players
  req,       \* requests that read the challenge pending: "accept", "decline", "cancel"
  accepts,   \* how often the challenge was accepted (history)
  room,      \* LiveDuelHub: the socket registered for each player
  handler,   \* per player and socket: [pc, snap, up, res]; up: answers under way
  client,    \* the screens: [phase, conn, idx, mine, theirs, reveal, over, won]
  stale,     \* a screen was sent something that was out of date by then (history)
  mishaps    \* what is left of MaxMishaps

tables == <<duel, answered, rounds, record>>
challenge == <<deadline, req, accepts>>
vars == <<tables, challenge, room, handler, client, stale, mishaps>>

Sides == {Challenger, Opponent}
Other(s) == IF s = Challenger THEN Opponent ELSE Challenger
Total == NormalRounds + SuddenDeath
Sockets == {1, 2}  \* a screen's socket, and one whose handler has not ended yet
NoSocket == 0
DeadSocket == 3    \* a registration whose handler has ended
Ended == {"declined", "cancelled", "expired", "completed"}

NoHandler == [pc |-> "none", snap |-> <<>>, up |-> <<>>, res |-> <<>>]
Closed == [phase |-> "closed", conn |-> NoSocket, idx |-> 0, mine |-> 0, theirs |-> 0,
           reveal |-> -1, over |-> FALSE, won |-> FALSE]

WinsOf(s) == Cardinality({n \in DOMAIN rounds : rounds[n] = s})

TypeOK ==
  /\ duel \in [status : {"pending", "active"} \cup Ended, round : 0..Total,
               wins : [Sides -> 0..Total], winner : Sides \cup {"none"}]
  /\ deadline \in {"ahead", "passed", "selected"} /\ accepts \in 0..Cardinality(Reqs)
  /\ req \in [Reqs -> {"idle", "accept", "decline", "cancel"}]
  /\ answered \subseteq (0..Total - 1) \X Sides
  /\ rounds \in Seq(Sides \cup {"nobody"}) /\ Len(rounds) <= Total
  /\ record \in [Sides -> [won : Nat, lost : Nat]]
  /\ room \in [Sides -> Sockets \cup {NoSocket, DeadSocket}]
  /\ \A s \in Sides : \A c \in Sockets :
       /\ handler[s][c].pc \in {"none", "read", "serving", "ack", "own", "others"}
       /\ handler[s][c].up \in Seq(0..Total - 1)
       /\ (client[s].conn = c) => handler[s][c].pc # "none"
  /\ \A s \in Sides :
       /\ client[s].phase \in {"closed", "connecting", "lobby", "playing", "waiting",
                               "reveal", "done", "error"}
       /\ client[s].conn \in Sockets \cup {NoSocket} /\ client[s].idx \in 0..Total
       /\ client[s].phase \in {"connecting", "lobby", "playing", "waiting", "reveal"}
            => client[s].conn # NoSocket
       /\ client[s].reveal \in -1..Total - 1
  /\ stale \in [Sides -> BOOLEAN] /\ mishaps \in 0..MaxMishaps

Mishap == mishaps > 0 /\ mishaps' = mishaps - 1

-------------------------------------------------------------------------------
(* The challenge: respond_challenge, cancel_challenge, expire_stale_friend_duels *)

\* An UPDATE of the status alone.
WithStatus(status) ==
  [status |-> status, round |-> duel.round, wins |-> duel.wins, winner |-> duel.winner]

\* A request loads the challenge and finds it pending. Nothing is locked. (Two requests
\* at one time count against the bound.)
ReadPending(r, verb) ==
  /\ req[r] = "idle" /\ duel.status = "pending"
  /\ req' = [req EXCEPT ![r] = verb]
  /\ IF \A q \in Reqs : req[q] = "idle" THEN UNCHANGED mishaps ELSE Mishap
  /\ UNCHANGED <<tables, deadline, accepts, room, handler, client, stale>>

\* Its UPDATE writes the status whatever the row holds by now.
WriteVerdict(r) ==
  /\ req[r] # "idle"
  /\ duel' = WithStatus(CASE req[r] = "accept" -> "active"
                          [] req[r] = "decline" -> "declined"
                          [] OTHER -> "cancelled")
  /\ IF req[r] = "accept"
     THEN deadline' = (IF deadline = "passed" THEN "ahead" ELSE deadline)
          /\ accepts' = accepts + 1
     ELSE UNCHANGED <<deadline, accepts>>
  /\ req' = [req EXCEPT ![r] = "idle"]
  /\ UNCHANGED <<answered, rounds, record, room, handler, client, stale, mishaps>>

\* The deadline passes: a day for the challenge, an hour of play after the accept.
Lapse ==
  /\ deadline = "ahead" /\ duel.status \notin Ended /\ Mishap
  /\ deadline' = "passed"
  /\ UNCHANGED <<tables, req, accepts, room, handler, client, stale>>

\* The heartbeat selects the open duels past their deadline, without locking them ...
ScanExpired ==
  /\ deadline = "passed" /\ duel.status \notin Ended
  /\ deadline' = "selected"
  /\ UNCHANGED <<tables, req, accepts, room, handler, client, stale, mishaps>>

\* ... and writes them expired, over whatever was committed meanwhile.
WriteExpired ==
  /\ deadline = "selected" /\ deadline' = "ahead"
  /\ duel' = WithStatus("expired")
  /\ UNCHANGED <<answered, rounds, record, req, accepts, room, handler, client, stale,
                 mishaps>>

-------------------------------------------------------------------------------
(* submit_answer *)

\* Mutant: sudden death never runs out.
Decision_NoTiebreak(mine, theirs, played) ==
  CASE mine >= RoundsToWin -> {Challenger}
    [] mine < RoundsToWin /\ theirs >= RoundsToWin -> {Opponent}
    [] OTHER -> IF played < NormalRounds \/ mine = theirs THEN {"none"}
                ELSE {IF mine > theirs THEN Challenger ELSE Opponent}

\* match_decision with the tie-break, which may name either player.
Decision(mine, theirs, played) ==
  CASE mine >= RoundsToWin -> {Challenger}
    [] mine < RoundsToWin /\ theirs >= RoundsToWin -> {Opponent}
    [] OTHER -> IF played < NormalRounds \/ (mine = theirs /\ played < Total) THEN {"none"}
                ELSE IF mine = theirs THEN Sides
                ELSE {IF mine > theirs THEN Challenger ELSE Opponent}

\* _finalize: both players' records move, in the same transaction.
Booked(winner) ==
  [s \in Sides |-> IF winner = "none" THEN record[s]
                   ELSE [won |-> record[s].won + IF s = winner THEN 1 ELSE 0,
                         lost |-> record[s].lost + IF s = winner THEN 0 ELSE 1]]

\* Mutant: an answer for a round that is over is taken for the current one.
Accepts_AnyRound(i) == duel.status = "active" /\ i <= duel.round /\ duel.round < Total

\* The checks of submit_answer on the locked row.
Accepts(i) == duel.status = "active" /\ i = duel.round /\ i < Total

\* The first answer of the round is stored; a repeated one changes nothing.
AwaitsOther(s, i) ==
  /\ <<i, Other(s)>> \notin answered
  /\ answered' = answered \cup {<<i, s>>}
  /\ UNCHANGED <<duel, rounds, record>>

\* Both have answered: the round is decided (by correctness, then speed), the score and
\* the round counter move, and the match may be over.
Resolves(s, i, outcome, winner) ==
  LET wins == [p \in Sides |-> duel.wins[p] + IF p = outcome THEN 1 ELSE 0]
  IN /\ <<i, Other(s)>> \in answered
     /\ winner \in Decision(wins[Challenger], wins[Opponent], i + 1)
     /\ answered' = answered \cup {<<i, s>>}
     /\ rounds' = Append(rounds, outcome)
     /\ duel' = [status |-> IF winner = "none" THEN "active" ELSE "completed",
                 round |-> i + 1, wins |-> wins,
                 winner |-> IF winner = "none" THEN duel.winner ELSE winner]
     /\ record' = Booked(winner)

-------------------------------------------------------------------------------
(* The hub and the socket handlers; the screen: LiveDuel.tsx *)

\* A handler's next state.
Becomes(s, c, h) == handler' = [handler EXCEPT ![s][c] = h]

\* A send to the registered socket arrives when the screen still holds it.
Reaches(s) == room[s] # NoSocket /\ room[s] = client[s].conn

\* handleMessage, by the type of the message.
Handled(v, m) ==
  CASE m.type = "state" ->
         [v EXCEPT !.idx = m.round, !.mine = m.mine, !.theirs = m.theirs,
                   !.won = m.won, !.phase = IF m.status = "completed" THEN "done"
                                            ELSE IF m.online THEN "playing" ELSE "lobby"]
    [] m.type = "opponent_joined" ->
         IF v.phase = "lobby" THEN [v EXCEPT !.phase = "playing"] ELSE v
    [] m.type = "answer_ack" -> [v EXCEPT !.phase = "waiting"]
    [] m.type = "round_result" ->
         [v EXCEPT !.phase = "reveal", !.reveal = m.idx, !.over = m.finished,
                   !.mine = m.mine, !.theirs = m.theirs,
                   !.won = IF m.finished THEN m.won ELSE @]

\* Mutant: a closed socket is not noticed on the screen.
Lost_Unnoticed(s) == [client[s] EXCEPT !.conn = NoSocket]

\* onclose: an error, unless the result is on screen.
Lost(s) ==
  IF client[s].phase = "done" THEN [client[s] EXCEPT !.conn = NoSocket]
  ELSE IF client[s].conn = NoSocket THEN client[s]
  ELSE [Closed EXCEPT !.phase = "error"]

\* The friends screen offers a duel that is active; a list fetched before the duel was
\* over may still offer it (a completed one counts against the bound).
Listed ==
  /\ accepts > 0
  /\ IF duel.status = "completed" THEN Mishap ELSE UNCHANGED mishaps

\* The screen opens its socket. The handler loads the row; join and state come later.
Open(s) ==
  /\ client[s].phase = "closed" /\ Listed
  /\ stale' = [stale EXCEPT ![s] = FALSE]
  /\ IF duel.status \in {"active", "completed"}
     THEN \E c \in Sockets :
            /\ handler[s][c].pc = "none"
            /\ Becomes(s, c, [NoHandler EXCEPT !.pc = "read", !.snap = duel])
            /\ client' = [client EXCEPT ![s] =
                 [Closed EXCEPT !.phase = "connecting", !.conn = c]]
     ELSE /\ client' = [client EXCEPT ![s].phase = "error"]  \* close 4409
          /\ UNCHANGED handler
  /\ UNCHANGED <<tables, challenge, room>>

\* The state message as built from the row that was loaded.
StateMessage(s, snap) ==
  [type |-> "state", status |-> snap.status, round |-> snap.round,
   mine |-> snap.wins[s], theirs |-> snap.wins[Other(s)], won |-> snap.winner = s,
   online |-> room[Other(s)] # NoSocket]

\* Mutant: the one who waits is not told.
Greets_Quietly(s, c) ==
  client' = [client EXCEPT
    ![s] = IF @.conn = c THEN Handled(@, StateMessage(s, handler[s][c].snap))
           ELSE IF room[s] # c /\ Reaches(s) THEN Lost(s) ELSE @]

\* The state message to the new socket, or, when the phone has moved on to a socket that
\* is registered, that one is closed as superseded; opponent_joined to the other player.
Greets(s, c) ==
  client' = [client EXCEPT
    ![s] = IF @.conn = c THEN Handled(@, StateMessage(s, handler[s][c].snap))
           ELSE IF room[s] # c /\ Reaches(s) THEN Lost(s) ELSE @,
    ![Other(s)] = IF Reaches(Other(s)) THEN Handled(@, [type |-> "opponent_joined"]) ELSE @]

\* accept, hub.join, the greeting. When the screen has gone already, the send may raise
\* outside the try: the handler ends and the registration stays.
Join(s, c) ==
  /\ handler[s][c].pc = "read"
  /\ Greets(s, c)
  /\ stale' = IF client[s].conn = c
              THEN [stale EXCEPT ![s] = handler[s][c].snap # duel] ELSE stale
  /\ \/ /\ Becomes(s, c, [handler[s][c] EXCEPT !.pc = "serving", !.snap = <<>>])
        /\ room' = [room EXCEPT ![s] = c]
     \/ /\ client[s].conn # c
        /\ Becomes(s, c, NoHandler)
        /\ room' = [room EXCEPT ![s] = DeadSocket]
  /\ UNCHANGED <<tables, challenge, mishaps>>

\* The player picks, or the countdown of the round ends: the answer is sent.
SubmitAnswer(s) ==
  /\ client[s].phase = "playing" /\ client[s].idx < Total
  /\ client' = [client EXCEPT ![s].phase = "waiting"]
  /\ LET c == client[s].conn
     IN Becomes(s, c, [handler[s][c] EXCEPT !.up = Append(@, client[s].idx)])
  /\ UNCHANGED <<tables, challenge, room, stale, mishaps>>

\* One answer: its transaction commits; what is to be sent is remembered. A refused
\* answer is answered with an error, of which the screen shows a notice at most.
Serve(s, c) ==
  LET h == handler[s][c]
      i == Head(h.up)
  IN /\ h.pc = "serving" /\ h.up # <<>>
     /\ \/ /\ ~Accepts(i)
           /\ Becomes(s, c, [h EXCEPT !.up = Tail(@)])
           /\ UNCHANGED tables
        \/ /\ Accepts(i) /\ AwaitsOther(s, i)
           /\ Becomes(s, c, [h EXCEPT !.up = Tail(@), !.pc = "ack",
                !.res = [idx |-> i, wins |-> duel.wins, winner |-> "none"]])
        \/ /\ Accepts(i)
           /\ \E outcome \in Sides \cup {"nobody"}, winner \in Sides \cup {"none"} :
                /\ Resolves(s, i, outcome, winner)
                /\ Becomes(s, c, [h EXCEPT !.up = Tail(@), !.pc = "own",
                     !.res = [idx |-> i, wins |-> duel'.wins, winner |-> winner]])
     /\ UNCHANGED <<challenge, room, client, stale, mishaps>>

\* answer_ack goes to the handler's own socket.
SendAck(s, c) ==
  /\ handler[s][c].pc = "ack"
  /\ Becomes(s, c, [handler[s][c] EXCEPT !.pc = "serving", !.res = <<>>])
  /\ IF client[s].conn = c
     THEN /\ client' = [client EXCEPT ![s] = Handled(@, [type |-> "answer_ack"])]
          /\ stale' = [stale EXCEPT ![s] = @ \/ handler[s][c].res.idx # duel.round]
     ELSE UNCHANGED <<client, stale>>
  /\ UNCHANGED <<tables, challenge, room, mishaps>>

\* Mutant: the other player's view is not turned round.
Personalize_NotTurned(res, s) ==
  [type |-> "round_result", idx |-> res.idx, mine |-> res.wins[Challenger],
   theirs |-> res.wins[Opponent], finished |-> res.winner # "none", won |-> res.winner = s]

\* _personalize.
Personalize(res, s) ==
  [type |-> "round_result", idx |-> res.idx, mine |-> res.wins[s],
   theirs |-> res.wins[Other(s)], finished |-> res.winner # "none", won |-> res.winner = s]

\* round_result to a player, as the hub has the player now.
PostResult(res, p) ==
  IF Reaches(p)
  THEN /\ client' = [client EXCEPT ![p] = Handled(@, Personalize(res, p))]
       /\ stale' = [stale EXCEPT ![p] = @ \/ res.idx + 1 # duel.round]
  ELSE UNCHANGED <<client, stale>>

\* The player whose answer resolved the round is told first ...
SendOwn(s, c) ==
  /\ handler[s][c].pc = "own"
  /\ Becomes(s, c, [handler[s][c] EXCEPT !.pc = "others"])
  /\ PostResult(handler[s][c].res, s)
  /\ UNCHANGED <<tables, challenge, room, mishaps>>

\* ... then the other.
SendOthers(s, c) ==
  /\ handler[s][c].pc = "others"
  /\ Becomes(s, c, [handler[s][c] EXCEPT !.pc = "serving", !.res = <<>>])
  /\ PostResult(handler[s][c].res, Other(s))
  /\ UNCHANGED <<tables, challenge, room, mishaps>>

\* hub.leave: a socket that was superseded does not unregister its successor.
HubLeave(s, c) == room' = IF room[s] = c THEN [room EXCEPT ![s] = NoSocket] ELSE room

\* The handler finds its socket closed.
Disconnect(s, c) ==
  /\ handler[s][c].pc = "serving" /\ handler[s][c].up = <<>> /\ client[s].conn # c
  /\ HubLeave(s, c)
  /\ Becomes(s, c, NoHandler)
  /\ UNCHANGED <<tables, challenge, client, stale, mishaps>>

\* Continue, or the timer of the reveal.
Advance(s) ==
  /\ client[s].phase = "reveal"
  /\ client' = [client EXCEPT ![s] =
       IF @.over THEN [@ EXCEPT !.phase = "done"]
       ELSE [@ EXCEPT !.phase = "playing", !.idx = client[s].reveal + 1, !.reveal = -1]]
  /\ UNCHANGED <<tables, challenge, room, handler, stale, mishaps>>

\* Nothing is under way to the screen or from it.
Quiet(s) ==
  \A p \in Sides : \A c \in Sockets :
    /\ handler[p][c].pc \notin {"own", "others"}
    /\ p = s => handler[p][c].pc \notin {"read", "ack"} /\ handler[p][c].up = <<>>

\* A screen that waits for nothing: its answer is not the one the round still lacks.
LeftBehind(s) ==
  /\ client[s].phase = "waiting" /\ Quiet(s)
  /\ \/ duel.status # "active" \/ client[s].idx # duel.round
     \/ <<client[s].idx, s>> \notin answered

\* The player leaves the screen, and the socket with it.
Exit(s) ==
  /\ client' = [client EXCEPT ![s] = Closed]
  /\ UNCHANGED <<tables, challenge, room, handler, stale>>

\* From a result, an error, or a screen that does not move any more ...
GoBack(s) ==
  /\ client[s].phase \in {"done", "error"} \/ LeftBehind(s)
  /\ Exit(s) /\ UNCHANGED mishaps

\* ... or in the middle of the duel.
WalkAway(s) ==
  /\ client[s].conn # NoSocket /\ client[s].phase # "done" /\ Mishap
  /\ Exit(s)

\* The connection drops; an answer under way is lost with it, or arrives.
Drop(s) ==
  LET c == client[s].conn
  IN /\ c # NoSocket /\ Mishap
     /\ client' = [client EXCEPT ![s] = Lost(s)]
     /\ \/ UNCHANGED handler
        \/ handler[s][c].up # <<>> /\ Becomes(s, c, [handler[s][c] EXCEPT !.up = <<>>])
     /\ UNCHANGED <<tables, challenge, room, stale>>

\* The server process dies: every socket and the hub go with it, the tables stay.
Restart ==
  /\ Mishap
  /\ client' = [s \in Sides |-> Lost(s)]
  /\ handler' = [s \in Sides |-> [c \in Sockets |-> NoHandler]]
  /\ room' = [s \in Sides |-> NoSocket]
  /\ req' = [r \in Reqs |-> "idle"]
  /\ deadline' = IF deadline = "selected" THEN "passed" ELSE deadline
  /\ UNCHANGED <<tables, accepts, stale>>

-------------------------------------------------------------------------------
\* A challenge has just been created.
Init ==
  /\ duel = [status |-> "pending", round |-> 0, wins |-> [s \in Sides |-> 0],
             winner |-> "none"]
  /\ deadline = "ahead" /\ answered = {} /\ rounds = <<>>
  /\ record = [s \in Sides |-> [won |-> 0, lost |-> 0]]
  /\ req = [r \in Reqs |-> "idle"] /\ accepts = 0
  /\ room = [s \in Sides |-> NoSocket]
  /\ handler = [s \in Sides |-> [c \in Sockets |-> NoHandler]]
  /\ client = [s \in Sides |-> Closed]
  /\ stale = [s \in Sides |-> FALSE] /\ mishaps = MaxMishaps

Handle(s, c) ==
  Join(s, c) \/ Serve(s, c) \/ SendAck(s, c) \/ SendOwn(s, c) \/ SendOthers(s, c)

Next ==
  \/ \E r \in Reqs : WriteVerdict(r) \/ \E verb \in {"accept", "decline", "cancel"} :
                                          ReadPending(r, verb)
  \/ Lapse \/ ScanExpired \/ WriteExpired \/ Restart
  \/ \E s \in Sides :
       \/ Open(s) \/ SubmitAnswer(s) \/ Advance(s)
       \/ GoBack(s) \/ WalkAway(s) \/ Drop(s)
       \/ \E c \in Sockets : Handle(s, c) \/ Disconnect(s, c)

\* Handlers and timers run, the countdown answers for the player, and a
\* player whose screen is closed or no longer moves comes back to a duel still listed.
Fairness ==
  \A s \in Sides :
    /\ WF_vars(SubmitAnswer(s)) /\ WF_vars(Advance(s))
    /\ WF_vars(Open(s)) /\ WF_vars(GoBack(s))
    /\ \A c \in Sockets : WF_vars(Handle(s, c)) /\ WF_vars(Disconnect(s, c))

Spec == Init /\ [][Next]_vars /\ Fairness

-------------------------------------------------------------------------------
(* Properties *)

\* The row agrees with the rounds that were played: the counter is their number, the
\* score counts them, the match has a winner exactly when the score decides it, and a
\* decided match moved both players' records once. (An accept that outlives the duel
\* makes it active again: services/friend_duel.py reads the challenge without a lock.)
RoundsAgree ==
  /\ duel.round = Len(rounds)
  /\ \A s \in Sides : duel.wins[s] = WinsOf(s)
  /\ \A i \in 0..Len(rounds) - 1 : {i} \X Sides \subseteq answered
  /\ accepts <= 1 =>
       /\ \A s \in Sides :
            record[s] = [won |-> IF duel.winner = s THEN 1 ELSE 0,
                         lost |-> IF duel.winner = Other(s) THEN 1 ELSE 0]
       /\ (rounds # <<>>) =>
            duel.winner \in Decision(WinsOf(Challenger), WinsOf(Opponent), Len(rounds))

\* What a screen shows was true: its score is the score after some number of rounds, from
\* the player's own side, its question is the next one or the one being revealed, and a
\* final result names the real winner; through reconnects and results that come late. A
\* result that reaches a screen behind the next one leaves it on a question that is over.
ShownScoreIsReal ==
  \A s \in Sides :
    LET v == client[s]
        After(n, p) == Cardinality({k \in 1..n : rounds[k] = p})
    IN /\ v.phase \in {"lobby", "playing", "waiting", "reveal"} =>
            \E n \in 0..Len(rounds) :
              /\ v.mine = After(n, s) /\ v.theirs = After(n, Other(s))
              /\ v.idx \in {n - 1, n} \/ stale[s]
       /\ v.phase = "done" /\ accepts = 1 => v.won = (duel.winner = s)

\* No screen is left waiting for something that will not come: when nothing is under way,
\* a waiting player's answer is recorded for the current round and the other's is not, and
\* nobody sits in the lobby while the other is in the duel. The exceptions the code
\* leaves: the duel ended or expired (the hub tells nobody; an accept that outlives it
\* makes it active again), the screen opened on a state older than its registration, or
\* its acknowledgement was sent after the round's result.
NotLeftWaiting ==
  \A s \in Sides :
    LET v == client[s]
    IN Quiet(s) /\ duel.status = "active" /\ accepts = 1 /\ ~stale[s] =>
         /\ v.phase = "lobby" => room[Other(s)] = NoSocket
         /\ v.phase = "waiting" =>
              /\ v.idx = duel.round /\ <<v.idx, s>> \in answered
              /\ <<v.idx, Other(s)>> \notin answered

\* A duel that is being played ends, without the help of its deadline, whatever is lost
\* on the way: coming back to it always goes on where the server stands.
PlayGoesOn == []<>(duel.status # "active" \/ accepts > 1)
===============================================================================
