------------------------------ MODULE Contest -------------------------------
(***************************************************************************)
(* One contest window and the requests of its players: services/contest.py *)
(* (enter_contest, answer_round, submit_entry), the round plan pinned by   *)
(* services/royale_rounds.py and the window transitions of                 *)
(* services/scheduler.py.                                                  *)
(*                                                                         *)
(* Every request is one READ COMMITTED transaction, and takes these steps: *)
(*                                                                         *)
(*   Start*   reads the clock, the entry, the window and the recorded      *)
(*            rounds, and checks them                                      *)
(*   Judge    (answers only) reads the round's answer row or its bound     *)
(*            instance, and decides what to write                          *)
(*   Flush,   writes; a row that another open transaction has written      *)
(*   Insert   makes it wait, a unique index may refuse it                  *)
(*   Commit*  makes the writes visible                                     *)
(*                                                                         *)
(* and may end without a trace at any of them (GiveUp).                    *)
(*                                                                         *)
(* A user may have several requests in flight (a double tap, a retry of a  *)
(* request thought lost, two devices).  Time is counted in coarse ticks;   *)
(* the few seconds a second chance lasts are below a tick, so whether one  *)
(* has lapsed is left open.                                                *)
(***************************************************************************)
EXTENDS Integers, FiniteSets, SequencesExt

CONSTANTS
    Users,          \* players
    Reqs,           \* requests that can be in flight at once
    NumRounds,      \* rounds of an entry
    Kind,           \* the module type of each round
    Options,        \* the choices of a trivia round
    Answer,         \* the correct one
    NoPick,         \* choice None: the player let the clock run out
    Nothing,        \* SQL NULL, or no row
    OpenAt,         \* window.open_at
    CloseAt,        \* window.close_at
    Grace,          \* ticks between close and settlement
    Patience,       \* no request runs longer (proxy and client timeouts)
    Horizon,        \* bound on the clock
    MaxDeploys      \* bound on the content deploys

Rounds == 0..(NumRounds - 1)

ASSUME ContestAssumption ==
    /\ NumRounds \in Nat \ {0}
    /\ Kind \in [Rounds -> {"trivia", "interactive", "memory_flash"}]
    /\ Answer \in Options
    /\ NoPick \notin Options
    /\ {OpenAt, CloseAt, Grace, Patience, Horizon, MaxDeploys} \subseteq Nat
    /\ OpenAt < CloseAt
    /\ Patience <= Grace

VARIABLES
    clock,
    slot,           \* window.slot: "royale", or a slot of the old schedule
    wstate,         \* window.state
    content,        \* version of the question banks now deployed
    pinned,         \* window.round_plan: the version it was drawn from
    entry,          \* the entry of each user
    score,          \* entry.total_score
    results,        \* round_results of each entry, in the order of commit
    retry,          \* round_answers.retry: the pick a second chance greys
    offered,        \* history: the open rounds that got a second chance
    bound,          \* the cognition instance bound to each round
    standings,      \* the users settlement gave a place
    req             \* the requests in flight

vars == <<clock, slot, wstate, content, pinned, entry, score, results, retry,
          offered, bound, standings, req>>

windowVars == <<slot, wstate, content, pinned, standings>>
entryVars == <<entry, score, results, retry, offered, bound>>

Version == 0..MaxDeploys

Result == [idx : Rounds, right : BOOLEAN, half : BOOLEAN, points : Nat]

Entry == [status : {"IN_PROGRESS", "SUBMITTED"},
          plan : Version \cup {Nothing}, bank : Version]

(* SQL NULL is not an entry. *)
ASSUME NothingAssumption == Nothing \notin Entry

Idle == [pc |-> "idle"]

(***************************************************************************)
(* A request carries what it has read: the time it arrived (at), the       *)
(* rounds recorded before it (prior), the plan and the bank of an entry;   *)
(* and what it is going to write: rows, the change of the answer row, and  *)
(* whether it moves the window's state or pins its plan.                   *)
(***************************************************************************)
Request ==
    {Idle}
    \cup [pc : {"entering", "inserted"}, user : Users, at : Nat,
          plan : Version \cup {Nothing}, bank : Version,
          moves : BOOLEAN, pins : BOOLEAN]
    \cup [pc : {"started"}, user : Users, at : Nat, prior : Seq(Result),
          pick : Options \cup {NoPick}, twice : BOOLEAN]
    \cup [pc : {"judged", "flushed"}, user : Users, at : Nat,
          prior : Seq(Result), rows : Seq(Result),
          retry : {"keep", "offer", "consume"}, pick : Options \cup {NoPick}]

(* The score of an entry is typed by ScoreAgrees. *)
TypeOK ==
    /\ clock \in 0..Horizon
    /\ slot \in {"royale", "legacy"}
    /\ wstate \in {"SCHEDULED", "OPEN", "CLOSED", "SETTLED"}
    /\ content \in Version
    /\ pinned \in Version \cup {Nothing}
    /\ entry \in [Users -> Entry \cup {Nothing}]
    /\ results \in [Users -> Seq(Result)]
    /\ retry \in [Users -> [Rounds -> Options \cup {Nothing}]]
    /\ offered \in [Users -> SUBSET Rounds]
    /\ bound \in [Users -> [Rounds -> {"open", "right", "wrong"}]]
    /\ standings \subseteq Users
    /\ req \in [Reqs -> Request]

Init ==
    /\ clock = 0
    /\ slot \in {"royale", "legacy"}
    /\ wstate = "SCHEDULED"
    /\ content = 0
    /\ pinned = Nothing
    /\ entry = [u \in Users |-> Nothing]
    /\ score = [u \in Users |-> Nothing]
    /\ results = [u \in Users |-> <<>>]
    /\ retry = [u \in Users |-> [i \in Rounds |-> Nothing]]
    /\ offered = [u \in Users |-> {}]
    /\ bound = [u \in Users |-> [i \in Rounds |-> "open"]]
    /\ standings = {}
    /\ req = [r \in Reqs |-> Idle]

Entered(u) == entry[u] # Nothing

InProgress(u) == Entered(u) /\ entry[u].status = "IN_PROGRESS"

Submitted(u) == Entered(u) /\ entry[u].status = "SUBMITTED"

(* A window of the old schedule has trivia rounds only. *)
KindOf(i) == IF slot = "royale" THEN Kind[i] ELSE "trivia"

-----------------------------------------------------------------------------
(* Row locks and unique indexes *)

IsEnter(q) == q.pc \in {"entering", "inserted"}

IsPlay(q) == q.pc \in {"judged", "flushed"}

(* The rows request q inserts or updates. *)
Writes(q) ==
    IF IsEnter(q)
    THEN {<<"entry", q.user>>} \cup {w \in {<<"window">>} : q.moves \/ q.pins}
    ELSE {<<"result", q.user, q.rows[k].idx>> : k \in DOMAIN q.rows}
         \cup {a \in {<<"answer", q.user, Len(q.prior)>>} : q.retry # "keep"}

(* The rows it has written already, and so keeps locked. *)
Held(q) ==
    CASE q.pc \in {"inserted", "flushed"} -> Writes(q)
      [] q.pc = "entering" -> {w \in {<<"window">>} : q.moves}
      [] OTHER -> {}

NotLocked(r) ==
    \A s \in Reqs \ {r} : Held(req[s]) \cap Writes(req[r]) = {}

WindowFree == \A r \in Reqs : <<"window">> \notin Held(req[r])

(* Mutant: the migration that adds the unique constraint is missing. *)
NewEntry_NoIndex(q) == TRUE

(* uq_entry_window_user *)
NewEntry(q) == ~Entered(q.user)

(* Mutant: the migration that adds the unique constraint is missing. *)
NewRows_NoIndex(q) == TRUE

(* uq_round_result_entry_idx *)
NewRows(q) ==
    \A k \in DOMAIN q.rows, n \in DOMAIN results[q.user] :
        results[q.user][n].idx # q.rows[k].idx

-----------------------------------------------------------------------------
(* The window *)

(* Mutant: the close update looks at OPEN windows only. *)
Due_MissedWindow(s, t) ==
    CASE s = "OPEN" /\ CloseAt <= t -> "CLOSED"
      [] s = "SCHEDULED" /\ OpenAt <= t /\ t < CloseAt -> "OPEN"
      [] OTHER -> s

(* transition_windows: closing first, so a missed window closes at once. *)
Due(s, t) ==
    CASE s \in {"SCHEDULED", "OPEN"} /\ CloseAt <= t -> "CLOSED"
      [] s = "SCHEDULED" /\ OpenAt <= t /\ t < CloseAt -> "OPEN"
      [] OTHER -> s

(* The scheduler tick, or GET /contests/current. *)
TransitionWindows ==
    /\ wstate # Due(wstate, clock)
    /\ WindowFree
    /\ wstate' = Due(wstate, clock)
    /\ UNCHANGED <<clock, slot, content, pinned, standings, entryVars, req>>

(* settle_due_windows: a CLOSED window, once the grace period is over. *)
Settle ==
    /\ wstate = "CLOSED"
    /\ clock >= CloseAt + Grace
    /\ WindowFree
    /\ wstate' = "SETTLED"
    /\ standings' = {u \in Users : Submitted(u)}
    /\ UNCHANGED <<clock, slot, content, pinned, entryVars, req>>

(* New questions or cognition items go live. *)
DeployContent ==
    /\ content < MaxDeploys
    /\ content' = content + 1
    /\ UNCHANGED <<clock, slot, wstate, pinned, standings, entryVars, req>>

Tick ==
    /\ clock < Horizon
    /\ \A r \in Reqs : req[r] # Idle => clock < req[r].at + Patience
    /\ clock' = clock + 1
    /\ UNCHANGED <<windowVars, entryVars, req>>

(* The player finishes the interactive round through the cognition endpoints. *)
PlayInteractive(u, i) ==
    /\ Entered(u)
    /\ KindOf(i) = "interactive"
    /\ bound[u][i] = "open"
    /\ \E outcome \in {"right", "wrong"} : bound' = [bound EXCEPT ![u][i] = outcome]
    /\ UNCHANGED <<clock, windowVars, entry, score, results, retry, offered, req>>

-----------------------------------------------------------------------------
(* Scoring *)

(***************************************************************************)
(* compute_points of a slow answer, doubled to stay an integer: the speed  *)
(* bonus and the extra answers of a video round are left out, the streak   *)
(* multiplier and the halving are kept.                                    *)
(***************************************************************************)
Points(streak, half) ==
    (100 + 12 * (IF streak < 5 THEN streak ELSE 5)) * (IF half THEN 1 ELSE 2)

(* Mutant: every correct round counts, not only those since the last miss. *)
Streak_Unbroken(rows) ==
    Cardinality({n \in DOMAIN rows : rows[n].right})

(* answer_round: the correct rounds at the end of the recorded ones. *)
Streak(rows) ==
    Cardinality({n \in DOMAIN rows : \A m \in n..Len(rows) : rows[m].right})

Total(rows) == FoldLeft(LAMBDA n, row : n + row.points, 0, rows)

Scored(prior, right, half) ==
    [idx |-> Len(prior), right |-> right, half |-> half,
     points |-> IF right THEN Points(Streak(prior) + 1, half) ELSE 0]

(***************************************************************************)
(* score_entry: the rounds in order, with a streak that a miss resets.     *)
(***************************************************************************)
BatchStep(acc, answer) ==
    LET streak == IF answer.right THEN acc.streak + 1 ELSE 0
    IN  [streak |-> streak,
         rows |-> Append(acc.rows,
                         [idx |-> Len(acc.rows),
                          right |-> answer.right, half |-> answer.half,
                          points |-> IF answer.right THEN Points(streak, answer.half)
                                                     ELSE 0])]

BatchRows(answers) == FoldLeft(BatchStep, [streak |-> 0, rows |-> <<>>], answers).rows

-----------------------------------------------------------------------------
(* enter_contest *)

(***************************************************************************)
(* The lazy transition (its update waits for a locked window row), the     *)
(* checks, and the plan of provision_royale_plan: the pinned one, or one   *)
(* drawn from the items that are live.                                     *)
(***************************************************************************)
StartEnter(r, u) ==
    /\ req[r] = Idle
    /\ Due(wstate, clock) = "OPEN"
    /\ wstate # "OPEN" => WindowFree
    /\ ~Entered(u)
    /\ req' = [req EXCEPT ![r] =
                 [pc |-> "entering", user |-> u, at |-> clock,
                  plan |-> CASE slot # "royale" -> Nothing
                             [] slot = "royale" /\ pinned # Nothing -> pinned
                             [] OTHER -> content,
                  bank |-> content,
                  moves |-> wstate # "OPEN",
                  pins |-> slot = "royale" /\ pinned = Nothing]]
    /\ UNCHANGED <<clock, windowVars, entryVars>>

(* The plan is flushed, the trivia bank read and the entry inserted. *)
InsertEntry(r) ==
    /\ req[r].pc = "entering"
    /\ NotLocked(r)
    /\ NewEntry(req[r])
    /\ req' = [req EXCEPT ![r].pc = "inserted", ![r].bank = content]
    /\ UNCHANGED <<clock, windowVars, entryVars>>

CommitEnter(r) ==
    /\ req[r].pc = "inserted"
    /\ LET q == req[r]
       IN  /\ wstate' = IF q.moves THEN Due(wstate, q.at) ELSE wstate
           /\ pinned' = IF q.pins THEN q.plan ELSE pinned
           /\ entry' = [entry EXCEPT ![q.user] =
                          [status |-> "IN_PROGRESS", plan |-> q.plan, bank |-> q.bank]]
    /\ req' = [req EXCEPT ![r] = Idle]
    /\ UNCHANGED <<clock, slot, content, standings, score, results, retry,
                   offered, bound>>

-----------------------------------------------------------------------------
(* submit_entry and answer_round *)

(* Mutant: the state of the window is trusted, however late its transition. *)
AcceptsPlay_Lazy == wstate = "OPEN"

AcceptsPlay == wstate = "OPEN" /\ clock < CloseAt

(***************************************************************************)
(* submit_entry: all rounds at once; an entry of a royale window carries a *)
(* scoring_version and is refused, and so is one with a recorded round.    *)
(***************************************************************************)
StartSubmit(r, u) ==
    /\ req[r] = Idle
    /\ InProgress(u)
    /\ slot # "royale"
    /\ results[u] = <<>>
    /\ AcceptsPlay
    /\ \E rights \in [1..NumRounds -> BOOLEAN] :
          req' = [req EXCEPT ![r] =
                    [pc |-> "judged", user |-> u, at |-> clock, prior |-> <<>>,
                     rows |-> BatchRows([n \in 1..NumRounds |->
                                          [right |-> rights[n], half |-> FALSE]]),
                     retry |-> "keep", pick |-> NoPick]]
    /\ UNCHANGED <<clock, windowVars, entryVars>>

(***************************************************************************)
(* answer_round up to the sequence check.  The index the client sends must *)
(* be the number of recorded rounds, so it is not modelled as an input;    *)
(* `twice' is supports_retry.                                              *)
(***************************************************************************)
StartAnswer(r, u, pick, twice) ==
    /\ req[r] = Idle
    /\ InProgress(u)
    /\ AcceptsPlay
    /\ Len(results[u]) < NumRounds
    /\ req' = [req EXCEPT ![r] =
                 [pc |-> "started", user |-> u, at |-> clock,
                  prior |-> results[u], pick |-> pick, twice |-> twice]]
    /\ UNCHANGED <<clock, windowVars, entryVars>>

(* The round is decided: one row, and the answer row if `change' says so. *)
Decide(r, right, half, change) ==
    LET q == req[r]
    IN  req' = [req EXCEPT ![r] =
                  [pc |-> "judged", user |-> q.user, at |-> q.at,
                   prior |-> q.prior, rows |-> <<Scored(q.prior, right, half)>>,
                   retry |-> change, pick |-> q.pick]]

(* An interactive round: the outcome of the instance bound to it. *)
JudgeInteractive(r) ==
    /\ req[r].pc = "started"
    /\ LET i == Len(req[r].prior)
       IN  /\ KindOf(i) = "interactive"
           /\ bound[req[r].user][i] # "open"
           /\ Decide(r, bound[req[r].user][i] = "right", FALSE, "keep")
    /\ UNCHANGED <<clock, windowVars, entryVars>>

MayRetry(q) ==
    q.twice /\ slot = "royale" /\ KindOf(Len(q.prior)) = "trivia"

(* Mutant: a round the clock ran out on is offered a second chance too. *)
GetsRetry_Timeout(q) == MayRetry(q) /\ q.pick # Answer

(* A wrong pick, and not a timeout: that has no option to grey. *)
GetsRetry(q) == MayRetry(q) /\ q.pick \notin {Answer, NoPick}

(* The first attempt of an atomic round: scored, or a second chance offered. *)
JudgeFirst(r) ==
    /\ req[r].pc = "started"
    /\ LET q == req[r]
           i == Len(q.prior)
       IN  /\ KindOf(i) # "interactive"
           /\ retry[q.user][i] = Nothing
           /\ IF GetsRetry(q)
              THEN req' = [req EXCEPT ![r] =
                             [pc |-> "judged", user |-> q.user, at |-> q.at,
                              prior |-> q.prior, rows |-> <<>>,
                              retry |-> "offer", pick |-> q.pick]]
              ELSE Decide(r, q.pick = Answer, FALSE, "keep")
    /\ UNCHANGED <<clock, windowVars, entryVars>>

(***************************************************************************)
(* The second attempt: wrong if it lapsed or repeats the greyed option,    *)
(* and worth half in any case.                                             *)
(***************************************************************************)
JudgeSecond(r) ==
    /\ req[r].pc = "started"
    /\ LET q == req[r]
           i == Len(q.prior)
       IN  /\ KindOf(i) # "interactive"
           /\ retry[q.user][i] # Nothing
           /\ \E lapsed \in BOOLEAN :
                 Decide(r, ~lapsed /\ q.pick # retry[q.user][i] /\ q.pick = Answer,
                        TRUE, "consume")
    /\ UNCHANGED <<clock, windowVars, entryVars>>

Flush(r) ==
    /\ req[r].pc = "judged"
    /\ NotLocked(r)
    /\ NewRows(req[r])
    /\ req' = [req EXCEPT ![r].pc = "flushed"]
    /\ UNCHANGED <<clock, windowVars, entryVars>>

Finishes(q) == \E k \in DOMAIN q.rows : q.rows[k].idx = NumRounds - 1

CommitPlay(r) ==
    /\ req[r].pc = "flushed"
    /\ LET q == req[r]
           u == q.user
           i == Len(q.prior)
       IN  /\ results' = [results EXCEPT ![u] = @ \o q.rows]
           /\ entry' = IF Finishes(q)
                       THEN [entry EXCEPT ![u].status = "SUBMITTED"]
                       ELSE entry
           /\ score' = IF Finishes(q)
                       THEN [score EXCEPT ![u] = Total(q.prior \o q.rows)]
                       ELSE score
           /\ retry' = CASE q.retry = "offer" -> [retry EXCEPT ![u][i] = q.pick]
                         [] q.retry = "consume" -> [retry EXCEPT ![u][i] = Nothing]
                         [] OTHER -> retry
           /\ offered' = IF q.retry = "offer" /\ i = Len(results[u])
                         THEN [offered EXCEPT ![u] = @ \cup {i}]
                         ELSE offered
    /\ req' = [req EXCEPT ![r] = Idle]
    /\ UNCHANGED <<clock, windowVars, bound>>

(* Refused by a check or an index, or the process died: rolled back. *)
GiveUp(r) ==
    /\ req[r] # Idle
    /\ req' = [req EXCEPT ![r] = Idle]
    /\ UNCHANGED <<clock, windowVars, entryVars>>

-----------------------------------------------------------------------------
Arrive(r) ==
    \E u \in Users :
        \/ StartEnter(r, u)
        \/ StartSubmit(r, u)
        \/ \E pick \in Options \cup {NoPick}, twice \in BOOLEAN :
              StartAnswer(r, u, pick, twice)

Proceed(r) ==
    \/ InsertEntry(r)
    \/ CommitEnter(r)
    \/ JudgeInteractive(r)
    \/ JudgeFirst(r)
    \/ JudgeSecond(r)
    \/ Flush(r)
    \/ CommitPlay(r)
    \/ GiveUp(r)

(* The day is over. *)
Over ==
    /\ clock = Horizon
    /\ wstate = "SETTLED"
    /\ UNCHANGED vars

Next ==
    \/ Tick
    \/ TransitionWindows
    \/ Settle
    \/ DeployContent
    \/ \E u \in Users, i \in Rounds : PlayInteractive(u, i)
    \/ \E r \in Reqs : Arrive(r) \/ Proceed(r)
    \/ Over

(***************************************************************************)
(* Time passes, the scheduler keeps ticking (APScheduler's interval job    *)
(* runs both its steps) and a request that has arrived ends: the server    *)
(* serves it, or its connection goes.  Nobody has to play.                 *)
(***************************************************************************)
Fairness ==
    /\ WF_vars(Tick)
    /\ WF_vars(TransitionWindows)
    /\ WF_vars(Settle)
    /\ \A r \in Reqs : WF_vars(Proceed(r))

Spec == Init /\ [][Next]_vars

FairSpec == Spec /\ Fairness

-----------------------------------------------------------------------------
(***************************************************************************)
(* The rounds of an entry are recorded once each and in order, and it is   *)
(* SUBMITTED exactly when the last one is: two requests that read the same *)
(* rounds never record one twice, skip one or wedge the entry.             *)
(***************************************************************************)
WellFormed ==
    \A u \in Users :
        /\ \A n \in DOMAIN results[u] : results[u][n].idx = n - 1
        /\ Submitted(u) <=> Len(results[u]) = NumRounds
        /\ ~Entered(u) => results[u] = <<>>

(***************************************************************************)
(* "per-round scoring matches batch score_entry exactly": the rows stored  *)
(* by separate requests are those a batch re-score gives, and the total a  *)
(* finished entry is ranked by is their sum.                               *)
(***************************************************************************)
ScoreAgrees ==
    \A u \in Users :
        /\ results[u] = BatchRows(results[u])
        /\ score[u] = IF Submitted(u) THEN Total(results[u]) ELSE Nothing

(***************************************************************************)
(* Once a window is settled its standings are its submitted entries: no    *)
(* answer accepted before the close lands after the field was ranked.      *)
(***************************************************************************)
NoLateSubmit ==
    wstate = "SETTLED" => standings = {u \in Users : Submitted(u)}

(***************************************************************************)
(* What is recorded stays: the questions of an entry are never replaced,   *)
(* its rounds only grow, its total is written once, and the window never   *)
(* goes back to an earlier state.                                          *)
(***************************************************************************)
WindowRank(s) ==
    CASE s = "SCHEDULED" -> 0 [] s = "OPEN" -> 1 [] s = "CLOSED" -> 2 [] OTHER -> 3

OnlyForward ==
    /\ WindowRank(wstate) <= WindowRank(wstate')
    /\ \A u \in Users :
          /\ Entered(u) => /\ entry[u]' # Nothing
                           /\ entry[u]'.plan = entry[u].plan
                           /\ entry[u]'.bank = entry[u].bank
                           /\ Submitted(u) => Submitted(u)' /\ score[u]' = score[u]
          /\ IsPrefix(results[u], results[u]')

Recorded == [][OnlyForward]_vars

(* A window nobody touches any more is still closed and settled. *)
EveryWindowSettles == <>(wstate = "SETTLED")

(***************************************************************************)
(* "a Daily Royale trivia round whose FIRST pick is wrong greys that       *)
(* option and grants ONE retry [...] for HALF points"                      *)
(***************************************************************************)
OneSecondChance ==
    \A u \in Users : \A n \in DOMAIN results[u] :
        results[u][n].idx \in offered[u] /\ results[u][n].right => results[u][n].half

(***************************************************************************)
(* "every player in a day's Daily Royale gets the IDENTICAL 8 questions"   *)
(***************************************************************************)
IdenticalQuestions ==
    slot = "royale" =>
        \A u, v \in Users :
            Entered(u) /\ Entered(v) =>
                entry[u].plan = entry[v].plan /\ entry[u].bank = entry[v].bank
=============================================================================
