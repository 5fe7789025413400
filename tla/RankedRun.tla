------------------------------- MODULE RankedRun -------------------------------
(***************************************************************************)
(* One player's ranked run: the screen (screens/Contest.tsx with the       *)
(* reducer of lib/pacing.ts), the round modules under modules/ that play   *)
(* a round and report its end, and the server's side of it (enter and      *)
(* answer_round of services/contest.py, the interactive rounds of          *)
(* services/cognition.py).  Every call may fail before or after the server *)
(* has served it; the run cannot be entered twice, so what the screen and  *)
(* the server each believe about a round decides whether the run is ever   *)
(* finished.  Judgements are a choice; the module Contest has the scores   *)
(* and the requests that compete for one round.                            *)
(***************************************************************************)
EXTENDS Integers, Sequences, FiniteSets

CONSTANTS Plan,        \* the kinds of the rounds, in order
          MaxGuesses,  \* ESTIMATE_MAX_GUESSES
          MaxMishaps   \* bound: failed calls, network losses, the window closing, the app dying

Kinds == {"trivia", "flash", "estimate", "change", "video"}
Interactive == {"estimate", "change", "video"}

ASSUME RankedRunAssumption ==
  /\ Plan \in Seq(Kinds) /\ Plan # <<>>
  /\ MaxGuesses \in Nat \ {0} /\ MaxMishaps \in Nat

VARIABLES
  open,     \* the window takes answers
  entry,    \* the entry: [status, results, offered]; offered: a second chance is pending
  inst,     \* the bound instance of each round: [tries, done]
  view,     \* the screen: [phase, idx, retry, log, answered, mod, picked]
  orphan,   \* what runs on of the round of an unmounted screen: [idx, mod, picked]
  calls,    \* the calls of the app: [st, idx, body]; body: a pick, then the reply
  excused,  \* something happened that a run does not survive (history)
  mishaps   \* what is left of MaxMishaps

server == <<open, entry, inst>>
vars == <<server, view, orphan, calls, excused, mishaps>>

Total == Len(Plan)
Rounds == 0..Total - 1
Kind(i) == Plan[i + 1]
Asks == {"q0", "q1"}                  \* a video's first answers: nobody awaits them
Ops == {"enter", "answer", "play", "reveal"} \cup Asks
Bodies == {"ok", "pick", "refused", "more", "done", "offered", "right", "wrong"}
NoCall == [st |-> "none", idx |-> 0, body |-> "ok"]
Sent(i, body) == [st |-> "sent", idx |-> i, body |-> body]

\* A round module as it is mounted.
Mounted(kind) == IF kind = "video" THEN "clip1" ELSE "open"

NoView == [phase |-> "home", idx |-> 0, retry |-> FALSE, log |-> <<>>,
           answered |-> FALSE, mod |-> "open", picked |-> FALSE]

\* A round that is over for its player but for a timer or a call nothing cancels.
Pending == {"picked", "busy", "revealing"}
NoOrphan == [idx |-> 0, mod |-> "none", picked |-> FALSE]

\* The types. A round that outlived its screen never runs beside another one.
TypeOK ==
  /\ open \in BOOLEAN
  /\ entry \in [status : {"none", "in_progress", "submitted"}, results : Seq(BOOLEAN),
                offered : BOOLEAN]
  /\ Len(entry.results) <= Total
  /\ (entry.status = "submitted") <=> (Len(entry.results) = Total)
  /\ \A i \in Rounds : /\ inst[i].tries \subseteq 0..MaxGuesses + 2
                       /\ inst[i].done => inst[i].tries # {}
  /\ view.phase \in {"home", "loading", "splash", "playing", "holding", "reveal",
                     "report", "error", "gate"}
  /\ view.idx \in Rounds /\ view.log \in Seq(BOOLEAN) /\ view.picked \in BOOLEAN
  /\ view.mod \in Pending \cup {"open", "clip1", "q0", "q1", "clip2", "q2", "stalled"}
  /\ orphan \in [idx : Rounds, mod : Pending \cup {"none"}, picked : BOOLEAN]
  /\ orphan.mod # "none" =>
       entry.status # "none" /\ view.phase \in {"home", "loading", "error", "gate"}
  /\ (view.phase = "holding") => view.answered
  /\ \A op \in Ops : /\ calls[op].st \in {"none", "sent", "counted", "partial", "answered"}
                     /\ calls[op].body \in Bodies /\ calls[op].idx \in Rounds
  /\ mishaps \in 0..MaxMishaps /\ excused \in BOOLEAN

Mishap == mishaps > 0 /\ mishaps' = mishaps - 1

-------------------------------------------------------------------------------
(* Entering: Home.tsx, the loader of Contest.tsx, enter of services/contest.py *)

\* The hub's hero card is live as long as the window is open and not entered; an entry
\* locks it, whatever became of the run.
HeroLive == open /\ entry.status = "none"

\* A mounted loader enters, once.
Mounts ==
  /\ calls["enter"].st = "none"
  /\ view' = [NoView EXCEPT !.phase = "loading"]
  /\ calls' = [calls EXCEPT !["enter"] = Sent(0, "ok")]
  /\ UNCHANGED <<server, orphan, excused, mishaps>>

Play == view.phase = "home" /\ HeroLive /\ Mounts

\* What the round on screen is doing.
Playing == IF view.phase = "playing" THEN view.mod ELSE "none"

\* Somebody still waits for the reply.
Hears(op) ==
  CASE op = "enter" -> view.phase = "loading"
    [] op = "answer" -> view.phase = "holding"
    [] op = "play" -> "busy" \in {orphan.mod, Playing}
    [] op = "reveal" -> "revealing" \in {orphan.mod, Playing}
    [] OTHER -> FALSE

Reply(op, body) ==
  calls' = [calls EXCEPT ![op] = IF Hears(op) THEN [st |-> "answered", idx |-> @.idx, body |-> body]
                                 ELSE NoCall]

\* enter: one entry per window and player, its interactive rounds bound to instances.
ServeEnter ==
  /\ calls["enter"].st = "sent"
  /\ IF open /\ entry.status = "none"
     THEN entry' = [entry EXCEPT !.status = "in_progress"] /\ Reply("enter", "ok")
     ELSE UNCHANGED entry /\ Reply("enter", "refused")
  /\ UNCHANGED <<open, inst, view, orphan, excused, mishaps>>

\* The run, or the error card.
Entered ==
  /\ calls["enter"].st = "answered"
  /\ view' = [view EXCEPT !.phase = IF calls["enter"].body = "ok" THEN "splash" ELSE "error"]
  /\ calls' = [calls EXCEPT !["enter"] = NoCall]
  /\ UNCHANGED <<server, orphan, excused, mishaps>>

-------------------------------------------------------------------------------
(* The rhythm of a round: lib/pacing.ts, ContestPlay *)

\* SPLASH_DONE: the round's module is mounted; the refs of the round were reset.
SplashDone ==
  /\ view.phase = "splash"
  /\ view' = [view EXCEPT !.phase = "playing", !.answered = FALSE, !.picked = FALSE,
                          !.mod = Mounted(Kind(view.idx))]
  /\ UNCHANGED <<server, orphan, calls, excused, mishaps>>

\* onRoundComplete: LOCKED, and the answer is sent, once. (c: the calls as they are then.)
Completes(mod, c) ==
  /\ ~view.answered
  /\ view' = [view EXCEPT !.mod = mod, !.answered = TRUE, !.phase = "holding"]
  /\ calls' = [c EXCEPT !["answer"] = Sent(view.idx, IF view.picked THEN "pick" ELSE "ok")]

\* RETRY, and MultipleChoiceRound's effect on it.
Rearmed(v) == [v EXCEPT !.phase = "playing", !.answered = FALSE, !.retry = TRUE, !.mod = "open"]

\* Mutant: the offer is logged as the round's outcome.
Judged_OfferLogged(v, body) ==
  IF body = "offered" THEN [Rearmed(v) EXCEPT !.log = Append(@, FALSE)]
  ELSE [v EXCEPT !.log = Append(@, body = "right"), !.phase = "reveal"]

\* The reply: a second chance re-arms the round, a verdict is logged and revealed.
Judged(v, body) ==
  IF body = "offered" THEN Rearmed(v)
  ELSE [v EXCEPT !.log = Append(@, body = "right"), !.phase = "reveal"]

\* The answer's reply; a refusal is the end of the run on this screen.
Verdict ==
  /\ calls["answer"].st = "answered"
  /\ view' = IF calls["answer"].body = "refused" THEN [view EXCEPT !.phase = "error"]
             ELSE Judged(view, calls["answer"].body)
  /\ calls' = [calls EXCEPT !["answer"] = NoCall]
  /\ UNCHANGED <<server, orphan, excused, mishaps>>

\* Mutant: the last round is not told from the others.
Advanced_PastEnd(v) == [v EXCEPT !.phase = "splash", !.idx = @ + 1, !.retry = FALSE]

\* REVEAL_DONE: the next splash, or the report of the run.
Advanced(v) ==
  IF v.idx + 1 >= Total THEN [v EXCEPT !.phase = "report"]
  ELSE [v EXCEPT !.phase = "splash", !.idx = @ + 1, !.retry = FALSE]

RevealDone ==
  /\ view.phase = "reveal"
  /\ view' = Advanced(view)
  /\ UNCHANGED <<server, orphan, calls, excused, mishaps>>

-------------------------------------------------------------------------------
(* The round modules *)

\* The module of this kind is on screen in this state.
On(kinds, mod) == view.phase = "playing" /\ Kind(view.idx) \in kinds /\ view.mod = mod

Moves(mod) == view' = [view EXCEPT !.mod = mod]

\* MultipleChoiceRound: a pick or the time limit, whichever is first.
Choose ==
  /\ On({"trivia"}, "open")
  /\ \E picked \in BOOLEAN : view' = [view EXCEPT !.mod = "picked", !.picked = picked]
  /\ UNCHANGED <<server, orphan, calls, excused, mishaps>>

\* MemoryFlashRound: its waves, up to a miss, the time limit or the last; the taps are sent
\* with the answer.
PlayWaves ==
  /\ On({"flash"}, "open") /\ Moves("picked")
  /\ UNCHANGED <<server, orphan, calls, excused, mishaps>>

\* Both report the end of the round a beat later.
Finish ==
  /\ On({"trivia", "flash"}, "picked") /\ Completes("picked", calls)
  /\ UNCHANGED <<server, orphan, excused, mishaps>>

\* A module's own call: a guess, the tap (or none, when the time is up), the last answer.
Submits ==
  /\ view' = [view EXCEPT !.mod = "busy"]
  /\ calls' = [calls EXCEPT !["play"] = Sent(view.idx, "ok")]

Guess == On({"estimate"}, "open") /\ Submits /\ UNCHANGED <<server, orphan, excused, mishaps>>

\* The tap is claimed at once and submitted after the mark has shown.
Tap ==
  /\ On({"change"}, "open") /\ Moves("picked")
  /\ UNCHANGED <<server, orphan, calls, excused, mishaps>>

SubmitTap ==
  /\ On({"change"}, "picked") \/ On({"change"}, "open")
  /\ Submits /\ UNCHANGED <<server, orphan, excused, mishaps>>

\* VideoRound: clip, two questions, clip, the last question. A clip is left when it has
\* ended, or when it cannot be loaded.
ClipEnds ==
  /\ \/ On({"video"}, "clip1") /\ Moves("q0")
     \/ On({"video"}, "clip2") /\ Moves("q2")
  /\ UNCHANGED <<server, orphan, calls, excused, mishaps>>

\* A clip that neither ends nor fails (its autoplay is refused, its loading never ends) has
\* no time limit: the round stays where it is.
ClipStalls ==
  /\ On({"video"}, "clip1") \/ On({"video"}, "clip2")
  /\ Moves("stalled")
  /\ UNCHANGED <<server, orphan, calls, excused, mishaps>>

\* The first two answers are sent and not awaited.
Ask(q) ==
  /\ On({"video"}, q)
  /\ Moves(IF q = "q0" THEN "q1" ELSE "clip2")
  /\ calls' = [calls EXCEPT ![q] = Sent(view.idx, "ok")]
  /\ UNCHANGED <<server, orphan, excused, mishaps>>

AskLast == On({"video"}, "q2") /\ Submits /\ UNCHANGED <<server, orphan, excused, mishaps>>

\* Mutant: a call that fails leaves the round as it is.
CallEnded_NoFinally(body, c) ==
  CASE Kind(view.idx) # "estimate" /\ body # "refused" -> Completes("busy", c)
    [] Kind(view.idx) = "estimate" /\ body = "done" ->
         Moves("revealing") /\ calls' = [c EXCEPT !["reveal"] = Sent(view.idx, "ok")]
    [] Kind(view.idx) = "estimate" /\ body # "done" -> Moves("open") /\ calls' = c
    [] OTHER -> UNCHANGED view /\ calls' = c

\* What a module does when its call has ended, well or not: an estimate goes on until it
\* hears that its round is over and then fetches the reveal, the others end the round.
CallEnded(body, c) ==
  CASE Kind(view.idx) # "estimate" -> Completes("busy", c)
    [] Kind(view.idx) = "estimate" /\ body = "done" ->
         Moves("revealing") /\ calls' = [c EXCEPT !["reveal"] = Sent(view.idx, "ok")]
    [] OTHER -> Moves("open") /\ calls' = c

\* The reply to a module's call.
Played ==
  /\ calls["play"].st = "answered" /\ Playing = "busy"
  /\ CallEnded(calls["play"].body, [calls EXCEPT !["play"] = NoCall])
  /\ UNCHANGED <<server, orphan, excused, mishaps>>

\* The estimate's reveal is there, or is not: the round ends.
Revealed ==
  /\ calls["reveal"].st = "answered" /\ Playing = "revealing"
  /\ Completes("revealing", [calls EXCEPT !["reveal"] = NoCall])
  /\ UNCHANGED <<server, orphan, excused, mishaps>>

-------------------------------------------------------------------------------
(* A round that outlives its screen: no module cancels its last timer or call *)

\* Its onComplete sends the answer, although nobody is there to hear the verdict.
OrphanEnds(c) ==
  /\ orphan' = NoOrphan
  /\ calls' = [c EXCEPT !["answer"] = Sent(orphan.idx, IF orphan.picked THEN "pick" ELSE "ok")]

OrphanFinish ==
  /\ orphan.mod = "picked" /\ Kind(orphan.idx) \in {"trivia", "flash"} /\ OrphanEnds(calls)
  /\ UNCHANGED <<server, view, excused, mishaps>>

OrphanTap ==
  /\ orphan.mod = "picked" /\ Kind(orphan.idx) = "change"
  /\ orphan' = [orphan EXCEPT !.mod = "busy"]
  /\ calls' = [calls EXCEPT !["play"] = Sent(orphan.idx, "ok")]
  /\ UNCHANGED <<server, view, excused, mishaps>>

\* CallEnded without a screen: an estimate that is not over has nobody to guess on.
OrphanCallEnded(body, c) ==
  CASE Kind(orphan.idx) # "estimate" -> OrphanEnds(c)
    [] Kind(orphan.idx) = "estimate" /\ body = "done" ->
         /\ orphan' = [orphan EXCEPT !.mod = "revealing"]
         /\ calls' = [c EXCEPT !["reveal"] = Sent(orphan.idx, "ok")]
    [] OTHER -> orphan' = NoOrphan /\ calls' = c

OrphanPlayed ==
  /\ calls["play"].st = "answered" /\ orphan.mod = "busy"
  /\ OrphanCallEnded(calls["play"].body, [calls EXCEPT !["play"] = NoCall])
  /\ UNCHANGED <<server, view, excused, mishaps>>

OrphanRevealed ==
  /\ calls["reveal"].st = "answered" /\ orphan.mod = "revealing"
  /\ OrphanEnds([calls EXCEPT !["reveal"] = NoCall])
  /\ UNCHANGED <<server, view, excused, mishaps>>

-------------------------------------------------------------------------------
(* The interactive rounds on the server: services/cognition.py *)

\* The instance a call is for.
For(op) == inst[calls[op].idx]

\* A round of guesses ends with the right one or with the last.
OverAfter(tries, correct) == correct \/ tries >= MaxGuesses

\* estimate_guess.
ServeGuess ==
  /\ calls["play"].st = "sent" /\ Kind(calls["play"].idx) = "estimate"
  /\ IF For("play").done
     THEN UNCHANGED inst /\ Reply("play", "refused")
     ELSE \E correct \in BOOLEAN :
            LET nth  == Cardinality(For("play").tries) + 1
                over == OverAfter(nth, correct)
            IN /\ inst' = [inst EXCEPT ![calls["play"].idx] =
                             [tries |-> @.tries \cup {nth}, done |-> over]]
               /\ Reply("play", IF over THEN "done" ELSE "more")
  /\ UNCHANGED <<open, entry, view, orphan, excused, mishaps>>

\* change_submit: one tap, or none.
ServeTap ==
  /\ calls["play"].st = "sent" /\ Kind(calls["play"].idx) = "change"
  /\ IF For("play").done
     THEN UNCHANGED inst /\ Reply("play", "refused")
     ELSE /\ inst' = [inst EXCEPT ![calls["play"].idx] = [tries |-> {1}, done |-> TRUE]]
          /\ Reply("play", "done")
  /\ UNCHANGED <<open, entry, view, orphan, excused, mishaps>>

Question(op) == CASE op = "q0" -> 0 [] op = "q1" -> 1 [] OTHER -> 2

\* video_answer stores the answer and counts what its own transaction can see. The last
\* answer that does not see the others will not have ended the round.
CountAnswers(op) ==
  /\ calls[op].st = "sent" /\ Kind(calls[op].idx) = "video"
  /\ LET full == Cardinality(For(op).tries \cup {Question(op)}) = 3
     IN /\ calls' = [calls EXCEPT ![op].st = IF full THEN "counted" ELSE "partial"]
        /\ excused' = (excused \/ (op = "play" /\ ~full))
  /\ UNCHANGED <<server, view, orphan, mishaps>>

\* ... and commits.
CommitAnswer(op) ==
  /\ calls[op].st \in {"counted", "partial"}
  /\ inst' = [inst EXCEPT ![calls[op].idx] =
       [tries |-> @.tries \cup {Question(op)}, done |-> @.done \/ calls[op].st = "counted"]]
  /\ Reply(op, "ok")
  /\ UNCHANGED <<open, entry, view, orphan, excused, mishaps>>

\* estimate_resolve is a read.
ServeReveal ==
  /\ calls["reveal"].st = "sent" /\ Reply("reveal", "ok")
  /\ UNCHANGED <<server, view, orphan, excused, mishaps>>

-------------------------------------------------------------------------------
(* answer_round of services/contest.py *)

\* The verdict is stored; the last one submits the entry.
Records(correct) ==
  /\ entry' = [status |-> IF Len(entry.results) + 1 = Total THEN "submitted" ELSE "in_progress",
               results |-> Append(entry.results, correct), offered |-> FALSE]
  /\ Reply("answer", IF correct THEN "right" ELSE "wrong")

\* A wrong first pick of a trivia round is offered a second chance.
Offers ==
  /\ Kind(calls["answer"].idx) = "trivia" /\ calls["answer"].body = "pick" /\ ~entry.offered
  /\ entry' = [entry EXCEPT !.offered = TRUE]
  /\ Reply("answer", "offered")

\* Not this round's turn, not in time, or the round was not played to its end.
Refuses ==
  \/ entry.status # "in_progress" \/ ~open \/ calls["answer"].idx # Len(entry.results)
  \/ Kind(calls["answer"].idx) \in Interactive /\ ~For("answer").done

ServeAnswer ==
  /\ calls["answer"].st = "sent"
  /\ \/ Refuses /\ UNCHANGED entry /\ Reply("answer", "refused")
     \/ ~Refuses /\ Offers
     \/ ~Refuses /\ Records(FALSE)
     \/ /\ ~Refuses /\ Records(TRUE)
        /\ Kind(calls["answer"].idx) = "trivia" => calls["answer"].body = "pick"
  /\ UNCHANGED <<open, inst, view, orphan, excused, mishaps>>

-------------------------------------------------------------------------------
(* What may go wrong *)

\* A call fails: before it reaches the server, in it, or on the way back.
Fail(op) ==
  /\ calls[op].st # "none" /\ Mishap
  /\ LET lost == [calls EXCEPT ![op] = NoCall]
     IN CASE ~Hears(op) -> UNCHANGED <<view, orphan>> /\ calls' = lost
          [] Hears(op) /\ op \in {"enter", "answer"} ->
               view' = [view EXCEPT !.phase = "error"] /\ UNCHANGED orphan /\ calls' = lost
          [] Hears(op) /\ op = "play" ->
               \/ Playing = "busy" /\ CallEnded("refused", lost) /\ UNCHANGED orphan
               \/ Playing # "busy" /\ OrphanCallEnded("refused", lost) /\ UNCHANGED view
          [] OTHER ->
               \/ Playing = "revealing" /\ Completes("revealing", lost) /\ UNCHANGED orphan
               \/ Playing # "revealing" /\ OrphanEnds(lost) /\ UNCHANGED view
  /\ excused' = (excused \/ ~(op = "reveal" \/ (op = "play" /\ Kind(calls[op].idx) = "estimate")))
  /\ UNCHANGED server

\* close_at passes; the scheduler closes the window.
CloseWindow ==
  /\ open /\ entry.status # "submitted" /\ Mishap
  /\ open' = FALSE /\ excused' = TRUE
  /\ UNCHANGED <<entry, inst, view, orphan, calls>>

\* The screen is unmounted, o of its round runs on: a reply nobody awaits is not heard.
Unmounts(phase, o) ==
  /\ view' = [view EXCEPT !.phase = phase] /\ excused' = TRUE
  /\ orphan' = o
  /\ calls' = [op \in Ops |->
       IF \/ calls[op].st # "answered"
          \/ op = "play" /\ o.mod = "busy"
          \/ op = "reveal" /\ o.mod = "revealing"
       THEN calls[op] ELSE NoCall]
  /\ UNCHANGED server

\* The app dies and is opened again, or the report is closed; back is swallowed in a run.
Leave ==
  /\ view.phase \notin {"home", "error", "gate"} \/ orphan.mod # "none"
  /\ Mishap /\ Unmounts("home", NoOrphan)

\* What an unmounted screen leaves behind.
Remains ==
  IF Playing \in Pending THEN [idx |-> view.idx, mod |-> view.mod, picked |-> view.picked]
  ELSE orphan

\* The phone is offline for a moment: the run's screen gives way to OnlineRequired ...
NetworkLost ==
  /\ view.phase \notin {"home", "gate"} /\ Mishap
  /\ Unmounts("gate", Remains)

\* ... and is mounted afresh when the network is back: it enters again.
NetworkBack == view.phase = "gate" /\ Mounts

\* The button of the error card, and of the offline panel.
BackToHub ==
  /\ view.phase \in {"error", "gate"}
  /\ view' = [view EXCEPT !.phase = "home"]
  /\ UNCHANGED <<server, orphan, calls, excused, mishaps>>

-------------------------------------------------------------------------------
Init ==
  /\ open = TRUE
  /\ entry = [status |-> "none", results |-> <<>>, offered |-> FALSE]
  /\ inst = [i \in Rounds |-> [tries |-> {}, done |-> FALSE]]
  /\ view = NoView /\ orphan = NoOrphan /\ calls = [op \in Ops |-> NoCall]
  /\ excused = FALSE /\ mishaps = MaxMishaps

\* What the player starts.
PlayerStep == Play \/ NetworkBack \/ BackToHub \/ Tap

\* What the screen does by its timers, its clips and the replies it hears. Each choice but
\* a guess has a time limit.
ScreenStep ==
  \/ Entered \/ SplashDone \/ Verdict \/ RevealDone
  \/ Choose \/ PlayWaves \/ Finish \/ SubmitTap \/ ClipEnds \/ ClipStalls \/ AskLast
  \/ Played \/ Revealed
  \/ \E q \in Asks : Ask(q)
  \/ OrphanFinish \/ OrphanTap \/ OrphanPlayed \/ OrphanRevealed

ServerStep ==
  \/ ServeEnter \/ ServeAnswer \/ ServeGuess \/ ServeTap \/ ServeReveal
  \/ \E op \in Asks \cup {"play"} : CountAnswers(op) \/ CommitAnswer(op)

Next ==
  \/ PlayerStep \/ Guess \/ ScreenStep \/ ServerStep
  \/ CloseWindow \/ Leave \/ NetworkLost \/ \E op \in Ops : Fail(op)

\* Requests are served or fail, timers run, a clip ends, fails or stalls: which of the steps
\* that are possible comes next is left open. An estimate is limited by its guesses and not
\* by time, so that one thing more is asked of the player: an estimate on screen is guessed.
Fairness == WF_vars(ScreenStep \/ ServerStep) /\ WF_vars(Guess)

Spec == Init /\ [][Next]_vars /\ Fairness

-------------------------------------------------------------------------------
(* Properties *)

\* The report shown at once from what the screen has heard is the run the server has
\* recorded: through second chances, lost replies and answers nobody awaits the screen is
\* never behind or ahead of the entry by more than the verdict it is waiting for.
ReportIsTheRun ==
  LET heard == Len(view.log)
      known == Len(entry.results)
  IN /\ heard <= known /\ \A i \in 1..heard : view.log[i] = entry.results[i]
     /\ view.phase = "splash" => heard = view.idx /\ known = view.idx
     /\ view.phase = "playing" =>
          heard = view.idx /\ known = view.idx /\ view.retry = entry.offered
     /\ view.phase = "holding" => heard = view.idx /\ known \in {view.idx, view.idx + 1}
     /\ view.phase = "reveal" => heard = view.idx + 1 /\ known = heard
     /\ view.phase = "report" => entry.status = "submitted" /\ view.log = entry.results
     /\ \A i \in 0..known - 1 : Plan[i + 1] \in Interactive => inst[i].done

\* The last guess was served and its reply lost: the round is over on the server, every
\* further guess is refused, and the module never reports its end.
GuessLost == On({"estimate"}, "open") /\ inst[view.idx].done

\* A clip that does not end has neither a handler nor a deadline.
ClipStalled == On({"video"}, "stalled")

\* A run that has begun comes to its report, with two exceptions on screen: the last guess's
\* reply is lost, or a clip stalls. Otherwise the player is off the run's screen with one
\* that cannot be entered again, and only after a failed entry, answer, tap or video answer,
\* a moment offline, the end of the window, the app's death, or video answers that do not see
\* each other. (Whether the player starts a run, or leaves the error card, is left open.)
RunEnds ==
  []<>(\/ view.phase = "report" \/ GuessLost \/ ClipStalled
       \/ view.phase \in {"home", "error", "gate"} /\ (entry.status = "none" \/ excused))
===============================================================================
