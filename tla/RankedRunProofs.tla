---------------------------- MODULE RankedRunProofs ----------------------------
(***************************************************************************)
(* Proof, for every plan of rounds, every number of guesses and any number *)
(* of mishaps, that the report of a run is the run the server recorded.    *)
(* The screen alone cannot say so: its log is right because of what the    *)
(* call under way will have done to the entry, so the invariant relates    *)
(* the screen, the entry and the answer's call phase by phase; and a round *)
(* that outlived its screen only ever runs while no round is on a screen.  *)
(* On top of it the type invariant, for which the tries of an instance are *)
(* bound to the kind of its round.                                         *)
(***************************************************************************)
EXTENDS RankedRun, FiniteSetTheorems, SequenceTheorems, TLAPS

Phases == {"home", "loading", "splash", "playing", "holding", "reveal", "report",
           "error", "gate"}
States == {"none", "sent", "counted", "partial", "answered"}
Modules == Pending \cup {"open", "clip1", "q0", "q1", "clip2", "q2", "stalled"}
Orphans == [idx : Rounds, mod : Pending \cup {"none"}, picked : BOOLEAN]

Typed ==
  /\ open \in BOOLEAN
  /\ entry \in [status : {"none", "in_progress", "submitted"}, results : Seq(BOOLEAN),
                offered : BOOLEAN]
  /\ inst = [i \in Rounds |-> inst[i]]
  /\ view \in [phase : Phases, idx : Rounds, retry : BOOLEAN, log : Seq(BOOLEAN),
               answered : BOOLEAN, mod : Modules, picked : BOOLEAN]
  /\ calls \in [Ops -> [st : States, idx : Rounds, body : Bodies]]

heard == Len(view.log)
known == Len(entry.results)

\* Only the call that enters is under way.
NoneOther == \A op \in Ops \ {"enter"} : calls[op].st = "none"

\* The entry by itself: its status follows its rounds, and a recorded interactive round
\* was played to its end.
EntryInv ==
  /\ known <= Total
  /\ (entry.status = "submitted") <=> (known = Total)
  /\ entry.status = "none" => known = 0 /\ ~entry.offered /\ NoneOther
  /\ \A i \in 0..known - 1 : Plan[i + 1] \in Interactive => inst[i].done

\* What the screen has heard was recorded.
HeardInv == heard <= known /\ \A i \in 1..heard : view.log[i] = entry.results[i]

\* A round that outlived its screen belongs to a run that was begun, and to no screen.
OrphanInv ==
  /\ orphan \in Orphans
  /\ orphan.mod # "none" =>
       entry.status # "none" /\ view.phase \in {"home", "loading", "error", "gate"}

\* A round, on its screen or without one, that waits for the reply of its call.
Runs(mod) == orphan.mod = mod \/ (view.phase = "playing" /\ view.mod = mod)

\* A reply is there only for a round or a screen that waits for it; the one that starts the
\* run finds it fresh.
ReplyInv ==
  /\ calls["play"].st = "answered" => Runs("busy")
  /\ calls["reveal"].st = "answered" => Runs("revealing")
  /\ calls["answer"].st = "answered" => view.phase = "holding"
  /\ calls["enter"].st = "answered" =>
       /\ view.phase = "loading"
       /\ calls["enter"].body = "ok" =>
            /\ known = 0 /\ ~entry.offered /\ entry.status = "in_progress"
            /\ NoneOther /\ orphan.mod = "none"
  /\ view.phase = "loading" => heard = 0 /\ view.idx = 0 /\ ~view.retry

\* The screen and the entry in the phases of a round.
PhaseInv ==
  /\ view.phase \in {"splash", "playing", "holding", "reveal", "report"} =>
       entry.status # "none"
  /\ view.phase \in {"splash", "playing", "reveal"} => calls["answer"].st = "none"
  /\ view.phase \in {"splash", "playing"} =>
       heard = view.idx /\ known = view.idx /\ view.retry = entry.offered
  /\ view.phase = "reveal" => heard = view.idx + 1 /\ known = heard /\ ~entry.offered
  /\ view.phase = "report" => known = Total /\ heard = Total

\* The answer's call while the screen holds: not served, or served as its reply says.
HoldingInv ==
  view.phase = "holding" =>
    LET c == calls["answer"]
    IN /\ heard = view.idx /\ c.idx = view.idx
       /\ c.st \in {"sent", "answered"}
       /\ c.st = "sent" => known = view.idx /\ view.retry = entry.offered
       /\ c.st = "answered" =>
            \/ c.body = "refused" /\ known = view.idx
            \/ c.body = "offered" /\ known = view.idx /\ entry.offered
            \/ /\ c.body \in {"right", "wrong"} /\ known = view.idx + 1 /\ ~entry.offered
               /\ entry.results[known] = (c.body = "right")

RunInv == Typed /\ EntryInv /\ HeardInv /\ OrphanInv /\ ReplyInv /\ PhaseInv /\ HoldingInv

-------------------------------------------------------------------------------
LEMMA PlanFacts == Total \in Nat \ {0} /\ 0 \in Rounds /\ Rounds = 0..Total - 1
<1>1. Plan \in Seq(Kinds) /\ Plan # <<>>
  BY RankedRunAssumption DEF RankedRunAssumption
<1>2. Len(Plan) \in Nat \ {0}
  BY <1>1
<1> QED
  BY <1>2 DEF Total, Rounds

LEMMA LenFacts ==
  ASSUME Typed
  PROVE  heard \in Nat /\ known \in Nat /\ view.idx \in 0..Total - 1
BY PlanFacts DEF Typed, heard, known

LEMMA InitRun == Init => RunInv
<1> SUFFICES ASSUME Init PROVE RunInv
  OBVIOUS
<1>1. Typed
  BY PlanFacts DEF Init, Typed, NoView, NoCall, Phases, States, Modules, Bodies, Ops
<1>0. orphan.mod = "none" /\ OrphanInv
  BY PlanFacts DEF Init, NoOrphan, OrphanInv, Orphans
<1>2. known = 0 /\ heard = 0
  BY DEF Init, NoView, known, heard
<1>3. \A op \in Ops : calls[op].st = "none"
  BY DEF Init, NoCall
<1>4. EntryInv
  BY <1>2, <1>3, PlanFacts DEF Init, EntryInv, NoneOther
<1>5. {"answer", "enter", "play", "reveal"} \subseteq Ops
  BY DEF Ops
<1>6. HeardInv /\ ReplyInv /\ PhaseInv /\ HoldingInv
  BY <1>2, <1>3, <1>5 DEF Init, NoView, HeardInv, ReplyInv, PhaseInv, HoldingInv
<1> QED
  BY <1>0, <1>1, <1>4, <1>6 DEF RunInv

(* While a round is on its screen, none runs on without one. *)
LEMMA OnePlays ==
  ASSUME RunInv, view.phase \notin {"home", "loading", "error", "gate"}
  PROVE  /\ orphan.mod = "none"
         /\ Runs("busy") <=> (view.phase = "playing" /\ view.mod = "busy")
         /\ Runs("revealing") <=> (view.phase = "playing" /\ view.mod = "revealing")
BY DEF RunInv, OrphanInv, Runs

(* A step of a module in play that leaves the round where it is. *)
LEMMA SameRound ==
  ASSUME RunInv, Typed', UNCHANGED <<entry, inst, orphan>>, view.phase = "playing",
         view'.phase = "playing", view'.idx = view.idx, view'.retry = view.retry,
         view'.log = view.log, calls'["answer"] = calls["answer"],
         calls'["enter"] = calls["enter"],
         calls'["play"].st = "answered" => view'.mod = "busy",
         calls'["reveal"].st = "answered" => view'.mod = "revealing"
  PROVE  RunInv'
<1>1. heard' = heard /\ known' = known
  BY DEF heard, known
<1>2. entry.status # "none" /\ calls["enter"].st # "answered"
  BY DEF RunInv, PhaseInv, ReplyInv
<1>3. EntryInv'
  BY <1>1, <1>2 DEF RunInv, EntryInv
<1>4. HeardInv'
  BY <1>1 DEF RunInv, HeardInv
<1>5. OrphanInv' /\ ReplyInv' /\ PhaseInv' /\ HoldingInv'
  BY <1>1, <1>2, OnePlays DEF RunInv, OrphanInv, ReplyInv, Runs, PhaseInv, HoldingInv
<1> QED
  BY <1>3, <1>4, <1>5 DEF RunInv

(* The server serves a call of a module. *)
LEMMA ServesModule ==
  ASSUME RunInv, Typed', UNCHANGED <<entry, view, orphan>>,
         NEW op \in Ops \ {"enter", "answer"}, calls[op].st # "none",
         calls'["answer"] = calls["answer"], calls'["enter"] = calls["enter"],
         calls'["play"].st = "answered" => Runs("busy"),
         calls'["reveal"].st = "answered" => Runs("revealing"),
         \A i \in Rounds : inst[i].done => inst'[i].done
  PROVE  RunInv'
<1>1. heard' = heard /\ known' = known
  BY DEF heard, known
<1>2. ~NoneOther
  BY DEF NoneOther
<1>3. entry.status # "none"
  BY <1>2 DEF RunInv, EntryInv
<1>4. EntryInv'
  <2>1. 0..known - 1 \subseteq Rounds
    BY PlanFacts, LenFacts DEF RunInv, EntryInv
  <2> QED
    BY <1>1, <1>3, <2>1 DEF RunInv, EntryInv
<1>5. HeardInv'
  BY <1>1 DEF RunInv, HeardInv
<1>6. OrphanInv' /\ ReplyInv' /\ PhaseInv' /\ HoldingInv'
  BY <1>1, <1>2 DEF RunInv, OrphanInv, ReplyInv, Runs, PhaseInv, HoldingInv
<1> QED
  BY <1>4, <1>5, <1>6 DEF RunInv

(* The end of a round is reported: the answer is under way. *)
LEMMA CompletesKeeps ==
  ASSUME RunInv, NEW mod \in Modules, NEW c \in [Ops -> [st : States, idx : Rounds, body : Bodies]],
         UNCHANGED <<open, entry, inst, orphan>>, view.phase = "playing",
         c["enter"] = calls["enter"], Completes(mod, c),
         c["play"].st # "answered", c["reveal"].st # "answered"
  PROVE  RunInv'
<1>1. heard' = heard /\ known' = known
  BY DEF heard, known, Completes, RunInv, Typed
<1>2. Typed'
  BY DEF RunInv, Typed, Completes, Sent, Phases, States, Bodies, Ops
<1>3. entry.status # "none" /\ calls["enter"].st # "answered"
  BY DEF RunInv, PhaseInv, ReplyInv
<1>4. EntryInv'
  BY <1>1, <1>3 DEF RunInv, EntryInv
<1>5. HeardInv'
  BY <1>1 DEF RunInv, HeardInv, Typed, Completes
<1>6. /\ calls'["answer"].st = "sent" /\ calls'["answer"].idx = view.idx
      /\ calls'["enter"] = calls["enter"]
      /\ calls'["play"] = c["play"] /\ calls'["reveal"] = c["reveal"]
  BY DEF Completes, Sent, Ops
<1>7. /\ view'.phase = "holding" /\ view'.idx = view.idx /\ view'.retry = view.retry
  BY DEF RunInv, Typed, Completes
<1>8. OrphanInv' /\ ReplyInv' /\ PhaseInv' /\ HoldingInv'
  BY <1>1, <1>3, <1>6, <1>7, OnePlays DEF RunInv, OrphanInv, ReplyInv, PhaseInv, HoldingInv
<1> QED
  BY <1>2, <1>4, <1>5, <1>8 DEF RunInv

-------------------------------------------------------------------------------
(* The steps of the modules. *)

LEMMA ModuleMoves ==
  ASSUME RunInv, UNCHANGED <<open, entry, inst, orphan>>, NEW from \in Modules \ {"busy", "revealing"},
         view.phase = "playing", view.mod = from,
         NEW to \in Modules, NEW picked \in BOOLEAN,
         view' = [view EXCEPT !.mod = to, !.picked = picked],
         NEW op \in Ops \ {"enter", "answer"}, NEW st \in {"none", "sent"},
         calls' = [calls EXCEPT ![op] = [st |-> st, idx |-> view.idx, body |-> "ok"]]
  PROVE  RunInv'
<1>1. Typed'
  BY DEF RunInv, Typed, Bodies, States
<1>2. /\ view'.phase = "playing" /\ view'.idx = view.idx /\ view'.retry = view.retry
      /\ view'.log = view.log
  BY DEF RunInv, Typed
<1>3. calls'["answer"] = calls["answer"] /\ calls'["enter"] = calls["enter"]
  BY DEF RunInv, Typed, Ops
<1>4. calls["play"].st # "answered" /\ calls["reveal"].st # "answered"
  BY OnePlays DEF RunInv, ReplyInv
<1>5. calls'["play"].st # "answered" /\ calls'["reveal"].st # "answered"
  BY <1>4 DEF RunInv, Typed, Ops
<1> QED
  BY <1>1, <1>2, <1>3, <1>5, SameRound

LEMMA ModuleStays ==
  ASSUME RunInv, UNCHANGED <<open, entry, inst, calls, orphan>>,
         NEW from \in Modules \ {"busy", "revealing"},
         view.phase = "playing", view.mod = from,
         NEW to \in Modules, NEW picked \in BOOLEAN,
         view' = [view EXCEPT !.mod = to, !.picked = picked]
  PROVE  RunInv'
<1>1. Typed'
  BY DEF RunInv, Typed
<1>2. /\ view'.phase = "playing" /\ view'.idx = view.idx /\ view'.retry = view.retry
      /\ view'.log = view.log
  BY DEF RunInv, Typed
<1>3. calls["play"].st # "answered" /\ calls["reveal"].st # "answered"
  BY OnePlays DEF RunInv, ReplyInv
<1> QED
  BY <1>1, <1>2, <1>3, SameRound

LEMMA ChooseKeeps ==
  ASSUME RunInv, Choose \/ PlayWaves \/ Tap \/ ClipEnds \/ ClipStalls PROVE RunInv'
<1>1. view.phase = "playing" /\ UNCHANGED <<open, entry, inst, calls, orphan>>
  BY DEF Choose, PlayWaves, Tap, ClipEnds, ClipStalls, On, server
<1>2. view = [view EXCEPT !.picked = view.picked] /\ view.picked \in BOOLEAN
  BY DEF RunInv, Typed
<1>3. PICK to \in Modules, picked \in BOOLEAN :
        view' = [view EXCEPT !.mod = to, !.picked = picked]
  <2>1. CASE Choose
    BY <2>1 DEF Choose, Modules, Pending
  <2>2. CASE PlayWaves \/ Tap \/ ClipEnds \/ ClipStalls
    <3>1. PICK to \in Modules : view' = [view EXCEPT !.mod = to]
      BY <2>2 DEF PlayWaves, Tap, ClipEnds, ClipStalls, Moves, Modules, Pending
    <3>2. view' = [view EXCEPT !.mod = to, !.picked = view.picked]
      BY <3>1 DEF RunInv, Typed
    <3> QED
      BY <3>2, <1>2
  <2> QED
    BY <2>1, <2>2
<1>4. view.mod \in Modules \ {"busy", "revealing"}
  BY DEF Choose, PlayWaves, Tap, ClipEnds, ClipStalls, On, Modules, Pending
<1> QED
  BY <1>1, <1>3, <1>4, ModuleStays

LEMMA SendKeeps ==
  ASSUME RunInv, Guess \/ SubmitTap \/ AskLast \/ \E q \in Asks : Ask(q)
  PROVE  RunInv'
<1>1. view.phase = "playing" /\ UNCHANGED <<open, entry, inst, orphan>>
  BY DEF Guess, SubmitTap, AskLast, Ask, On, server
<1>2. PICK to \in Modules, op \in Ops \ {"enter", "answer"} :
        /\ view' = [view EXCEPT !.mod = to]
        /\ calls' = [calls EXCEPT ![op] = Sent(view.idx, "ok")]
  BY DEF Guess, SubmitTap, AskLast, Ask, Moves, Submits, Modules, Pending, Ops, Asks
<1>3. view' = [view EXCEPT !.mod = to, !.picked = view.picked] /\ view.picked \in BOOLEAN
  BY <1>2 DEF RunInv, Typed
<1>4. calls' = [calls EXCEPT ![op] = [st |-> "sent", idx |-> view.idx, body |-> "ok"]]
  BY <1>2 DEF Sent
<1>5. view.mod \in Modules \ {"busy", "revealing"}
  BY DEF Guess, SubmitTap, AskLast, Ask, On, Modules, Pending, Asks
<1> QED
  BY <1>1, <1>3, <1>4, <1>5, ModuleMoves

LEMMA FinishKeeps ==
  ASSUME RunInv, Finish PROVE RunInv'
<1>1. view.phase = "playing" /\ view.mod = "picked" /\ UNCHANGED <<open, entry, inst, orphan>>
  BY DEF Finish, On, server
<1>2. calls["play"].st # "answered" /\ calls["reveal"].st # "answered"
  BY <1>1, OnePlays DEF RunInv, ReplyInv
<1>3. Completes("picked", calls) /\ calls \in [Ops -> [st : States, idx : Rounds, body : Bodies]]
  BY DEF Finish, RunInv, Typed
<1> QED
  BY <1>1, <1>2, <1>3, CompletesKeeps DEF Modules, Pending

(* A call of a module has ended; c are the calls without it. *)
LEMMA CallEndedKeeps ==
  ASSUME RunInv, UNCHANGED <<open, entry, inst, orphan>>, view.phase = "playing", view.mod = "busy",
         NEW body, NEW c, c = [calls EXCEPT !["play"] = NoCall], CallEnded(body, c)
  PROVE  RunInv'
<1>1. c \in [Ops -> [st : States, idx : Rounds, body : Bodies]]
  BY PlanFacts DEF RunInv, Typed, NoCall, States, Bodies, Ops
<1>2. /\ c["enter"] = calls["enter"] /\ c["answer"] = calls["answer"]
      /\ c["play"].st # "answered" /\ c["reveal"].st # "answered"
  BY OnePlays DEF RunInv, Typed, ReplyInv, NoCall, Ops
<1>3. CASE Completes("busy", c)
  BY <1>1, <1>2, <1>3, CompletesKeeps DEF Modules, Pending
<1>4. CASE Moves("revealing") /\ calls' = [c EXCEPT !["reveal"] = Sent(view.idx, "ok")]
  <2>1. Typed'
    BY <1>1, <1>4 DEF RunInv, Typed, Moves, Sent, Modules, Pending, States, Bodies, Ops
  <2>2. /\ view'.phase = "playing" /\ view'.idx = view.idx /\ view'.retry = view.retry
        /\ view'.log = view.log
    BY <1>4 DEF RunInv, Typed, Moves
  <2>3. /\ calls'["enter"] = calls["enter"] /\ calls'["answer"] = calls["answer"]
        /\ calls'["play"].st # "answered" /\ calls'["reveal"].st # "answered"
    BY <1>1, <1>2, <1>4 DEF Sent, Ops
  <2> QED
    BY <2>1, <2>2, <2>3, SameRound
<1>5. CASE Moves("open") /\ calls' = c
  <2>1. Typed'
    BY <1>1, <1>5 DEF RunInv, Typed, Moves, Modules
  <2>2. /\ view'.phase = "playing" /\ view'.idx = view.idx /\ view'.retry = view.retry
        /\ view'.log = view.log
    BY <1>5 DEF RunInv, Typed, Moves
  <2> QED
    BY <2>1, <2>2, <1>2, <1>5, SameRound
<1> QED
  BY <1>3, <1>4, <1>5 DEF CallEnded

LEMMA PlayedKeeps ==
  ASSUME RunInv, Played PROVE RunInv'
<1>1. view.phase = "playing" /\ view.mod = "busy" /\ UNCHANGED <<open, entry, inst, orphan>>
  BY DEF Played, Playing, server
<1> DEFINE c == [calls EXCEPT !["play"] = NoCall]
<1>2. CallEnded(calls["play"].body, c)
  BY DEF Played
<1> QED
  BY <1>1, <1>2, CallEndedKeeps

LEMMA RevealEndedKeeps ==
  ASSUME RunInv, UNCHANGED <<open, entry, inst, orphan>>, view.phase = "playing",
         view.mod = "revealing", Completes("revealing", [calls EXCEPT !["reveal"] = NoCall])
  PROVE  RunInv'
<1> DEFINE c == [calls EXCEPT !["reveal"] = NoCall]
<1>1. c \in [Ops -> [st : States, idx : Rounds, body : Bodies]]
  BY PlanFacts DEF RunInv, Typed, NoCall, States, Bodies, Ops
<1>2. /\ c["enter"] = calls["enter"]
      /\ c["play"].st # "answered" /\ c["reveal"].st # "answered"
  BY OnePlays DEF RunInv, Typed, ReplyInv, NoCall, Ops
<1>3. Completes("revealing", c)
  OBVIOUS
<1> HIDE DEF c
<1> QED
  BY <1>1, <1>2, <1>3, CompletesKeeps DEF Modules, Pending

LEMMA RevealedKeeps ==
  ASSUME RunInv, Revealed PROVE RunInv'
<1>1. view.phase = "playing" /\ view.mod = "revealing" /\ UNCHANGED <<open, entry, inst, orphan>>
  BY DEF Revealed, Playing, server
<1> QED
  BY <1>1, RevealEndedKeeps DEF Revealed

-------------------------------------------------------------------------------
(* The steps that leave the round, or are outside of one. *)

LEMMA OffRound ==
  ASSUME RunInv, Typed', UNCHANGED <<entry, inst>>,
         view'.phase \in {"home", "loading", "error", "gate"},
         view'.log \in {view.log, <<>>},
         view'.phase = "loading" => view'.log = <<>> /\ view'.idx = 0 /\ ~view'.retry,
         orphan' \in Orphans, orphan'.mod # "none" => entry.status # "none",
         calls'["enter"].st # "answered", calls'["answer"].st # "answered",
         calls'["play"].st = "answered" => orphan'.mod = "busy",
         calls'["reveal"].st = "answered" => orphan'.mod = "revealing",
         \A op \in Ops \ {"enter"} : calls[op].st = "none" => calls'[op].st = "none"
  PROVE  RunInv'
<1>1. known' = known /\ heard' \in {heard, 0} /\ (view'.log = <<>> => heard' = 0)
  BY DEF heard, known
<1>2. \A i \in 1..heard' : view'.log[i] = entry.results[i]
  BY <1>1, LenFacts DEF RunInv, HeardInv
<1>3. HeardInv'
  BY <1>1, <1>2, LenFacts DEF RunInv, HeardInv
<1>4. NoneOther => NoneOther'
  BY DEF NoneOther
<1>5. EntryInv'
  BY <1>1, <1>4 DEF RunInv, EntryInv
<1>6. OrphanInv' /\ ReplyInv' /\ PhaseInv' /\ HoldingInv'
  BY <1>1 DEF OrphanInv, ReplyInv, Runs, PhaseInv, HoldingInv
<1> QED
  BY <1>3, <1>5, <1>6 DEF RunInv

(* A call nobody waits for any more has failed. *)
LEMMA UnheardKeeps ==
  ASSUME RunInv, UNCHANGED <<open, entry, inst, view, orphan>>, NEW op \in Ops, ~Hears(op),
         calls' = [calls EXCEPT ![op] = NoCall]
  PROVE  RunInv'
<1>1. Typed'
  BY PlanFacts DEF RunInv, Typed, NoCall, States, Bodies
<1>2. heard' = heard /\ known' = known
  BY DEF heard, known
<1>3. \A o \in Ops : calls'[o] = calls[o] \/ (o = op /\ calls'[o].st = "none")
  BY DEF RunInv, Typed, NoCall
<1>4. NoneOther => NoneOther'
  BY <1>3 DEF NoneOther
<1>5. EntryInv' /\ HeardInv'
  BY <1>2, <1>4 DEF RunInv, EntryInv, HeardInv
<1>6. {"answer", "enter", "play", "reveal"} \subseteq Ops
  BY DEF Ops
<1>7. view.phase = "holding" => calls'["answer"] = calls["answer"]
  BY <1>3, <1>6 DEF Hears
<1>8. OrphanInv' /\ ReplyInv' /\ PhaseInv' /\ HoldingInv'
  BY <1>2, <1>3, <1>4, <1>6, <1>7
     DEF RunInv, OrphanInv, ReplyInv, Runs, PhaseInv, HoldingInv
<1> QED
  BY <1>1, <1>5, <1>8 DEF RunInv

(* The run is over for this screen: its enter or its answer failed or was refused. *)
LEMMA ErrorKeeps ==
  ASSUME RunInv, UNCHANGED <<open, entry, inst, orphan>>, NEW op \in {"enter", "answer"},
         Hears(op), view' = [view EXCEPT !.phase = "error"],
         calls' = [calls EXCEPT ![op] = NoCall]
  PROVE  RunInv'
<1>1. Typed'
  BY PlanFacts DEF RunInv, Typed, NoCall, States, Bodies, Phases, Ops
<1>2. view'.phase = "error" /\ view'.log = view.log
  BY DEF RunInv, Typed
<1>3. \A o \in Ops : calls'[o] = calls[o] \/ (o = op /\ calls'[o].st = "none")
  BY DEF RunInv, Typed, NoCall
<1>4. (view.phase = "loading" /\ op = "enter") \/ (view.phase = "holding" /\ op = "answer")
  BY DEF Hears
<1>5. /\ calls'["enter"].st # "answered" /\ calls'["answer"].st # "answered"
      /\ calls'["play"].st = "answered" => orphan.mod = "busy"
      /\ calls'["reveal"].st = "answered" => orphan.mod = "revealing"
  <2>1. calls'[op].st = "none" /\ \A o \in {"enter", "answer", "play", "reveal"} : o \in Ops
    BY DEF RunInv, Typed, NoCall, Ops
  <2> QED
    BY <1>3, <1>4, <2>1 DEF RunInv, ReplyInv, Runs
<1>6. orphan \in Orphans /\ (orphan.mod # "none" => entry.status # "none")
  BY DEF RunInv, OrphanInv
<1> QED
  BY <1>1, <1>2, <1>3, <1>5, <1>6, OffRound

LEMMA MountsKeeps ==
  ASSUME RunInv, Play \/ NetworkBack PROVE RunInv'
<1>1. view.phase \in {"home", "gate"} /\ Mounts
  BY DEF Play, NetworkBack
<1>2. UNCHANGED <<open, entry, inst, orphan>>
  BY <1>1 DEF Mounts, server
<1>3. Typed'
  <2>1. view' = [phase |-> "loading", idx |-> 0, retry |-> FALSE, log |-> <<>>,
                 answered |-> FALSE, mod |-> "open", picked |-> FALSE]
    BY <1>1 DEF Mounts, NoView
  <2>2. calls' \in [Ops -> [st : States, idx : Rounds, body : Bodies]]
    BY <1>1, PlanFacts DEF Mounts, RunInv, Typed, Sent, States, Bodies
  <2>3. view' \in [phase : Phases, idx : Rounds, retry : BOOLEAN, log : Seq(BOOLEAN),
                   answered : BOOLEAN, mod : Modules, picked : BOOLEAN]
    BY <2>1, PlanFacts DEF Phases, Modules
  <2> QED
    BY <1>2, <2>2, <2>3 DEF RunInv, Typed
<1>4. view'.phase = "loading" /\ view'.log = <<>> /\ view'.idx = 0 /\ ~view'.retry
  BY <1>1 DEF Mounts, NoView
<1>5. \A o \in Ops : calls'[o] = calls[o] \/ (o = "enter" /\ calls'[o].st = "sent")
  BY <1>1 DEF Mounts, RunInv, Typed, Sent
<1>6. /\ calls'["enter"].st # "answered" /\ calls'["answer"].st # "answered"
      /\ calls'["play"].st = "answered" => orphan.mod = "busy"
      /\ calls'["reveal"].st = "answered" => orphan.mod = "revealing"
  BY <1>1, <1>5 DEF RunInv, ReplyInv, Runs, Ops
<1>7. orphan \in Orphans /\ (orphan.mod # "none" => entry.status # "none")
  BY DEF RunInv, OrphanInv
<1> QED
  BY <1>2, <1>3, <1>4, <1>5, <1>6, <1>7, OffRound

LEMMA UnmountsKeeps ==
  ASSUME RunInv, Leave \/ NetworkLost PROVE RunInv'
<1>1. NoOrphan \in Orphans /\ NoOrphan.mod = "none"
  BY PlanFacts DEF NoOrphan, Orphans
<1>2. Remains \in Orphans /\ (Remains.mod # "none" => entry.status # "none")
  <2>1. CASE Playing \in Pending
    <3>1. view.phase = "playing"
      BY <2>1 DEF Playing, Pending
    <3> QED
      BY <2>1, <3>1 DEF Remains, Playing, Orphans, RunInv, Typed, PhaseInv
  <2> QED
    BY <2>1 DEF Remains, RunInv, OrphanInv
<1>3. PICK phase \in {"home", "gate"}, o \in Orphans :
        Unmounts(phase, o) /\ (o.mod # "none" => entry.status # "none")
  BY <1>1, <1>2 DEF Leave, NetworkLost
<1>4. UNCHANGED <<open, entry, inst>> /\ orphan' = o
  BY <1>3 DEF Unmounts, server
<1>5. Typed'
  <2>1. calls' \in [Ops -> [st : States, idx : Rounds, body : Bodies]]
    BY <1>3, PlanFacts DEF Unmounts, RunInv, Typed, NoCall, States, Bodies
  <2> QED
    BY <1>3, <1>4, <2>1 DEF Unmounts, RunInv, Typed, Phases
<1>6. view'.phase \in {"home", "gate"} /\ view'.log = view.log
  BY <1>3 DEF Unmounts, RunInv, Typed
<1>7. ASSUME NEW op \in Ops
      PROVE  /\ calls[op].st = "none" => calls'[op].st = "none"
             /\ calls'[op].st = "answered" => \/ op = "play" /\ o.mod = "busy"
                                              \/ op = "reveal" /\ o.mod = "revealing"
  BY <1>3 DEF Unmounts, NoCall
<1>8. /\ calls'["enter"].st # "answered" /\ calls'["answer"].st # "answered"
      /\ calls'["play"].st = "answered" => orphan'.mod = "busy"
      /\ calls'["reveal"].st = "answered" => orphan'.mod = "revealing"
  BY <1>4, <1>7 DEF Ops
<1> QED
  BY <1>3, <1>4, <1>5, <1>6, <1>7, <1>8, OffRound

LEMMA BackKeeps ==
  ASSUME RunInv, BackToHub PROVE RunInv'
<1>1. UNCHANGED <<open, entry, inst, calls, orphan>>
  BY DEF BackToHub, server
<1>2. Typed'
  BY <1>1 DEF BackToHub, RunInv, Typed, Phases
<1>3. view'.phase = "home" /\ view'.log = view.log
  BY DEF BackToHub, RunInv, Typed
<1>4. /\ calls["enter"].st # "answered" /\ calls["answer"].st # "answered"
      /\ calls["play"].st = "answered" => orphan.mod = "busy"
      /\ calls["reveal"].st = "answered" => orphan.mod = "revealing"
  BY DEF BackToHub, RunInv, ReplyInv, Runs
<1>5. orphan \in Orphans /\ (orphan.mod # "none" => entry.status # "none")
  BY DEF RunInv, OrphanInv
<1> QED
  BY <1>1, <1>2, <1>3, <1>4, <1>5, OffRound

-------------------------------------------------------------------------------
(* The steps of a round that outlived its screen. *)

LEMMA OrphanKeeps ==
  ASSUME RunInv, UNCHANGED <<open, entry, inst, view>>, orphan.mod # "none",
         orphan' \in Orphans, calls' \in [Ops -> [st : States, idx : Rounds, body : Bodies]],
         calls'["enter"] = calls["enter"], calls'["answer"].st # "answered",
         calls'["play"].st = "answered" => orphan'.mod = "busy",
         calls'["reveal"].st = "answered" => orphan'.mod = "revealing"
  PROVE  RunInv'
<1>1. heard' = heard /\ known' = known
  BY DEF heard, known
<1>2. entry.status # "none" /\ view.phase \in {"home", "loading", "error", "gate"}
  BY DEF RunInv, OrphanInv
<1>3. Typed'
  BY DEF RunInv, Typed
<1>4. EntryInv' /\ HeardInv'
  BY <1>1, <1>2 DEF RunInv, EntryInv, HeardInv
<1>5. OrphanInv' /\ ReplyInv' /\ PhaseInv' /\ HoldingInv'
  BY <1>1, <1>2 DEF RunInv, OrphanInv, ReplyInv, Runs, PhaseInv, HoldingInv
<1> QED
  BY <1>3, <1>4, <1>5 DEF RunInv

(* Only the reply that the round itself waits for is there. *)
LEMMA OrphanHears ==
  ASSUME RunInv, orphan.mod # "none"
  PROVE  /\ calls["answer"].st # "answered"
         /\ calls["play"].st = "answered" => orphan.mod = "busy"
         /\ calls["reveal"].st = "answered" => orphan.mod = "revealing"
BY DEF RunInv, OrphanInv, ReplyInv, Runs

LEMMA OrphanEndsKeeps ==
  ASSUME RunInv, UNCHANGED <<open, entry, inst, view>>, orphan.mod # "none",
         NEW c \in [Ops -> [st : States, idx : Rounds, body : Bodies]],
         c["enter"] = calls["enter"], c["play"].st # "answered", c["reveal"].st # "answered",
         OrphanEnds(c)
  PROVE  RunInv'
<1>1. Sent(orphan.idx, IF orphan.picked THEN "pick" ELSE "ok") \in
        [st : States, idx : Rounds, body : Bodies]
  BY DEF Sent, RunInv, OrphanInv, Orphans, States, Bodies
<1>2. /\ calls' \in [Ops -> [st : States, idx : Rounds, body : Bodies]]
      /\ calls'["enter"] = calls["enter"] /\ calls'["answer"].st = "sent"
      /\ calls'["play"].st # "answered" /\ calls'["reveal"].st # "answered"
  BY <1>1 DEF OrphanEnds, Sent, Ops
<1>3. orphan' \in Orphans
  BY PlanFacts DEF OrphanEnds, NoOrphan, Orphans
<1> QED
  BY <1>2, <1>3, OrphanKeeps

(* The call of such a round has ended; c are the calls without it. *)
LEMMA OrphanCallEndedKeeps ==
  ASSUME RunInv, UNCHANGED <<open, entry, inst, view>>, orphan.mod = "busy",
         NEW body, NEW c, c = [calls EXCEPT !["play"] = NoCall], OrphanCallEnded(body, c)
  PROVE  RunInv'
<1>1. c \in [Ops -> [st : States, idx : Rounds, body : Bodies]]
  BY PlanFacts DEF RunInv, Typed, NoCall, States, Bodies, Ops
<1>2. /\ c["enter"] = calls["enter"] /\ c["answer"].st # "answered"
      /\ c["play"].st # "answered" /\ c["reveal"].st # "answered"
  BY OrphanHears DEF RunInv, Typed, NoCall, Ops
<1>3. CASE OrphanEnds(c)
  BY <1>1, <1>2, <1>3, OrphanEndsKeeps
<1>4. CASE /\ orphan' = [orphan EXCEPT !.mod = "revealing"]
           /\ calls' = [c EXCEPT !["reveal"] = Sent(orphan.idx, "ok")]
  <2>1. orphan' \in Orphans
    BY <1>4 DEF RunInv, OrphanInv, Orphans, Pending
  <2>2. Sent(orphan.idx, "ok") \in [st : States, idx : Rounds, body : Bodies]
    BY DEF Sent, RunInv, OrphanInv, Orphans, States, Bodies
  <2>3. /\ calls' \in [Ops -> [st : States, idx : Rounds, body : Bodies]]
        /\ calls'["enter"] = calls["enter"] /\ calls'["answer"].st # "answered"
        /\ calls'["play"].st # "answered" /\ calls'["reveal"].st # "answered"
    BY <1>1, <1>2, <1>4, <2>2 DEF Sent, Ops
  <2> QED
    BY <2>1, <2>3, OrphanKeeps
<1>5. CASE orphan' = NoOrphan /\ calls' = c
  <2>1. orphan' \in Orphans
    BY <1>5, PlanFacts DEF NoOrphan, Orphans
  <2> QED
    BY <1>1, <1>2, <1>5, <2>1, OrphanKeeps
<1> QED
  BY <1>3, <1>4, <1>5 DEF OrphanCallEnded

LEMMA OrphanRevealKeeps ==
  ASSUME RunInv, UNCHANGED <<open, entry, inst, view>>, orphan.mod = "revealing",
         OrphanEnds([calls EXCEPT !["reveal"] = NoCall])
  PROVE  RunInv'
<1> DEFINE c == [calls EXCEPT !["reveal"] = NoCall]
<1>1. c \in [Ops -> [st : States, idx : Rounds, body : Bodies]]
  BY PlanFacts DEF RunInv, Typed, NoCall, States, Bodies, Ops
<1>2. /\ c["enter"] = calls["enter"]
      /\ c["play"].st # "answered" /\ c["reveal"].st # "answered"
  BY OrphanHears DEF RunInv, Typed, NoCall, Ops
<1>3. OrphanEnds(c)
  OBVIOUS
<1> HIDE DEF c
<1> QED
  BY <1>1, <1>2, <1>3, OrphanEndsKeeps

LEMMA OrphansKeep ==
  ASSUME RunInv, OrphanFinish \/ OrphanTap \/ OrphanPlayed \/ OrphanRevealed PROVE RunInv'
<1>1. UNCHANGED <<open, entry, inst, view>> /\ orphan.mod # "none"
  BY DEF OrphanFinish, OrphanTap, OrphanPlayed, OrphanRevealed, server
<1>2. calls \in [Ops -> [st : States, idx : Rounds, body : Bodies]]
  BY DEF RunInv, Typed
<1>3. CASE OrphanFinish
  <2>1. calls["play"].st # "answered" /\ calls["reveal"].st # "answered" /\ OrphanEnds(calls)
    BY <1>1, <1>3, OrphanHears DEF OrphanFinish
  <2> QED
    BY <1>1, <1>2, <2>1, OrphanEndsKeeps
<1>4. CASE OrphanTap
  <2>1. orphan.mod = "picked" /\ orphan' = [orphan EXCEPT !.mod = "busy"]
        /\ calls' = [calls EXCEPT !["play"] = Sent(orphan.idx, "ok")]
    BY <1>4 DEF OrphanTap
  <2>2. orphan' \in Orphans
    BY <2>1 DEF RunInv, OrphanInv, Orphans, Pending
  <2>3. Sent(orphan.idx, "ok") \in [st : States, idx : Rounds, body : Bodies]
    BY DEF Sent, RunInv, OrphanInv, Orphans, States, Bodies
  <2>4. /\ calls' \in [Ops -> [st : States, idx : Rounds, body : Bodies]]
        /\ calls'["enter"] = calls["enter"] /\ calls'["answer"].st # "answered"
        /\ calls'["play"].st = "sent" /\ calls'["reveal"].st # "answered"
    BY <1>1, <1>2, <2>1, <2>3, OrphanHears DEF Sent, Ops
  <2> QED
    BY <1>1, <2>2, <2>4, OrphanKeeps
<1>5. CASE OrphanPlayed
  <2> DEFINE c == [calls EXCEPT !["play"] = NoCall]
  <2>1. orphan.mod = "busy" /\ OrphanCallEnded(calls["play"].body, c)
    BY <1>5 DEF OrphanPlayed
  <2> QED
    BY <1>1, <2>1, OrphanCallEndedKeeps
<1>6. CASE OrphanRevealed
  BY <1>1, <1>6, OrphanRevealKeeps DEF OrphanRevealed
<1> QED
  BY <1>3, <1>4, <1>5, <1>6

-------------------------------------------------------------------------------
(* The steps of the server. *)

LEMMA ReplyFacts ==
  ASSUME Typed, NEW op \in Ops, NEW body \in Bodies, Reply(op, body)
  PROVE  /\ calls' \in [Ops -> [st : States, idx : Rounds, body : Bodies]]
         /\ \A o \in Ops : o # op => calls'[o] = calls[o]
         /\ Hears(op) => calls'[op] = [st |-> "answered", idx |-> calls[op].idx, body |-> body]
         /\ ~Hears(op) => calls'[op] = NoCall
<1>1. NoCall \in [st : States, idx : Rounds, body : Bodies]
  BY PlanFacts DEF NoCall, States, Bodies
<1> DEFINE new == [st |-> "answered", idx |-> calls[op].idx, body |-> body]
<1>2. new \in [st : States, idx : Rounds, body : Bodies]
  BY DEF Typed, States
<1>3. calls' = [calls EXCEPT ![op] = IF Hears(op) THEN new ELSE NoCall]
  BY DEF Reply
<1> HIDE DEF new
<1>4. /\ calls' \in [Ops -> [st : States, idx : Rounds, body : Bodies]]
      /\ \A o \in Ops : o # op => calls'[o] = calls[o]
      /\ Hears(op) => calls'[op] = new
      /\ ~Hears(op) => calls'[op] = NoCall
  BY <1>1, <1>2, <1>3 DEF Typed
<1> QED
  BY <1>4 DEF new

(* A served call of a module, all its effects on its instance kept. *)
LEMMA ReplyToModule ==
  ASSUME RunInv, UNCHANGED <<open, entry, view, orphan>>, NEW op \in Ops \ {"enter", "answer"},
         calls[op].st # "none", NEW body \in Bodies, Reply(op, body),
         inst' = [i \in Rounds |-> inst'[i]],
         \A i \in Rounds : inst[i].done => inst'[i].done
  PROVE  RunInv'
<1>1. /\ calls' \in [Ops -> [st : States, idx : Rounds, body : Bodies]]
      /\ \A o \in Ops : o # op => calls'[o] = calls[o]
      /\ ~Hears(op) => calls'[op] = NoCall
  BY ReplyFacts DEF RunInv
<1>2. Typed'
  BY <1>1 DEF RunInv, Typed
<1>3. calls'["answer"] = calls["answer"] /\ calls'["enter"] = calls["enter"]
  BY <1>1 DEF Ops
<1>4. calls'["play"].st = "answered" => Runs("busy")
  BY <1>1 DEF RunInv, ReplyInv, Runs, Hears, Playing, NoCall, Ops
<1>5. calls'["reveal"].st = "answered" => Runs("revealing")
  BY <1>1 DEF RunInv, ReplyInv, Runs, Hears, Playing, NoCall, Ops
<1> QED
  BY <1>2, <1>3, <1>4, <1>5, ServesModule

LEMMA ServePlayKeeps ==
  ASSUME RunInv, ServeGuess \/ ServeTap PROVE RunInv'
<1>1. /\ UNCHANGED <<open, entry, view, orphan>> /\ calls["play"].st # "none"
      /\ "play" \in Ops \ {"enter", "answer"}
  BY DEF ServeGuess, ServeTap, Ops
<1>2. \E body \in Bodies : Reply("play", body)
  BY DEF ServeGuess, ServeTap, Bodies
<1>3. \/ UNCHANGED inst
      \/ ~For("play").done /\ \E new : inst' = [inst EXCEPT ![calls["play"].idx] = new]
  BY DEF ServeGuess, ServeTap
<1>4. inst' = [i \in Rounds |-> inst'[i]]
  BY <1>3 DEF RunInv, Typed
<1>5. \A i \in Rounds : inst[i].done => inst'[i].done
  BY <1>3 DEF RunInv, Typed, For
<1> QED
  BY <1>1, <1>2, <1>4, <1>5, ReplyToModule

LEMMA ServeRevealKeeps ==
  ASSUME RunInv, ServeReveal PROVE RunInv'
<1>1. /\ UNCHANGED <<open, entry, inst, view, orphan>> /\ calls["reveal"].st # "none"
      /\ "reveal" \in Ops \ {"enter", "answer"} /\ Reply("reveal", "ok") /\ "ok" \in Bodies
  BY DEF ServeReveal, Ops, server, Bodies
<1>2. inst' = [i \in Rounds |-> inst'[i]]
  BY <1>1 DEF RunInv, Typed
<1> QED
  BY <1>1, <1>2, ReplyToModule

LEMMA CommitKeeps ==
  ASSUME RunInv, NEW op \in Asks \cup {"play"}, CommitAnswer(op) PROVE RunInv'
<1>1. /\ UNCHANGED <<open, entry, view, orphan>> /\ calls[op].st # "none"
      /\ op \in Ops \ {"enter", "answer"} /\ Reply(op, "ok") /\ "ok" \in Bodies
  BY DEF CommitAnswer, Ops, Asks, Bodies
<1>2. inst' = [i \in Rounds |-> inst'[i]]
  BY DEF RunInv, Typed, CommitAnswer
<1>3. \A i \in Rounds : inst[i].done => inst'[i].done
  BY DEF RunInv, Typed, CommitAnswer
<1> QED
  BY <1>1, <1>2, <1>3, ReplyToModule

LEMMA CountKeeps ==
  ASSUME RunInv, NEW op \in Asks \cup {"play"}, CountAnswers(op) PROVE RunInv'
<1>1. /\ UNCHANGED <<open, entry, inst, view, orphan>> /\ calls[op].st # "none"
      /\ op \in Ops \ {"enter", "answer"}
  BY DEF CountAnswers, Ops, Asks, server
<1>2. PICK st \in {"counted", "partial"} : calls' = [calls EXCEPT ![op].st = st]
  BY DEF CountAnswers
<1>3. /\ calls' \in [Ops -> [st : States, idx : Rounds, body : Bodies]]
      /\ \A o \in Ops : calls'[o] = calls[o] \/ (o = op /\ calls'[o].st = st)
  BY <1>1, <1>2, ZenonT(60) DEF RunInv, Typed, States
<1>4. Typed'
  BY <1>1, <1>3 DEF RunInv, Typed
<1>5. {"answer", "enter", "play", "reveal"} \subseteq Ops
  BY DEF Ops
<1>6. calls'["answer"] = calls["answer"] /\ calls'["enter"] = calls["enter"]
  BY <1>1, <1>3, <1>5
<1>7. /\ calls'["play"].st = "answered" => Runs("busy")
      /\ calls'["reveal"].st = "answered" => Runs("revealing")
  BY <1>3, <1>5 DEF RunInv, ReplyInv
<1> QED
  BY <1>1, <1>4, <1>6, <1>7, ServesModule

LEMMA ServeEnterKeeps ==
  ASSUME RunInv, ServeEnter PROVE RunInv'
<1>1. /\ UNCHANGED <<open, inst, view, orphan>> /\ calls["enter"].st = "sent" /\ "enter" \in Ops
      /\ heard' = heard
  BY DEF ServeEnter, Ops, heard
<1>2. CASE entry.status = "none" /\ entry' = [entry EXCEPT !.status = "in_progress"]
           /\ Reply("enter", "ok")
  <2>1. /\ calls' \in [Ops -> [st : States, idx : Rounds, body : Bodies]]
        /\ \A o \in Ops : o # "enter" => calls'[o] = calls[o]
        /\ ~Hears("enter") => calls'["enter"] = NoCall
    BY <1>1, <1>2, ReplyFacts DEF RunInv, Bodies
  <2>2. Typed'
    BY <1>1, <1>2, <2>1 DEF RunInv, Typed
  <2>3. /\ known = 0 /\ ~entry.offered /\ NoneOther
    BY <1>2 DEF RunInv, EntryInv
  <2>4. /\ known' = 0 /\ ~entry'.offered /\ NoneOther' /\ entry'.status = "in_progress"
        /\ entry'.results = entry.results
    BY <1>2, <2>1, <2>3 DEF NoneOther, known, RunInv, Typed
  <2>5. EntryInv' /\ HeardInv'
    BY <1>1, <2>3, <2>4, PlanFacts DEF RunInv, EntryInv, HeardInv
  <2>6. /\ calls'["play"] = calls["play"] /\ calls'["reveal"] = calls["reveal"]
        /\ calls'["answer"] = calls["answer"]
        /\ calls'["enter"].st = "answered" => view.phase = "loading"
    BY <2>1 DEF Ops, Hears, NoCall
  <2>7. OrphanInv' /\ ReplyInv' /\ PhaseInv' /\ HoldingInv'
    BY <1>1, <1>2, <2>4, <2>6 DEF RunInv, OrphanInv, ReplyInv, Runs, PhaseInv, HoldingInv
  <2> QED
    BY <2>2, <2>5, <2>7 DEF RunInv
<1>3. CASE UNCHANGED entry /\ Reply("enter", "refused")
  <2> "refused" \in Bodies
    BY DEF Bodies
  <2>1. /\ calls' \in [Ops -> [st : States, idx : Rounds, body : Bodies]]
        /\ \A o \in Ops : o # "enter" => calls'[o] = calls[o]
        /\ Hears("enter") => calls'["enter"] =
             [st |-> "answered", idx |-> calls["enter"].idx, body |-> "refused"]
        /\ ~Hears("enter") => calls'["enter"] = NoCall
    BY <1>1, <1>3, ReplyFacts DEF RunInv
  <2>2. Typed'
    BY <1>1, <1>3, <2>1 DEF RunInv, Typed
  <2>3. known' = known /\ (NoneOther => NoneOther')
    BY <1>3, <2>1 DEF NoneOther, known
  <2>4. EntryInv' /\ HeardInv'
    BY <1>1, <1>3, <2>3 DEF RunInv, EntryInv, HeardInv
  <2>5. /\ calls'["play"] = calls["play"] /\ calls'["reveal"] = calls["reveal"]
        /\ calls'["answer"] = calls["answer"]
        /\ calls'["enter"].st = "answered" =>
             view.phase = "loading" /\ calls'["enter"].body = "refused"
    BY <2>1 DEF Ops, Hears, NoCall
  <2>6. OrphanInv' /\ ReplyInv' /\ PhaseInv' /\ HoldingInv'
    BY <1>1, <1>3, <2>3, <2>5 DEF RunInv, OrphanInv, ReplyInv, Runs, PhaseInv, HoldingInv
  <2> QED
    BY <2>2, <2>4, <2>6 DEF RunInv
<1> QED
  BY <1>2, <1>3 DEF ServeEnter

LEMMA OneMore ==
  ASSUME NEW k \in Nat, NEW n \in {k, k + 1}, NEW i \in 0..n - 1
  PROVE  i \in 0..k - 1 \/ (i = k /\ n = k + 1)
OBVIOUS

(* The answer is served: what the reply says is what became of the entry. *)
LEMMA AnswerServed ==
  ASSUME RunInv, UNCHANGED <<open, inst, view, orphan>>, calls["answer"].st = "sent",
         NEW body \in Bodies, Reply("answer", body),
         entry' \in [status : {"none", "in_progress", "submitted"}, results : Seq(BOOLEAN),
                     offered : BOOLEAN],
         entry'.status # "none", known' \in {known, known + 1}, known' <= Total,
         (entry'.status = "submitted") <=> (known' = Total),
         \A i \in 1..known : entry'.results[i] = entry.results[i],
         known' = known + 1 => (Plan[known + 1] \in Interactive => inst[known].done),
         \/ body = "refused" /\ known' = known
         \/ body = "offered" /\ known' = known /\ entry'.offered
         \/ /\ body \in {"right", "wrong"} /\ known' = known + 1 /\ ~entry'.offered
            /\ entry'.results[known'] = (body = "right")
  PROVE  RunInv'
<1>1. /\ calls' \in [Ops -> [st : States, idx : Rounds, body : Bodies]]
      /\ \A o \in Ops : o # "answer" => calls'[o] = calls[o]
      /\ Hears("answer") => calls'["answer"] =
           [st |-> "answered", idx |-> calls["answer"].idx, body |-> body]
      /\ ~Hears("answer") => calls'["answer"] = NoCall
  BY ReplyFacts DEF RunInv, Ops
<1>2. Typed'
  BY <1>1 DEF RunInv, Typed
<1>3. heard' = heard /\ heard \in Nat /\ known \in Nat
  BY LenFacts DEF RunInv, heard
<1>4. ~NoneOther /\ calls'["play"] = calls["play"] /\ calls'["reveal"] = calls["reveal"]
      /\ calls'["enter"] = calls["enter"]
  BY <1>1 DEF NoneOther, Ops
<1>5. calls'["answer"].st = "answered" => view.phase = "holding"
  BY <1>1 DEF Hears, NoCall
<1>6. EntryInv'
  <2>1. ASSUME NEW i \in 0..known' - 1, Plan[i + 1] \in Interactive PROVE inst'[i].done
    <3>1. CASE i \in 0..known - 1
      BY <2>1, <3>1 DEF RunInv, EntryInv
    <3>2. CASE i = known /\ known' = known + 1
      BY <2>1, <3>2
    <3>3. i \in 0..known - 1 \/ (i = known /\ known' = known + 1)
      BY <1>3, OneMore
    <3> QED
      BY <3>1, <3>2, <3>3
  <2> QED
    BY <2>1 DEF EntryInv
<1>7. HeardInv'
  <2>1. ASSUME NEW i \in 1..heard PROVE view.log[i] = entry'.results[i]
    BY <1>3, <2>1 DEF RunInv, HeardInv
  <2> QED
    BY <1>3, <2>1 DEF RunInv, HeardInv
<1>8. OrphanInv' /\ ReplyInv'
  BY <1>3, <1>4, <1>5 DEF RunInv, OrphanInv, ReplyInv, Runs
<1>9. PhaseInv'
  BY <1>3, PlanFacts DEF RunInv, PhaseInv
<1>10. HoldingInv'
  <2> SUFFICES ASSUME view.phase = "holding" PROVE HoldingInv'
    BY DEF HoldingInv
  <2>1. heard = view.idx /\ calls["answer"].idx = view.idx /\ known = view.idx
    BY DEF RunInv, HoldingInv
  <2>2. calls'["answer"] = [st |-> "answered", idx |-> view.idx, body |-> body]
    BY <1>1, <2>1 DEF Hears
  <2> QED
    BY <1>3, <2>1, <2>2 DEF HoldingInv
<1> QED
  BY <1>2, <1>6, <1>7, <1>8, <1>9, <1>10 DEF RunInv

LEMMA ServeAnswerKeeps ==
  ASSUME RunInv, ServeAnswer PROVE RunInv'
<1>1. UNCHANGED <<open, inst, view, orphan>> /\ calls["answer"].st = "sent"
  BY DEF ServeAnswer
<1>2. known \in Nat /\ known <= Total /\ Total \in Nat
  BY LenFacts, PlanFacts DEF RunInv, EntryInv
<1>3. entry.status # "none" /\ ((entry.status = "submitted") <=> (known = Total))
  BY <1>1 DEF RunInv, EntryInv, NoneOther, Ops
<1>4. CASE UNCHANGED entry /\ Reply("answer", "refused")
  <2>1. known' = known /\ "refused" \in Bodies
    BY <1>4 DEF known, Bodies
  <2> QED
    BY <1>1, <1>2, <1>3, <1>4, <2>1, AnswerServed DEF RunInv, Typed
<1>5. CASE Offers
  <2>1. entry' = [entry EXCEPT !.offered = TRUE]
    BY <1>5 DEF Offers
  <2> Reply("answer", "offered") /\ "offered" \in Bodies
    BY <1>5 DEF Offers, Bodies
  <2>2. /\ entry' \in [status : {"none", "in_progress", "submitted"}, results : Seq(BOOLEAN),
                       offered : BOOLEAN]
        /\ entry'.status = entry.status /\ entry'.results = entry.results /\ entry'.offered
    BY <2>1 DEF RunInv, Typed
  <2>3. known' = known
    BY <2>2 DEF known
  <2> QED
    BY <1>1, <1>2, <1>3, <2>2, <2>3, AnswerServed
<1>6. ASSUME NEW correct \in BOOLEAN, ~Refuses, Records(correct) PROVE RunInv'
  <2>1. /\ entry.status = "in_progress" /\ calls["answer"].idx = known
        /\ Kind(calls["answer"].idx) \in Interactive => For("answer").done
    BY <1>6 DEF Refuses, known
  <2>2. known < Total
    BY <1>2, <1>3, <2>1
  <2>3. entry' = [status |-> IF known + 1 = Total THEN "submitted" ELSE "in_progress",
                  results |-> Append(entry.results, correct), offered |-> FALSE]
    BY <1>6 DEF Records, known
  <2>4. entry.results \in Seq(BOOLEAN) /\ known = Len(entry.results)
    BY DEF RunInv, Typed, known
  <2>5. /\ known' = known + 1 /\ entry'.results[known + 1] = correct
        /\ \A i \in 1..known : entry'.results[i] = entry.results[i]
    BY <2>3, <2>4 DEF known
  <2>6. entry' \in [status : {"none", "in_progress", "submitted"}, results : Seq(BOOLEAN),
                    offered : BOOLEAN]
    BY <2>3, <2>4
  <2>7. /\ entry'.status # "none" /\ ~entry'.offered
        /\ (entry'.status = "submitted") <=> (known' = Total)
    BY <2>3, <2>5
  <2>8. Plan[known + 1] \in Interactive => inst[known].done
    BY <2>1 DEF Kind, For
  <2>9. PICK body \in {"right", "wrong"} :
          Reply("answer", body) /\ correct = (body = "right")
    BY <1>6 DEF Records
  <2>10. body \in Bodies
    BY DEF Bodies
  <2> QED
    BY <1>1, <1>2, <2>2, <2>5, <2>6, <2>7, <2>8, <2>9, <2>10, AnswerServed
<1> QED
  BY <1>4, <1>5, <1>6 DEF ServeAnswer

-------------------------------------------------------------------------------
(* The steps from round to round. *)

LEMMA EnteredKeeps ==
  ASSUME RunInv, Entered PROVE RunInv'
<1>1. calls["enter"].st = "answered" /\ view.phase = "loading" /\ UNCHANGED <<open, entry, inst, orphan>>
  BY DEF Entered, server, RunInv, ReplyInv
<1>2. CASE calls["enter"].body = "ok"
  <2>1. /\ known = 0 /\ heard = 0 /\ ~entry.offered /\ NoneOther /\ orphan.mod = "none"
        /\ entry.status = "in_progress" /\ view.idx = 0 /\ ~view.retry
    BY <1>1, <1>2 DEF RunInv, ReplyInv
  <2>2. view' = [view EXCEPT !.phase = "splash"] /\ calls' = [calls EXCEPT !["enter"] = NoCall]
    BY <1>2 DEF Entered
  <2>3. Typed'
    BY <1>1, <2>2, PlanFacts DEF RunInv, Typed, NoCall, States, Bodies, Phases
  <2>4. /\ view'.phase = "splash" /\ view'.log = view.log /\ view'.idx = 0
        /\ view'.retry = view.retry
    BY <2>1, <2>2 DEF RunInv, Typed
  <2>5. heard' = 0 /\ known' = 0
    BY <1>1, <2>1, <2>4 DEF heard, known
  <2>6. \A o \in Ops : calls'[o].st = "none"
    BY <2>1, <2>2 DEF NoneOther, NoCall, RunInv, Typed
  <2>7. {"answer", "enter", "play", "reveal"} \subseteq Ops
    BY DEF Ops
  <2>8. EntryInv' /\ HeardInv'
    BY <1>1, <2>1, <2>4, <2>5, <2>6, PlanFacts DEF RunInv, EntryInv, HeardInv
  <2>9. view'.retry = entry'.offered
    BY <1>1, <2>1, <2>4 DEF RunInv, Typed
  <2>10. OrphanInv' /\ ReplyInv' /\ PhaseInv' /\ HoldingInv'
    BY <1>1, <2>1, <2>4, <2>5, <2>6, <2>7, <2>9
       DEF RunInv, OrphanInv, ReplyInv, PhaseInv, HoldingInv
  <2> QED
    BY <2>3, <2>8, <2>10 DEF RunInv
<1>3. CASE calls["enter"].body # "ok"
  <2>1. view' = [view EXCEPT !.phase = "error"] /\ calls' = [calls EXCEPT !["enter"] = NoCall]
    BY <1>3 DEF Entered
  <2> QED
    BY <1>1, <2>1, ErrorKeeps DEF Hears
<1> QED
  BY <1>2, <1>3

LEMMA SplashKeeps ==
  ASSUME RunInv, SplashDone PROVE RunInv'
<1>1. view.phase = "splash" /\ UNCHANGED <<open, entry, inst, calls, orphan>>
  BY DEF SplashDone, server
<1>2. PICK mod \in Modules : view' = [view EXCEPT !.phase = "playing", !.answered = FALSE,
                                                 !.picked = FALSE, !.mod = mod]
  BY DEF SplashDone, Mounted, Modules
<1>3. Typed'
  BY <1>1, <1>2 DEF RunInv, Typed, Phases
<1>4. /\ view'.phase = "playing" /\ view'.idx = view.idx /\ view'.log = view.log
      /\ view'.retry = view.retry
  BY <1>2 DEF RunInv, Typed
<1>5. heard' = heard /\ known' = known
  BY <1>1, <1>4 DEF heard, known
<1>6. EntryInv' /\ HeardInv'
  BY <1>1, <1>4, <1>5 DEF RunInv, EntryInv, HeardInv, NoneOther
<1>7. /\ calls["play"].st # "answered" /\ calls["reveal"].st # "answered"
      /\ calls["enter"].st # "answered" /\ orphan.mod = "none" /\ orphan \in Orphans
  BY <1>1, OnePlays DEF RunInv, OrphanInv, ReplyInv
<1>8. OrphanInv' /\ ReplyInv' /\ PhaseInv' /\ HoldingInv'
  BY <1>1, <1>4, <1>5, <1>7 DEF RunInv, OrphanInv, ReplyInv, PhaseInv, HoldingInv
<1> QED
  BY <1>3, <1>6, <1>8 DEF RunInv

LEMMA RevealDoneKeeps ==
  ASSUME RunInv, RevealDone PROVE RunInv'
<1>1. /\ view.phase = "reveal" /\ UNCHANGED <<open, entry, inst, calls, orphan>>
      /\ heard = view.idx + 1 /\ known = heard /\ ~entry.offered /\ entry.status # "none"
      /\ calls["answer"].st = "none"
  BY DEF RevealDone, server, RunInv, PhaseInv
<1>2. view.idx \in 0..Total - 1 /\ Total \in Nat
  BY LenFacts, PlanFacts DEF RunInv
<1>3. /\ calls["play"].st # "answered" /\ calls["reveal"].st # "answered"
      /\ calls["enter"].st # "answered" /\ orphan.mod = "none" /\ orphan \in Orphans
  BY <1>1, OnePlays DEF RunInv, OrphanInv, ReplyInv
<1>4. CASE view' = [view EXCEPT !.phase = "report"] /\ view.idx + 1 >= Total
  <2>1. Typed'
    BY <1>1, <1>4 DEF RunInv, Typed, Phases
  <2>2. view'.phase = "report" /\ view'.log = view.log
    BY <1>4 DEF RunInv, Typed
  <2>3. heard' = heard /\ known' = known /\ heard = Total
    BY <1>1, <1>2, <1>4, <2>2 DEF heard, known
  <2>4. EntryInv' /\ HeardInv'
    BY <1>1, <2>2, <2>3 DEF RunInv, EntryInv, HeardInv, NoneOther
  <2>5. OrphanInv' /\ ReplyInv' /\ PhaseInv' /\ HoldingInv'
    BY <1>1, <1>3, <2>2, <2>3 DEF OrphanInv, ReplyInv, PhaseInv, HoldingInv
  <2> QED
    BY <2>1, <2>4, <2>5 DEF RunInv
<1>5. CASE view' = [view EXCEPT !.phase = "splash", !.idx = @ + 1, !.retry = FALSE]
           /\ view.idx + 1 < Total
  <2>1. view.idx + 1 \in Rounds
    BY <1>2, <1>5, PlanFacts
  <2>2. Typed'
    BY <1>1, <1>5, <2>1 DEF RunInv, Typed, Phases
  <2>3. /\ view'.phase = "splash" /\ view'.log = view.log /\ view'.idx = view.idx + 1
        /\ view'.retry = FALSE
    BY <1>5 DEF RunInv, Typed
  <2>4. heard' = heard /\ known' = known
    BY <1>1, <2>3 DEF heard, known
  <2>5. EntryInv' /\ HeardInv'
    BY <1>1, <2>3, <2>4 DEF RunInv, EntryInv, HeardInv, NoneOther
  <2>6. entry.offered = FALSE
    BY <1>1 DEF RunInv, Typed
  <2>7. OrphanInv' /\ ReplyInv' /\ PhaseInv' /\ HoldingInv'
    BY <1>1, <1>3, <2>3, <2>4, <2>6 DEF OrphanInv, ReplyInv, PhaseInv, HoldingInv
  <2> QED
    BY <2>2, <2>5, <2>7 DEF RunInv
<1> QED
  BY <1>2, <1>4, <1>5 DEF RevealDone, Advanced

LEMMA VerdictKeeps ==
  ASSUME RunInv, Verdict PROVE RunInv'
<1>1. /\ calls["answer"].st = "answered" /\ view.phase = "holding"
      /\ UNCHANGED <<open, entry, inst, orphan>> /\ calls' = [calls EXCEPT !["answer"] = NoCall]
  BY DEF Verdict, server, RunInv, ReplyInv
<1>2. /\ calls' \in [Ops -> [st : States, idx : Rounds, body : Bodies]]
      /\ calls'["answer"].st = "none" /\ calls'["play"] = calls["play"]
      /\ calls'["reveal"] = calls["reveal"] /\ calls'["enter"] = calls["enter"]
  BY <1>1, PlanFacts DEF RunInv, Typed, NoCall, States, Bodies, Ops
<1>3. /\ calls["play"].st # "answered" /\ calls["reveal"].st # "answered"
      /\ calls["enter"].st # "answered" /\ entry.status # "none" /\ heard = view.idx
      /\ orphan.mod = "none" /\ orphan \in Orphans
  BY <1>1, OnePlays DEF RunInv, OrphanInv, ReplyInv, PhaseInv, HoldingInv
<1>4. known' = known /\ known \in Nat /\ view.idx \in 0..Total - 1 /\ heard \in Nat
  BY <1>1, LenFacts DEF RunInv, known
<1>5. EntryInv'
  BY <1>1, <1>3, <1>4 DEF RunInv, EntryInv
<1>6. CASE calls["answer"].body = "refused"
  <2>1. view' = [view EXCEPT !.phase = "error"]
    BY <1>6 DEF Verdict
  <2> QED
    BY <1>1, <2>1, ErrorKeeps DEF Hears
<1>7. CASE calls["answer"].body = "offered"
  <2>1. view' = [view EXCEPT !.phase = "playing", !.answered = FALSE, !.retry = TRUE,
                             !.mod = "open"]
    BY <1>7 DEF Verdict, Judged, Rearmed
  <2>2. known = view.idx /\ entry.offered = TRUE
    BY <1>1, <1>7 DEF RunInv, HoldingInv, Typed
  <2>3. Typed'
    BY <1>1, <1>2, <2>1 DEF RunInv, Typed, Phases, Modules
  <2>4. /\ view'.phase = "playing" /\ view'.log = view.log /\ view'.idx = view.idx
        /\ view'.retry = TRUE
    BY <2>1 DEF RunInv, Typed
  <2>5. heard' = heard
    BY <2>4 DEF heard
  <2>6. HeardInv'
    BY <1>1, <1>4, <2>4, <2>5 DEF RunInv, HeardInv
  <2>7. OrphanInv' /\ ReplyInv' /\ PhaseInv' /\ HoldingInv'
    BY <1>1, <1>2, <1>3, <1>4, <2>2, <2>4, <2>5 DEF OrphanInv, ReplyInv, PhaseInv, HoldingInv
  <2> QED
    BY <1>5, <2>3, <2>6, <2>7 DEF RunInv
<1>8. CASE calls["answer"].body \notin {"refused", "offered"}
  <2> DEFINE right == calls["answer"].body = "right"
  <2>1. view' = [view EXCEPT !.log = Append(@, right), !.phase = "reveal"]
    BY <1>8 DEF Verdict, Judged
  <2>2. known = view.idx + 1 /\ ~entry.offered /\ entry.results[known] = right
    BY <1>1, <1>8 DEF RunInv, HoldingInv
  <2>3. right \in BOOLEAN
    OBVIOUS
  <2> HIDE DEF right
  <2>4. view.log \in Seq(BOOLEAN) /\ heard = Len(view.log)
    BY DEF RunInv, Typed, heard
  <2>5. Append(view.log, right) \in Seq(BOOLEAN)
    BY <2>3, <2>4
  <2>6. Typed'
    BY <1>1, <1>2, <2>1, <2>5 DEF RunInv, Typed, Phases
  <2>7. /\ view'.phase = "reveal" /\ view'.log = Append(view.log, right)
        /\ view'.idx = view.idx
    BY <2>1 DEF RunInv, Typed
  <2>8. /\ heard' = heard + 1 /\ view'.log[heard + 1] = right
        /\ \A i \in 1..heard : view'.log[i] = view.log[i]
    BY <2>3, <2>4, <2>7 DEF heard
  <2>9. HeardInv'
    <3>1. ASSUME NEW i \in 1..heard + 1 PROVE view'.log[i] = entry.results[i]
      <4>1. CASE i \in 1..heard
        BY <2>8, <4>1 DEF RunInv, HeardInv
      <4>2. CASE i = heard + 1
        BY <1>3, <2>2, <2>8, <4>2
      <4> QED
        BY <1>4, <4>1, <4>2
    <3> QED
      BY <1>1, <1>3, <1>4, <2>2, <2>8, <3>1 DEF HeardInv
  <2>10. OrphanInv' /\ ReplyInv' /\ PhaseInv' /\ HoldingInv'
    BY <1>1, <1>2, <1>3, <1>4, <2>2, <2>7, <2>8 DEF OrphanInv, ReplyInv, PhaseInv, HoldingInv
  <2> QED
    BY <1>5, <2>6, <2>9, <2>10 DEF RunInv
<1> QED
  BY <1>6, <1>7, <1>8

-------------------------------------------------------------------------------
(* What may go wrong, and nothing at all. *)

LEMMA FailKeeps ==
  ASSUME RunInv, NEW op \in Ops, Fail(op) PROVE RunInv'
<1>1. UNCHANGED <<open, entry, inst>>
  BY DEF Fail, server
<1> DEFINE lost == [calls EXCEPT ![op] = NoCall]
<1>2. CASE ~Hears(op)
  <2>1. UNCHANGED <<view, orphan>> /\ calls' = lost
    BY <1>2 DEF Fail
  <2> QED
    BY <1>1, <1>2, <2>1, UnheardKeeps
<1>3. CASE Hears(op) /\ op \in {"enter", "answer"}
  <2>1. view' = [view EXCEPT !.phase = "error"] /\ UNCHANGED orphan /\ calls' = lost
    BY <1>3 DEF Fail
  <2> QED
    BY <1>1, <1>3, <2>1, ErrorKeeps
<1>4. CASE Hears(op) /\ op = "play"
  <2>1. lost = [calls EXCEPT !["play"] = NoCall]
    BY <1>4
  <2>2. \/ Playing = "busy" /\ CallEnded("refused", lost) /\ UNCHANGED orphan
        \/ Playing # "busy" /\ OrphanCallEnded("refused", lost) /\ UNCHANGED view
    BY <1>4 DEF Fail
  <2>3. Playing = "busy" => view.phase = "playing" /\ view.mod = "busy"
    BY DEF Playing
  <2>4. Playing # "busy" => orphan.mod = "busy"
    BY <1>4 DEF Hears
  <2> HIDE DEF lost
  <2> QED
    BY <1>1, <2>1, <2>2, <2>3, <2>4, CallEndedKeeps, OrphanCallEndedKeeps
<1>5. CASE Hears(op) /\ op \notin {"enter", "answer", "play"}
  <2>1. op = "reveal"
    BY <1>5 DEF Hears
  <2>2. LET c == [calls EXCEPT !["reveal"] = NoCall]
        IN \/ Playing = "revealing" /\ Completes("revealing", c) /\ UNCHANGED orphan
           \/ Playing # "revealing" /\ OrphanEnds(c) /\ UNCHANGED view
    BY <1>5, <2>1 DEF Fail
  <2>3. Playing = "revealing" => view.phase = "playing" /\ view.mod = "revealing"
    BY DEF Playing
  <2>4. Playing # "revealing" => orphan.mod = "revealing"
    BY <1>5, <2>1 DEF Hears
  <2> QED
    BY <1>1, <2>2, <2>3, <2>4, RevealEndedKeeps, OrphanRevealKeeps
<1> QED
  BY <1>2, <1>3, <1>4, <1>5

LEMMA SameKeeps ==
  ASSUME RunInv, CloseWindow \/ UNCHANGED vars PROVE RunInv'
<1>1. UNCHANGED <<entry, inst, view, orphan, calls>> /\ open' \in BOOLEAN
  BY DEF CloseWindow, vars, server, RunInv, Typed
<1>2. heard' = heard /\ known' = known /\ (NoneOther <=> NoneOther')
  BY <1>1 DEF heard, known, NoneOther
<1>3. Typed'
  BY <1>1 DEF RunInv, Typed
<1>4. EntryInv' /\ HeardInv'
  BY <1>1, <1>2 DEF RunInv, EntryInv, HeardInv
<1>5. OrphanInv' /\ ReplyInv' /\ PhaseInv' /\ HoldingInv'
  BY <1>1, <1>2 DEF RunInv, OrphanInv, ReplyInv, Runs, PhaseInv, HoldingInv
<1> QED
  BY <1>3, <1>4, <1>5 DEF RunInv

LEMMA NextKeeps == RunInv /\ [Next]_vars => RunInv'
<1> SUFFICES ASSUME RunInv, [Next]_vars PROVE RunInv'
  OBVIOUS
<1>1. CASE PlayerStep \/ Guess \/ ScreenStep
  <2>1. CASE Play \/ NetworkBack
    BY <2>1, MountsKeeps
  <2>2. CASE Entered
    BY <2>2, EnteredKeeps
  <2>3. CASE SplashDone
    BY <2>3, SplashKeeps
  <2>4. CASE Verdict
    BY <2>4, VerdictKeeps
  <2>5. CASE RevealDone
    BY <2>5, RevealDoneKeeps
  <2>6. CASE BackToHub
    BY <2>6, BackKeeps
  <2>7. CASE Choose \/ PlayWaves \/ Tap \/ ClipEnds \/ ClipStalls
    BY <2>7, ChooseKeeps
  <2>8. CASE Guess \/ SubmitTap \/ AskLast \/ \E q \in Asks : Ask(q)
    BY <2>8, SendKeeps
  <2>9. CASE Finish
    BY <2>9, FinishKeeps
  <2>10. CASE Played
    BY <2>10, PlayedKeeps
  <2>11. CASE Revealed
    BY <2>11, RevealedKeeps
  <2>12. CASE OrphanFinish \/ OrphanTap \/ OrphanPlayed \/ OrphanRevealed
    BY <2>12, OrphansKeep
  <2> QED
    BY <1>1, <2>1, <2>2, <2>3, <2>4, <2>5, <2>6, <2>7, <2>8, <2>9, <2>10, <2>11, <2>12
       DEF PlayerStep, ScreenStep
<1>2. CASE ServerStep
  <2>1. CASE ServeEnter
    BY <2>1, ServeEnterKeeps
  <2>2. CASE ServeAnswer
    BY <2>2, ServeAnswerKeeps
  <2>3. CASE ServeGuess \/ ServeTap
    BY <2>3, ServePlayKeeps
  <2>4. CASE ServeReveal
    BY <2>4, ServeRevealKeeps
  <2>5. CASE \E op \in Asks \cup {"play"} : CountAnswers(op) \/ CommitAnswer(op)
    BY <2>5, CountKeeps, CommitKeeps
  <2> QED
    BY <1>2, <2>1, <2>2, <2>3, <2>4, <2>5 DEF ServerStep
<1>3. CASE Leave \/ NetworkLost
  BY <1>3, UnmountsKeeps
<1>4. CASE \E op \in Ops : Fail(op)
  BY <1>4, FailKeeps
<1>5. CASE CloseWindow \/ UNCHANGED vars
  BY <1>5, SameKeeps
<1> QED
  BY <1>1, <1>2, <1>3, <1>4, <1>5 DEF Next

LEMMA RunInvSays == RunInv => ReportIsTheRun
<1> SUFFICES ASSUME RunInv PROVE ReportIsTheRun
  OBVIOUS
<1>1. heard = Len(view.log) /\ known = Len(entry.results)
  BY DEF heard, known
<1>2. view.phase = "holding" => heard = view.idx /\ known \in {view.idx, view.idx + 1}
  BY DEF RunInv, HoldingInv
<1>3. view.phase = "report" => entry.status = "submitted" /\ view.log = entry.results
  <2> SUFFICES ASSUME view.phase = "report"
               PROVE  entry.status = "submitted" /\ view.log = entry.results
    OBVIOUS
  <2>1. known = Total /\ heard = Total /\ entry.status = "submitted"
    BY DEF RunInv, PhaseInv, EntryInv
  <2>2. view.log \in Seq(BOOLEAN) /\ entry.results \in Seq(BOOLEAN)
    BY DEF RunInv, Typed
  <2>3. \A i \in 1..heard : view.log[i] = entry.results[i]
    BY DEF RunInv, HeardInv
  <2>4. Len(view.log) = Len(entry.results) /\ \A i \in 1..Len(view.log) : view.log[i] = entry.results[i]
    BY <1>1, <2>1, <2>3
  <2>5. view.log = entry.results
    BY <2>2, <2>4, SeqEqual
  <2> QED
    BY <2>1, <2>5
<1>4. /\ heard <= known /\ \A i \in 1..heard : view.log[i] = entry.results[i]
      /\ \A i \in 0..known - 1 : Plan[i + 1] \in Interactive => inst[i].done
  BY DEF RunInv, HeardInv, EntryInv
<1>5. /\ view.phase = "splash" => heard = view.idx /\ known = view.idx
      /\ view.phase = "playing" =>
           heard = view.idx /\ known = view.idx /\ view.retry = entry.offered
      /\ view.phase = "reveal" => heard = view.idx + 1 /\ known = heard
  BY DEF RunInv, PhaseInv
<1> QED
  BY <1>1, <1>2, <1>3, <1>4, <1>5 DEF ReportIsTheRun

(* Through second chances, lost replies, remounts and answers nobody awaits, for any plan *)
(* of rounds and any number of mishaps, what the screen has heard is what answer_round    *)
(* has recorded, and the report is the run.                                               *)
THEOREM RunReported == Spec => []ReportIsTheRun
<1>1. Spec => []RunInv
  BY InitRun, NextKeeps, PTL DEF Spec
<1> QED
  BY <1>1, RunInvSays, PTL

-------------------------------------------------------------------------------
(* The type invariant: the tries of an instance stay within the kind of its round. *)

Tries(i) ==
  /\ inst[i].tries \in SUBSET Nat /\ inst[i].done \in BOOLEAN
  /\ inst[i].done => inst[i].tries # {}
  /\ Kind(i) = "estimate" =>
       \E k \in 0..MaxGuesses : inst[i].tries = 1..k /\ (k = MaxGuesses => inst[i].done)
  /\ Kind(i) # "estimate" => inst[i].tries \subseteq 0..2

\* Only answers to a video are counted.
Counting == \A op \in Ops : calls[op].st \in {"counted", "partial"} => Kind(calls[op].idx) = "video"

InstInv == inst = [i \in Rounds |-> [tries |-> inst[i].tries, done |-> inst[i].done]]
           /\ \A i \in Rounds : Tries(i)
HistInv == mishaps \in 0..MaxMishaps /\ excused \in BOOLEAN
HeldInv == view.phase = "holding" => view.answered

TypeInv == RunInv /\ InstInv /\ Counting /\ HistInv /\ HeldInv

LEMMA InitTypes == Init => TypeInv
<1> SUFFICES ASSUME Init PROVE TypeInv
  OBVIOUS
<1>1. MaxGuesses \in Nat \ {0} /\ MaxMishaps \in Nat
  BY RankedRunAssumption DEF RankedRunAssumption
<1>2. \A i \in Rounds : inst[i] = [tries |-> {}, done |-> FALSE]
  BY DEF Init
<1>3. ASSUME NEW i \in Rounds PROVE Tries(i)
  <2>1. {} = 1..0 /\ 0 \in 0..MaxGuesses /\ 0 # MaxGuesses
    BY <1>1
  <2>2. inst[i].tries = {} /\ inst[i].done = FALSE
    BY <1>2
  <2>3. \E k \in 0..MaxGuesses : inst[i].tries = 1..k /\ (k = MaxGuesses => inst[i].done)
    BY <2>1, <2>2
  <2> QED
    BY <2>2, <2>3 DEF Tries
<1>4. InstInv
  BY <1>2, <1>3 DEF Init, InstInv
<1>5. HistInv /\ HeldInv
  <2>1. mishaps \in 0..MaxMishaps
    BY <1>1 DEF Init
  <2>2. excused \in BOOLEAN /\ view.phase # "holding"
    BY DEF Init, NoView
  <2> QED
    BY <2>1, <2>2 DEF HistInv, HeldInv
<1>6. \A op \in Ops : calls[op].st = "none"
  BY DEF Init, NoCall
<1>7. Counting
  BY <1>6 DEF Counting
<1> QED
  BY <1>4, <1>5, <1>7, InitRun DEF TypeInv

(* What a step does to calls other than to count them. *)
LEMMA NotCounted ==
  ASSUME Counting, \A op \in Ops : calls'[op] = calls[op] \/ calls'[op].st \in {"none", "sent", "answered"}
  PROVE  Counting'
BY DEF Counting, Kind

LEMMA SameInst ==
  ASSUME InstInv, UNCHANGED inst PROVE InstInv'
BY DEF InstInv, Tries, Kind

LEMMA ReplyNotCounted ==
  ASSUME TypeInv, NEW op \in Ops, NEW body \in Bodies, Reply(op, body) PROVE Counting'
<1>1. ASSUME NEW o \in Ops
      PROVE  calls'[o] = calls[o] \/ calls'[o].st \in {"none", "sent", "answered"}
  <2>1. CASE o # op
    BY <2>1, ReplyFacts DEF TypeInv, RunInv
  <2>2. CASE o = op /\ Hears(op)
    <3>1. calls'[op] = [st |-> "answered", idx |-> calls[op].idx, body |-> body]
      BY <2>2, ReplyFacts DEF TypeInv, RunInv
    <3> QED
      BY <2>2, <3>1
  <2>3. CASE o = op /\ ~Hears(op)
    <3>1. calls'[op] = NoCall
      BY <2>3, ReplyFacts DEF TypeInv, RunInv
    <3> QED
      BY <2>3, <3>1 DEF NoCall
  <2> QED
    BY <2>1, <2>2, <2>3
<1> QED
  BY <1>1, NotCounted DEF TypeInv

LEMMA CompletesNotCounted ==
  ASSUME TypeInv, NEW mod, NEW c \in [Ops -> [st : States, idx : Rounds, body : Bodies]], Completes(mod, c),
         \A op \in Ops : c[op] = calls[op] \/ c[op].st = "none"
  PROVE  Counting' /\ HeldInv'
<1>1. \A o \in Ops : calls'[o] = c[o] \/ calls'[o].st = "sent"
  BY DEF Completes, Sent
<1>2. Counting'
  BY <1>1, NotCounted DEF TypeInv
<1>3. HeldInv'
  BY DEF Completes, HeldInv, TypeInv, RunInv, Typed
<1> QED
  BY <1>2, <1>3

LEMMA CallEndedNotCounted ==
  ASSUME TypeInv, NEW body, NEW c, c = [calls EXCEPT !["play"] = NoCall], view.phase = "playing",
         CallEnded(body, c)
  PROVE  Counting' /\ HeldInv'
<1>1. c \in [Ops -> [st : States, idx : Rounds, body : Bodies]]
  BY PlanFacts DEF TypeInv, RunInv, Typed, NoCall, States, Bodies, Ops
<1>2. \A op \in Ops : c[op] = calls[op] \/ c[op].st = "none"
  BY DEF TypeInv, RunInv, Typed, NoCall
<1>3. CASE Completes("busy", c)
  BY <1>1, <1>2, <1>3, CompletesNotCounted
<1>4. CASE Moves("revealing") /\ calls' = [c EXCEPT !["reveal"] = Sent(view.idx, "ok")]
  <2>1. \A o \in Ops : calls'[o] = calls[o] \/ calls'[o].st \in {"none", "sent", "answered"}
    BY <1>1, <1>2, <1>4 DEF Sent
  <2> QED
    BY <1>4, <2>1, NotCounted DEF Moves, HeldInv, TypeInv, RunInv, Typed
<1>5. CASE Moves("open") /\ calls' = c
  BY <1>2, <1>5, NotCounted DEF Moves, HeldInv, TypeInv, RunInv, Typed
<1> QED
  BY <1>3, <1>4, <1>5 DEF CallEnded

\* The parts of TypeInv that a step of the screen, or one that fails a call, can disturb.
Moved == Counting' /\ HeldInv'

LEMMA ViewTypes ==
  ASSUME TypeInv,
         \/ Play \/ NetworkBack \/ Entered \/ SplashDone \/ RevealDone \/ BackToHub
         \/ Choose \/ PlayWaves \/ Guess \/ Tap \/ SubmitTap \/ ClipEnds \/ AskLast
         \/ ClipStalls \/ \E q \in Asks : Ask(q)
         \/ Leave \/ NetworkLost
  PROVE  Moved
<1>1. view'.phase # "holding" \/ (view.phase = "holding" /\ UNCHANGED view)
  <2>1. CASE Play \/ NetworkBack
    BY <2>1 DEF Play, NetworkBack, Mounts, NoView
  <2>2. CASE Entered \/ SplashDone \/ RevealDone \/ BackToHub
    BY <2>2 DEF Entered, SplashDone, RevealDone, Advanced, BackToHub, TypeInv, RunInv, Typed
  <2>3. CASE Choose \/ PlayWaves \/ Guess \/ Tap \/ SubmitTap \/ ClipEnds \/ AskLast
             \/ ClipStalls \/ \E q \in Asks : Ask(q)
    BY <2>3 DEF Choose, PlayWaves, Guess, Tap, SubmitTap, ClipEnds, ClipStalls, AskLast, Ask,
                On, Moves, Submits, TypeInv, RunInv, Typed
  <2>4. CASE Leave \/ NetworkLost
    BY <2>4 DEF Leave, NetworkLost, Unmounts, TypeInv, RunInv, Typed
  <2> QED
    BY <2>1, <2>2, <2>3, <2>4
<1>2. ASSUME NEW o \in Ops
      PROVE  calls'[o] = calls[o] \/ calls'[o].st \in {"none", "sent", "answered"}
  <2>1. CASE Play \/ NetworkBack
    BY <2>1 DEF Play, NetworkBack, Mounts, Sent, TypeInv, RunInv, Typed
  <2>2. CASE Entered
    BY <2>2 DEF Entered, NoCall, TypeInv, RunInv, Typed
  <2>3. CASE SplashDone \/ RevealDone \/ BackToHub \/ Choose \/ PlayWaves \/ Tap \/ ClipEnds
             \/ ClipStalls
    BY <2>3 DEF SplashDone, RevealDone, BackToHub, Choose, PlayWaves, Tap, ClipEnds, ClipStalls
  <2>4. CASE Guess \/ SubmitTap \/ AskLast \/ \E q \in Asks : Ask(q)
    BY <2>4 DEF Guess, SubmitTap, AskLast, Ask, Submits, Sent, TypeInv, RunInv, Typed
  <2>5. CASE Leave \/ NetworkLost
    BY <2>5 DEF Leave, NetworkLost, Unmounts, NoCall
  <2> QED
    BY <2>1, <2>2, <2>3, <2>4, <2>5
<1> QED
  BY <1>1, <1>2, NotCounted DEF Moved, HeldInv, TypeInv

LEMMA VerdictTypes ==
  ASSUME TypeInv, Verdict PROVE Moved
<1>1. view'.phase # "holding"
  BY DEF Verdict, Judged, Rearmed, TypeInv, RunInv, Typed
<1>2. \A o \in Ops : calls'[o] = calls[o] \/ calls'[o].st = "none"
  BY DEF Verdict, NoCall, TypeInv, RunInv, Typed
<1> QED
  BY <1>1, <1>2, NotCounted DEF Moved, HeldInv, TypeInv

LEMMA EndTypes ==
  ASSUME TypeInv, Finish \/ Played \/ Revealed PROVE Moved
<1>1. CASE Finish
  <2>1. Completes("picked", calls)
    BY <1>1 DEF Finish
  <2> QED
    BY <2>1, CompletesNotCounted DEF Moved, TypeInv, RunInv, Typed
<1>2. CASE Played
  <2>1. view.phase = "playing"
    BY <1>2 DEF Played, Playing
  <2> DEFINE c == [calls EXCEPT !["play"] = NoCall]
  <2>2. CallEnded(calls["play"].body, c)
    BY <1>2 DEF Played
  <2> QED
    BY <2>1, <2>2, CallEndedNotCounted DEF Moved
<1>3. CASE Revealed
  <2> DEFINE c == [calls EXCEPT !["reveal"] = NoCall]
  <2>1. c \in [Ops -> [st : States, idx : Rounds, body : Bodies]]
    BY PlanFacts DEF TypeInv, RunInv, Typed, NoCall, States, Bodies, Ops
  <2>2. \A op \in Ops : c[op] = calls[op] \/ c[op].st = "none"
    BY DEF TypeInv, RunInv, Typed, NoCall
  <2>3. Completes("revealing", c)
    BY <1>3 DEF Revealed
  <2> HIDE DEF c
  <2> QED
    BY <2>1, <2>2, <2>3, CompletesNotCounted DEF Moved
<1> QED
  BY <1>1, <1>2, <1>3

(* A round without a screen only ends a call and sends another. *)
LEMMA OrphanNotCounted ==
  ASSUME TypeInv, UNCHANGED view, NEW c,
         \A op \in Ops : c[op] = calls[op] \/ c[op].st = "none",
         c \in [Ops -> [st : States, idx : Rounds, body : Bodies]],
         \/ calls' = c
         \/ \E op \in Ops : \E i, body : calls' = [c EXCEPT ![op] = Sent(i, body)]
  PROVE  Moved
<1>1. \A o \in Ops : calls'[o] = calls[o] \/ calls'[o].st \in {"none", "sent", "answered"}
  BY DEF Sent
<1> QED
  BY <1>1, NotCounted DEF Moved, HeldInv, TypeInv

LEMMA LostCall ==
  ASSUME TypeInv, NEW op \in Ops
  PROVE  /\ [calls EXCEPT ![op] = NoCall] \in [Ops -> [st : States, idx : Rounds, body : Bodies]]
         /\ \A o \in Ops : \/ [calls EXCEPT ![op] = NoCall][o] = calls[o]
                           \/ [calls EXCEPT ![op] = NoCall][o].st = "none"
BY PlanFacts DEF TypeInv, RunInv, Typed, NoCall, States, Bodies

LEMMA OrphanCalls ==
  ASSUME NEW c, NEW body, OrphanEnds(c) \/ OrphanCallEnded(body, c)
  PROVE  \/ calls' = c
         \/ \E op \in Ops : \E i, b : calls' = [c EXCEPT ![op] = Sent(i, b)]
BY DEF OrphanEnds, OrphanCallEnded, Ops

LEMMA OrphanTypes ==
  ASSUME TypeInv, OrphanFinish \/ OrphanTap \/ OrphanPlayed \/ OrphanRevealed PROVE Moved
<1>1. UNCHANGED view /\ {"play", "reveal"} \subseteq Ops
  BY DEF OrphanFinish, OrphanTap, OrphanPlayed, OrphanRevealed, Ops
<1>2. PICK c : /\ c = calls \/ \E op \in Ops : c = [calls EXCEPT ![op] = NoCall]
               /\ \/ calls' = c
                  \/ \E op \in Ops : \E i, body : calls' = [c EXCEPT ![op] = Sent(i, body)]
  <2>1. CASE OrphanFinish
    BY <2>1, OrphanCalls DEF OrphanFinish
  <2>2. CASE OrphanTap
    BY <1>1, <2>2 DEF OrphanTap
  <2>3. CASE OrphanPlayed
    <3> DEFINE d == [calls EXCEPT !["play"] = NoCall]
    <3>1. OrphanCallEnded(calls["play"].body, d)
      BY <2>3 DEF OrphanPlayed
    <3>2. d = [calls EXCEPT !["play"] = NoCall]
      OBVIOUS
    <3> HIDE DEF d
    <3> QED
      BY <1>1, <3>1, <3>2, OrphanCalls
  <2>4. CASE OrphanRevealed
    <3> DEFINE d == [calls EXCEPT !["reveal"] = NoCall]
    <3>1. OrphanEnds(d)
      BY <2>4 DEF OrphanRevealed
    <3>2. d = [calls EXCEPT !["reveal"] = NoCall]
      OBVIOUS
    <3> HIDE DEF d
    <3> QED
      BY <1>1, <3>1, <3>2, OrphanCalls
  <2> QED
    BY <2>1, <2>2, <2>3, <2>4
<1>3. /\ \A op \in Ops : c[op] = calls[op] \/ c[op].st = "none"
      /\ c \in [Ops -> [st : States, idx : Rounds, body : Bodies]]
  BY <1>2, LostCall DEF TypeInv, RunInv, Typed
<1> QED
  BY <1>1, <1>2, <1>3, OrphanNotCounted

LEMMA FailTypes ==
  ASSUME TypeInv, NEW op \in Ops, Fail(op) PROVE Moved
<1> DEFINE lost == [calls EXCEPT ![op] = NoCall]
<1>1. lost \in [Ops -> [st : States, idx : Rounds, body : Bodies]]
  BY LostCall
<1>2. \A o \in Ops : lost[o] = calls[o] \/ lost[o].st = "none"
  BY LostCall
<1>3. CASE ~Hears(op) \/ op \in {"enter", "answer"}
  <2>1. calls' = lost /\ (UNCHANGED view \/ view' = [view EXCEPT !.phase = "error"])
    BY <1>3 DEF Fail
  <2>2. UNCHANGED view \/ view'.phase = "error"
    BY <2>1 DEF TypeInv, RunInv, Typed
  <2> HIDE DEF lost
  <2> QED
    BY <1>2, <2>1, <2>2, NotCounted DEF Moved, HeldInv, TypeInv
<1>4. CASE Hears(op) /\ op = "play"
  <2>1. lost = [calls EXCEPT !["play"] = NoCall]
    BY <1>4
  <2>2. \/ Playing = "busy" /\ CallEnded("refused", lost)
        \/ OrphanCallEnded("refused", lost) /\ UNCHANGED view
    BY <1>4 DEF Fail
  <2>3. Playing = "busy" => view.phase = "playing"
    BY DEF Playing
  <2> HIDE DEF lost
  <2>4. CASE Playing = "busy" /\ CallEnded("refused", lost)
    BY <2>1, <2>3, <2>4, CallEndedNotCounted DEF Moved
  <2>5. CASE OrphanCallEnded("refused", lost) /\ UNCHANGED view
    BY <1>1, <1>2, <2>5, OrphanCalls, OrphanNotCounted
  <2> QED
    BY <2>2, <2>4, <2>5
<1>5. CASE Hears(op) /\ op \notin {"enter", "answer", "play"}
  <2>1. Completes("revealing", lost) \/ (OrphanEnds(lost) /\ UNCHANGED view)
    BY <1>5 DEF Fail
  <2> HIDE DEF lost
  <2>2. CASE Completes("revealing", lost)
    BY <1>1, <1>2, <2>2, CompletesNotCounted DEF Moved
  <2>3. CASE OrphanEnds(lost) /\ UNCHANGED view
    BY <1>1, <1>2, <2>3, OrphanCalls, OrphanNotCounted
  <2> QED
    BY <2>1, <2>2, <2>3
<1> QED
  BY <1>3, <1>4, <1>5

LEMMA ServerTypes ==
  ASSUME TypeInv, ServeEnter \/ ServeAnswer \/ ServeReveal
                  \/ \E op \in Asks \cup {"play"} : CountAnswers(op)
  PROVE  Counting' /\ InstInv'
<1>1. UNCHANGED inst
  BY DEF ServeEnter, ServeAnswer, ServeReveal, CountAnswers, server
<1>2. CASE ServeEnter \/ ServeAnswer \/ ServeReveal
  <2>1. \E op \in Ops, body \in Bodies : Reply(op, body)
    BY <1>2 DEF ServeEnter, ServeAnswer, ServeReveal, Offers, Records, Ops, Bodies
  <2> QED
    BY <1>1, <2>1, ReplyNotCounted, SameInst DEF TypeInv
<1>3. ASSUME NEW op \in Asks \cup {"play"}, CountAnswers(op) PROVE Counting'
  <2>1. Kind(calls[op].idx) = "video" /\ op \in Ops
    BY <1>3 DEF CountAnswers, Ops, Asks
  <2>2. PICK st : calls' = [calls EXCEPT ![op].st = st]
    BY <1>3 DEF CountAnswers
  <2>3. /\ \A o \in Ops : o # op => calls'[o] = calls[o]
        /\ calls'[op].idx = calls[op].idx
    BY <2>1, <2>2 DEF TypeInv, RunInv, Typed
  <2> QED
    BY <2>1, <2>3 DEF Counting, Kind, TypeInv
<1> QED
  BY <1>1, <1>2, <1>3, SameInst DEF TypeInv

(* An instance's new contents fit the kind of its round. *)
LEMMA InstMoves ==
  ASSUME InstInv, NEW i \in Rounds, NEW tries \in SUBSET Nat, NEW done \in BOOLEAN,
         inst' = [inst EXCEPT ![i] = [tries |-> tries, done |-> done]], done => tries # {},
         Kind(i) = "estimate" =>
           \E k \in 0..MaxGuesses : tries = 1..k /\ (k = MaxGuesses => done),
         Kind(i) # "estimate" => tries \subseteq 0..2
  PROVE  InstInv'
<1>1. inst'[i] = [tries |-> tries, done |-> done]
      /\ \A j \in Rounds : j # i => inst'[j] = inst[j]
  BY DEF InstInv
<1>2. Tries(i)'
  <2>1. inst'[i].tries = tries /\ inst'[i].done = done
    BY <1>1
  <2>2. \/ Kind(i) # "estimate"
        \/ \E k \in 0..MaxGuesses : inst'[i].tries = 1..k /\ (k = MaxGuesses => inst'[i].done)
    BY <2>1
  <2>3. inst'[i].tries \in SUBSET Nat /\ inst'[i].done \in BOOLEAN
        /\ (inst'[i].done => inst'[i].tries # {})
    BY <2>1
  <2>4. Kind(i) # "estimate" => inst'[i].tries \subseteq 0..2
    BY <2>1
  <2> QED
    BY <2>2, <2>3, <2>4 DEF Tries, Kind
<1>3. \A j \in Rounds : j # i => Tries(j)'
  BY <1>1 DEF InstInv, Tries, Kind
<1>4. inst' = [j \in Rounds |-> [tries |-> inst'[j].tries, done |-> inst'[j].done]]
  BY DEF InstInv
<1> QED
  BY <1>2, <1>3, <1>4 DEF InstInv

LEMMA GuessTypes ==
  ASSUME TypeInv, ServeGuess PROVE InstInv'
<1> DEFINE i == calls["play"].idx
<1>1. i \in Rounds /\ Kind(i) = "estimate"
  BY DEF ServeGuess, TypeInv, RunInv, Typed, Ops
<1>2. CASE UNCHANGED inst
  BY <1>2, SameInst DEF TypeInv
<1>3. ASSUME NEW correct \in BOOLEAN, ~inst[i].done,
             inst' = [inst EXCEPT ![i] =
               [tries |-> inst[i].tries \cup {Cardinality(inst[i].tries) + 1},
                done |-> OverAfter(Cardinality(inst[i].tries) + 1, correct)]]
      PROVE  InstInv'
  <2>1. PICK k \in 0..MaxGuesses : inst[i].tries = 1..k /\ k # MaxGuesses
    BY <1>1, <1>3 DEF TypeInv, InstInv, Tries
  <2>2. k \in Nat /\ MaxGuesses \in Nat /\ k + 1 \in 0..MaxGuesses
    BY <2>1, RankedRunAssumption DEF RankedRunAssumption
  <2>3. Cardinality(1..k) = k
    BY <2>2, FS_Interval
  <2>4. 1..k \cup {k + 1} = 1..(k + 1)
    BY <2>2
  <2> DEFINE done == OverAfter(k + 1, correct)
  <2>5. inst' = [inst EXCEPT ![i] = [tries |-> 1..(k + 1), done |-> done]]
    BY <1>3, <2>1, <2>3, <2>4
  <2>6. done \in BOOLEAN /\ (k + 1 = MaxGuesses => done)
    <3>1. k + 1 = MaxGuesses => k + 1 >= MaxGuesses
      BY <2>2
    <3> QED
      BY <3>1 DEF OverAfter
  <2>7. 1..(k + 1) \in SUBSET Nat /\ 1..(k + 1) # {}
    BY <2>2
  <2> HIDE DEF i, done
  <2> QED
    BY <1>1, <2>2, <2>5, <2>6, <2>7, InstMoves DEF TypeInv
<1> QED
  BY <1>2, <1>3 DEF ServeGuess, For

LEMMA TapTypes ==
  ASSUME TypeInv, ServeTap PROVE InstInv'
<1> DEFINE i == calls["play"].idx
<1>1. i \in Rounds /\ Kind(i) # "estimate"
  BY DEF ServeTap, TypeInv, RunInv, Typed, Ops
<1>2. CASE UNCHANGED inst
  BY <1>2, SameInst DEF TypeInv
<1>3. CASE inst' = [inst EXCEPT ![i] = [tries |-> {1}, done |-> TRUE]]
  <2>1. {1} \in SUBSET Nat /\ {1} # {} /\ {1} \subseteq 0..2
    OBVIOUS
  <2> HIDE DEF i
  <2> QED
    BY <1>1, <1>3, <2>1, InstMoves DEF TypeInv
<1> QED
  BY <1>2, <1>3 DEF ServeTap

LEMMA CommitTypes ==
  ASSUME TypeInv, NEW op \in Asks \cup {"play"}, CommitAnswer(op) PROVE InstInv'
<1> DEFINE i == calls[op].idx
           tries == inst[i].tries \cup {Question(op)}
           done == inst[i].done \/ calls[op].st = "counted"
<1>1. op \in Ops
  BY DEF Ops, Asks
<1>2. i \in Rounds /\ Kind(i) = "video"
  BY <1>1 DEF CommitAnswer, Counting, TypeInv, RunInv, Typed
<1>3. inst' = [inst EXCEPT ![i] = [tries |-> tries, done |-> done]]
  BY DEF CommitAnswer
<1>4. Question(op) \in 0..2
  BY DEF Question, Asks
<1>5. inst[i].tries \subseteq 0..2
  BY <1>2 DEF TypeInv, InstInv, Tries
<1>6. tries \in SUBSET Nat /\ tries # {} /\ tries \subseteq 0..2
  BY <1>4, <1>5
<1>7. done \in BOOLEAN
  OBVIOUS
<1> HIDE DEF i, tries, done
<1> QED
  BY <1>2, <1>3, <1>6, <1>7, InstMoves DEF TypeInv

LEMMA HistKeeps ==
  ASSUME TypeInv, [Next]_vars PROVE HistInv'
<1>1. mishaps \in 0..MaxMishaps /\ MaxMishaps \in Nat
  BY RankedRunAssumption, SMTT(40) DEF TypeInv, HistInv, RankedRunAssumption
<1>2. UNCHANGED mishaps \/ Mishap
  <2>1. CASE UNCHANGED vars \/ PlayerStep \/ Guess \/ ScreenStep
    BY <2>1
       DEF vars, PlayerStep, ScreenStep, Play, NetworkBack, Mounts, Entered, SplashDone, Verdict,
           RevealDone, BackToHub, Choose, PlayWaves, Finish, Guess, Tap, SubmitTap, ClipEnds,
           ClipStalls, AskLast, Played, Revealed, Ask, OrphanFinish, OrphanTap,
           OrphanPlayed, OrphanRevealed
  <2>2. CASE ServerStep
    BY <2>2
       DEF ServerStep, ServeEnter, ServeAnswer, ServeGuess, ServeTap, ServeReveal,
           CountAnswers, CommitAnswer
  <2>3. CASE CloseWindow \/ Leave \/ NetworkLost \/ \E op \in Ops : Fail(op)
    BY <2>3 DEF CloseWindow, Leave, NetworkLost, Fail
  <2> QED
    BY <2>1, <2>2, <2>3 DEF Next
<1>3. mishaps' \in 0..MaxMishaps
  BY <1>1, <1>2 DEF Mishap
<1>4. excused \in BOOLEAN
  BY DEF TypeInv, HistInv
<1>5. excused' \in BOOLEAN
  <2>1. CASE UNCHANGED vars \/ PlayerStep \/ Guess \/ ScreenStep
    BY <1>4, <2>1
       DEF vars, PlayerStep, ScreenStep, Play, NetworkBack, Mounts, Entered, SplashDone, Verdict,
           RevealDone, BackToHub, Choose, PlayWaves, Finish, Guess, Tap, SubmitTap, ClipEnds,
           ClipStalls, AskLast, Played, Revealed, Ask, OrphanFinish, OrphanTap,
           OrphanPlayed, OrphanRevealed
  <2>2. CASE ServerStep
    BY <1>4, <2>2
       DEF ServerStep, ServeEnter, ServeAnswer, ServeGuess, ServeTap, ServeReveal,
           CountAnswers, CommitAnswer
  <2>3. CASE CloseWindow \/ Leave \/ NetworkLost \/ \E op \in Ops : Fail(op)
    BY <2>3 DEF CloseWindow, Leave, NetworkLost, Unmounts, Fail
  <2> QED
    BY <2>1, <2>2, <2>3 DEF Next
<1> QED
  BY <1>3, <1>5 DEF HistInv

LEMMA TypesKeep == TypeInv /\ [Next]_vars => TypeInv'
<1> SUFFICES ASSUME TypeInv, [Next]_vars PROVE TypeInv'
  OBVIOUS
<1>1. RunInv'
  BY NextKeeps DEF TypeInv
<1>2. HistInv'
  BY HistKeeps
<1>3. Counting' /\ HeldInv' /\ InstInv'
  <2>1. CASE PlayerStep \/ Guess \/ ScreenStep \/ Leave \/ NetworkLost \/ \E op \in Ops : Fail(op)
    <3>1. Moved
      BY <2>1, ViewTypes, VerdictTypes, EndTypes, OrphanTypes, FailTypes
         DEF PlayerStep, ScreenStep
    <3>2. UNCHANGED inst
      BY <2>1
         DEF PlayerStep, ScreenStep, Play, NetworkBack, Mounts, Entered, SplashDone, Verdict, RevealDone,
             BackToHub, Choose, PlayWaves, Finish, Guess, Tap, SubmitTap, ClipEnds, AskLast,
             ClipStalls, Played, Revealed, Ask, OrphanFinish, OrphanTap, OrphanPlayed,
             OrphanRevealed, Leave, NetworkLost, Unmounts, Fail, server
    <3> QED
      BY <3>1, <3>2, SameInst DEF Moved, TypeInv
  <2>2. CASE CloseWindow \/ UNCHANGED vars
    <3>1. UNCHANGED <<inst, view, calls>>
      BY <2>2 DEF CloseWindow, vars, server
    <3> QED
      BY <3>1, SameInst, NotCounted DEF HeldInv, TypeInv
  <2>3. CASE ServerStep
    <3>1. HeldInv'
      BY <2>3
         DEF ServerStep, ServeEnter, ServeAnswer, ServeGuess, ServeTap, ServeReveal,
             CountAnswers, CommitAnswer, HeldInv, TypeInv
    <3>2. CASE ServeEnter \/ ServeAnswer \/ ServeReveal
               \/ \E op \in Asks \cup {"play"} : CountAnswers(op)
      BY <3>1, <3>2, ServerTypes
    <3>3. CASE ServeGuess \/ ServeTap
      <4>1. \E body \in Bodies : Reply("play", body)
        BY <3>3 DEF ServeGuess, ServeTap, Bodies
      <4>2. Counting'
        BY <4>1, ReplyNotCounted DEF Ops
      <4> QED
        BY <3>1, <3>3, <4>2, GuessTypes, TapTypes
    <3>4. ASSUME NEW op \in Asks \cup {"play"}, CommitAnswer(op) PROVE Counting' /\ InstInv'
      <4>1. Reply(op, "ok") /\ op \in Ops /\ "ok" \in Bodies
        BY <3>4 DEF CommitAnswer, Ops, Asks, Bodies
      <4> QED
        BY <3>4, <4>1, ReplyNotCounted, CommitTypes
    <3> QED
      BY <2>3, <3>1, <3>2, <3>3, <3>4 DEF ServerStep
  <2> QED
    BY <2>1, <2>2, <2>3 DEF Next
<1> QED
  BY <1>1, <1>2, <1>3 DEF TypeInv

LEMMA TypeInvSays == TypeInv => TypeOK
<1> SUFFICES ASSUME TypeInv PROVE TypeOK
  OBVIOUS
<1>1. Typed /\ EntryInv
  BY DEF TypeInv, RunInv
<1>2. ASSUME NEW i \in Rounds
      PROVE  /\ inst[i].tries \subseteq 0..MaxGuesses + 2
             /\ inst[i].done => inst[i].tries # {}
  <2>1. Tries(i) /\ MaxGuesses \in Nat
    BY RankedRunAssumption DEF TypeInv, InstInv, RankedRunAssumption
  <2>2. CASE Kind(i) = "estimate"
    <3>1. PICK k \in 0..MaxGuesses : inst[i].tries = 1..k
      BY <2>1, <2>2 DEF Tries
    <3>2. 1..k \subseteq 0..MaxGuesses + 2
      BY <2>1
    <3> QED
      BY <2>1, <3>1, <3>2 DEF Tries
  <2>3. CASE Kind(i) # "estimate"
    <3>1. 0..2 \subseteq 0..MaxGuesses + 2
      BY <2>1
    <3> QED
      BY <2>1, <2>3, <3>1 DEF Tries
  <2> QED
    BY <2>2, <2>3
<1>3. /\ Len(entry.results) <= Total
      /\ (entry.status = "submitted") <=> (Len(entry.results) = Total)
  BY <1>1 DEF EntryInv, known
<1>4. /\ open \in BOOLEAN
      /\ entry \in [status : {"none", "in_progress", "submitted"}, results : Seq(BOOLEAN),
                    offered : BOOLEAN]
      /\ view.phase \in Phases /\ view.idx \in Rounds /\ view.log \in Seq(BOOLEAN)
      /\ view.picked \in BOOLEAN /\ view.mod \in Modules
  BY <1>1 DEF Typed
<1>5. \A op \in Ops : calls[op].st \in States /\ calls[op].body \in Bodies /\ calls[op].idx \in Rounds
  BY <1>1 DEF Typed
<1>6. mishaps \in 0..MaxMishaps /\ excused \in BOOLEAN /\ (view.phase = "holding" => view.answered)
  BY DEF TypeInv, HistInv, HeldInv
<1>7. /\ orphan \in [idx : Rounds, mod : Pending \cup {"none"}, picked : BOOLEAN]
      /\ orphan.mod # "none" =>
           entry.status # "none" /\ view.phase \in {"home", "loading", "error", "gate"}
  BY DEF TypeInv, RunInv, OrphanInv, Orphans
<1> QED
  BY <1>2, <1>3, <1>4, <1>5, <1>6, <1>7 DEF TypeOK, Phases, Modules, States

(* Every variable keeps its type; in particular an entry is submitted exactly when it has *)
(* all its rounds, an instance that is over was tried, and a round that outlived its      *)
(* screen belongs to a run that was entered and never runs beside a round on screen.      *)
THEOREM RunTypes == Spec => []TypeOK
<1>1. Spec => []TypeInv
  BY InitTypes, TypesKeep, PTL DEF Spec
<1> QED
  BY <1>1, TypeInvSays, PTL
===============================================================================
