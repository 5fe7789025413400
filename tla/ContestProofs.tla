---------------------------- MODULE ContestProofs ----------------------------
(***************************************************************************)
(* Proofs about Contest for every number of players, requests and rounds   *)
(* and every schedule of the window: the field that was ranked stays as it *)
(* was (from the assumption that no request outlives the grace period),    *)
(* the rounds of an entry are recorded once and in order, and scored one   *)
(* by one they are what a batch re-score gives.                            *)
(***************************************************************************)
EXTENDS Contest, FiniteSetTheorems, TLAPS

(* The clock is a number and the window is in one of its four states. *)
WindowInv ==
    /\ clock \in Nat
    /\ wstate \in {"SCHEDULED", "OPEN", "CLOSED", "SETTLED"}

(* A request in flight arrived before the close and is not too old. *)
RequestInv ==
    \A r \in Reqs : req[r] # Idle =>
        /\ "at" \in DOMAIN req[r]
        /\ req[r].at \in Nat
        /\ req[r].at < CloseAt
        /\ clock <= req[r].at + Patience

(* A window is settled only when the grace period is over. *)
GraceInv == wstate = "SETTLED" => clock >= CloseAt + Grace

(* req is a function, so that an update is one. *)
ReqInv == req = [r \in Reqs |-> req[r]]

SettledInv ==
    /\ WindowInv
    /\ ReqInv
    /\ RequestInv
    /\ GraceInv
    /\ NoLateSubmit

-----------------------------------------------------------------------------
LEMMA Bounds ==
    /\ OpenAt \in Nat /\ CloseAt \in Nat /\ Grace \in Nat
    /\ Patience \in Nat /\ Patience <= Grace
BY ContestAssumption DEF ContestAssumption

(* While a request is in flight the window is not settled. *)
LEMMA InFlight ==
    ASSUME SettledInv, NEW r \in Reqs, req[r] # Idle
    PROVE  wstate # "SETTLED"
<1>1. /\ clock \in Nat /\ req[r].at \in Nat /\ req[r].at < CloseAt
      /\ clock <= req[r].at + Patience
  BY DEF SettledInv, RequestInv, WindowInv
<1>2. clock < CloseAt + Grace
  BY <1>1, Bounds
<1> QED
  BY <1>1, <1>2, Bounds DEF SettledInv, GraceInv

(* A transition neither makes nor unmakes a settled window. *)
LEMMA DueKeepsSettled ==
    ASSUME NEW s \in {"SCHEDULED", "OPEN", "CLOSED", "SETTLED"}, NEW t \in Nat
    PROVE  /\ Due(s, t) \in {"SCHEDULED", "OPEN", "CLOSED", "SETTLED"}
           /\ Due(s, t) = "SETTLED" <=> s = "SETTLED"
BY DEF Due

(* A window that is open by the clock has not reached its close. *)
LEMMA DueOpen ==
    ASSUME NEW s \in {"SCHEDULED", "OPEN", "CLOSED", "SETTLED"}, NEW t \in Nat,
           Due(s, t) = "OPEN"
    PROVE  t < CloseAt
BY Bounds DEF Due

LEMMA InitSettled == Init => SettledInv
<1> SUFFICES ASSUME Init PROVE SettledInv
  OBVIOUS
<1>1. WindowInv /\ ReqInv /\ RequestInv /\ GraceInv /\ NoLateSubmit
  BY DEF Init, WindowInv, ReqInv, RequestInv, GraceInv, NoLateSubmit
<1> QED
  BY <1>1 DEF SettledInv

(* A request that goes from one step to the next keeps its arrival time. *)
LEMMA QuietStep ==
    ASSUME SettledInv, NEW r \in Reqs, NEW q,
           req' = [req EXCEPT ![r] = q],
           q # Idle => /\ "at" \in DOMAIN q
                       /\ q.at \in Nat
                       /\ q.at < CloseAt
                       /\ clock <= q.at + Patience,
           UNCHANGED <<clock, wstate, entry, standings>>
    PROVE  SettledInv'
<1>1. WindowInv' /\ GraceInv'
  BY DEF SettledInv, WindowInv, GraceInv
<1>2. ReqInv'
  BY DEF SettledInv, ReqInv
<1>3. RequestInv'
  <2> SUFFICES ASSUME NEW s \in Reqs, req'[s] # Idle
               PROVE  /\ "at" \in DOMAIN req'[s]
                      /\ req'[s].at \in Nat
                      /\ req'[s].at < CloseAt
                      /\ clock <= req'[s].at + Patience
    BY DEF RequestInv
  <2>1. CASE s = r
    BY <2>1 DEF SettledInv, ReqInv
  <2>2. CASE s # r
    BY <2>2 DEF SettledInv, ReqInv, RequestInv
  <2> QED
    BY <2>1, <2>2
<1>4. NoLateSubmit'
  BY DEF SettledInv, NoLateSubmit, Submitted, Entered
<1> QED
  BY <1>1, <1>2, <1>3, <1>4 DEF SettledInv

(* A request in flight that goes on as q, which arrived when it did. *)
LEMMA GoesOn ==
    ASSUME SettledInv, NEW r \in Reqs, req[r] # Idle, NEW q,
           q # Idle => "at" \in DOMAIN q /\ q.at = req[r].at,
           req' = [req EXCEPT ![r] = q],
           UNCHANGED <<clock, wstate, entry, standings>>
    PROVE  SettledInv'
<1>1. /\ req[r].at \in Nat
      /\ req[r].at < CloseAt
      /\ clock <= req[r].at + Patience
  BY DEF SettledInv, RequestInv
<1> QED
  BY <1>1, QuietStep

-----------------------------------------------------------------------------
LEMMA TickStep == ASSUME SettledInv, Tick PROVE SettledInv'
<1>1. clock \in Nat /\ clock' = clock + 1 /\ UNCHANGED <<wstate, entry, standings, req>>
  BY DEF Tick, windowVars, entryVars, SettledInv, WindowInv
<1>2. WindowInv' /\ ReqInv' /\ NoLateSubmit'
  BY <1>1 DEF SettledInv, WindowInv, ReqInv, NoLateSubmit, Submitted, Entered
<1>3. GraceInv'
  BY <1>1, Bounds DEF SettledInv, GraceInv
<1>4. RequestInv'
  <2> SUFFICES ASSUME NEW r \in Reqs, req[r] # Idle
               PROVE  /\ "at" \in DOMAIN req[r]
                      /\ req[r].at \in Nat
                      /\ req[r].at < CloseAt
                      /\ clock' <= req[r].at + Patience
    BY <1>1 DEF RequestInv
  <2>1. "at" \in DOMAIN req[r] /\ req[r].at \in Nat /\ req[r].at < CloseAt
    BY DEF SettledInv, RequestInv
  <2>2. clock < req[r].at + Patience
    BY DEF Tick
  <2> QED
    BY <1>1, <2>1, <2>2, Bounds
<1> QED
  BY <1>2, <1>3, <1>4 DEF SettledInv

LEMMA TransitionStep == ASSUME SettledInv, TransitionWindows PROVE SettledInv'
<1>1. /\ clock \in Nat
      /\ wstate \in {"SCHEDULED", "OPEN", "CLOSED", "SETTLED"}
      /\ wstate' = Due(wstate, clock)
      /\ wstate' # wstate
      /\ UNCHANGED <<clock, entry, standings, req>>
  BY DEF TransitionWindows, entryVars, SettledInv, WindowInv
<1>2. wstate' \in {"SCHEDULED", "OPEN", "CLOSED", "SETTLED"} /\ wstate' # "SETTLED"
  BY <1>1, DueKeepsSettled
<1> QED
  BY <1>1, <1>2 DEF SettledInv, WindowInv, ReqInv, RequestInv, GraceInv, NoLateSubmit

LEMMA SettleStep == ASSUME SettledInv, Settle PROVE SettledInv'
<1>1. /\ clock >= CloseAt + Grace
      /\ wstate' = "SETTLED"
      /\ standings' = {u \in Users : Submitted(u)}
      /\ UNCHANGED <<clock, entry, req>>
  BY DEF Settle, entryVars
<1>2. NoLateSubmit'
  BY <1>1 DEF NoLateSubmit, Submitted, Entered
<1> QED
  BY <1>1, <1>2 DEF SettledInv, WindowInv, ReqInv, RequestInv, GraceInv

(* What changes neither the clock, the window, an entry nor a request. *)
LEMMA ElsewhereStep ==
    ASSUME SettledInv, UNCHANGED <<clock, wstate, entry, standings, req>>
    PROVE  SettledInv'
BY DEF SettledInv, WindowInv, ReqInv, RequestInv, GraceInv, NoLateSubmit,
       Submitted, Entered

-----------------------------------------------------------------------------
LEMMA StartEnterStep ==
    ASSUME SettledInv, NEW r \in Reqs, NEW u \in Users, StartEnter(r, u)
    PROVE  SettledInv'
<1>1. clock \in Nat /\ clock < CloseAt
  BY DueOpen DEF StartEnter, SettledInv, WindowInv
<1> DEFINE plan == CASE slot # "royale" -> Nothing
                     [] slot = "royale" /\ pinned # Nothing -> pinned
                     [] OTHER -> content
           q == [pc |-> "entering", user |-> u, at |-> clock, plan |-> plan,
                 bank |-> content, moves |-> wstate # "OPEN",
                 pins |-> slot = "royale" /\ pinned = Nothing]
<1>2. req' = [req EXCEPT ![r] = q]
  BY DEF StartEnter
<1>3. UNCHANGED <<clock, wstate, entry, standings>>
  BY DEF StartEnter, windowVars, entryVars
<1> HIDE DEF plan
<1>4. "at" \in DOMAIN q /\ q.at = clock
  OBVIOUS
<1> HIDE DEF q
<1>5. q.at \in Nat /\ q.at < CloseAt /\ clock <= q.at + Patience
  BY <1>1, <1>4, Bounds
<1> QED
  BY <1>1, <1>2, <1>3, <1>4, <1>5, QuietStep

LEMMA InsertEntryStep ==
    ASSUME SettledInv, NEW r \in Reqs, InsertEntry(r)
    PROVE  SettledInv'
<1>1. req[r] # Idle /\ "at" \in DOMAIN req[r]
  BY DEF InsertEntry, Idle, SettledInv, RequestInv
<1> DEFINE q == [req[r] EXCEPT !.pc = "inserted", !.bank = content]
<1>2. req' = [req EXCEPT ![r] = q]
  BY DEF InsertEntry, SettledInv, ReqInv
<1>3. "at" \in DOMAIN q /\ q.at = req[r].at
  BY <1>1
<1>4. UNCHANGED <<clock, wstate, entry, standings>>
  BY DEF InsertEntry, windowVars, entryVars
<1> HIDE DEF q
<1> QED
  BY <1>1, <1>2, <1>3, <1>4, GoesOn

LEMMA FlushStep ==
    ASSUME SettledInv, NEW r \in Reqs, Flush(r)
    PROVE  SettledInv'
<1>1. req[r] # Idle /\ "at" \in DOMAIN req[r]
  BY DEF Flush, Idle, SettledInv, RequestInv
<1> DEFINE q == [req[r] EXCEPT !.pc = "flushed"]
<1>2. req' = [req EXCEPT ![r] = q]
  BY DEF Flush, SettledInv, ReqInv
<1>3. "at" \in DOMAIN q /\ q.at = req[r].at
  BY <1>1
<1>4. UNCHANGED <<clock, wstate, entry, standings>>
  BY DEF Flush, windowVars, entryVars
<1> HIDE DEF q
<1> QED
  BY <1>1, <1>2, <1>3, <1>4, GoesOn

(* submit_entry and answer_round are let in before the close only. *)
LEMMA StartPlayStep ==
    ASSUME SettledInv, NEW r \in Reqs, NEW u \in Users,
           StartSubmit(r, u) \/
           \E pick \in Options \cup {NoPick}, twice \in BOOLEAN :
              StartAnswer(r, u, pick, twice)
    PROVE  SettledInv'
<1>1. clock \in Nat /\ clock < CloseAt
  BY DEF StartSubmit, StartAnswer, AcceptsPlay, SettledInv, WindowInv
<1>2. UNCHANGED <<clock, wstate, entry, standings>>
  BY DEF StartSubmit, StartAnswer, windowVars, entryVars
<1>3. CASE StartSubmit(r, u)
  <2>1. PICK rights \in [1..NumRounds -> BOOLEAN] :
          req' = [req EXCEPT ![r] =
                    [pc |-> "judged", user |-> u, at |-> clock, prior |-> <<>>,
                     rows |-> BatchRows([n \in 1..NumRounds |->
                                          [right |-> rights[n], half |-> FALSE]]),
                     retry |-> "keep", pick |-> NoPick]]
    BY <1>3 DEF StartSubmit
  <2> DEFINE rows == BatchRows([n \in 1..NumRounds |-> [right |-> rights[n], half |-> FALSE]])
             q == [pc |-> "judged", user |-> u, at |-> clock, prior |-> <<>>,
                   rows |-> rows, retry |-> "keep", pick |-> NoPick]
  <2>2. req' = [req EXCEPT ![r] = q]
    BY <2>1
  <2> HIDE DEF rows
  <2>3. "at" \in DOMAIN q /\ q.at = clock
    OBVIOUS
  <2> HIDE DEF q
  <2>4. q.at \in Nat /\ q.at < CloseAt /\ clock <= q.at + Patience
    BY <1>1, <2>3, Bounds
  <2> QED
    BY <1>1, <1>2, <2>2, <2>3, <2>4, QuietStep
<1>4. ASSUME NEW pick \in Options \cup {NoPick}, NEW twice \in BOOLEAN,
             StartAnswer(r, u, pick, twice)
      PROVE  SettledInv'
  <2> DEFINE q == [pc |-> "started", user |-> u, at |-> clock,
                   prior |-> results[u], pick |-> pick, twice |-> twice]
  <2>1. req' = [req EXCEPT ![r] = q]
    BY <1>4 DEF StartAnswer
  <2>2. "at" \in DOMAIN q /\ q.at = clock
    OBVIOUS
  <2> HIDE DEF q
  <2>3. q.at \in Nat /\ q.at < CloseAt /\ clock <= q.at + Patience
    BY <1>1, <2>2, Bounds
  <2> QED
    BY <1>1, <1>2, <2>1, <2>2, <2>3, QuietStep
<1> QED
  BY <1>3, <1>4

(* Whatever a round is decided to be, the request goes on. *)
LEMMA DecideStep ==
    ASSUME SettledInv, NEW r \in Reqs, req[r] # Idle,
           NEW right, NEW half, NEW change, Decide(r, right, half, change),
           UNCHANGED <<clock, windowVars, entryVars>>
    PROVE  SettledInv'
<1> DEFINE row == Scored(req[r].prior, right, half)
           q == [pc |-> "judged", user |-> req[r].user, at |-> req[r].at,
                 prior |-> req[r].prior, rows |-> <<row>>,
                 retry |-> change, pick |-> req[r].pick]
<1>1. req' = [req EXCEPT ![r] = q]
  BY DEF Decide
<1> HIDE DEF row
<1>2. "at" \in DOMAIN q /\ q.at = req[r].at
  OBVIOUS
<1>3. UNCHANGED <<clock, wstate, entry, standings>>
  BY DEF windowVars, entryVars
<1> HIDE DEF q
<1> QED
  BY <1>1, <1>2, <1>3, GoesOn

LEMMA JudgeStep ==
    ASSUME SettledInv, NEW r \in Reqs,
           JudgeInteractive(r) \/ JudgeFirst(r) \/ JudgeSecond(r)
    PROVE  SettledInv'
<1>1. req[r] # Idle /\ UNCHANGED <<clock, windowVars, entryVars>>
  <2>1. req[r].pc = "started" /\ UNCHANGED <<clock, windowVars, entryVars>>
    BY DEF JudgeInteractive, JudgeFirst, JudgeSecond
  <2> QED
    BY <2>1 DEF Idle
<1>2. CASE JudgeInteractive(r)
  BY <1>1, <1>2, DecideStep DEF JudgeInteractive
<1>3. CASE JudgeFirst(r) /\ ~GetsRetry(req[r])
  BY <1>1, <1>3, DecideStep DEF JudgeFirst
<1>4. CASE JudgeFirst(r) /\ GetsRetry(req[r])
  <2> DEFINE q == [pc |-> "judged", user |-> req[r].user, at |-> req[r].at,
                   prior |-> req[r].prior, rows |-> <<>>,
                   retry |-> "offer", pick |-> req[r].pick]
  <2>1. req' = [req EXCEPT ![r] = q]
    BY <1>4 DEF JudgeFirst
  <2>2. "at" \in DOMAIN q /\ q.at = req[r].at
    OBVIOUS
  <2>3. UNCHANGED <<clock, wstate, entry, standings>>
    BY <1>1 DEF windowVars, entryVars
  <2> HIDE DEF q
  <2> QED
    BY <1>1, <2>1, <2>2, <2>3, GoesOn
<1>5. CASE JudgeSecond(r)
  BY <1>1, <1>5, DecideStep DEF JudgeSecond
<1> QED
  BY <1>2, <1>3, <1>4, <1>5

LEMMA GiveUpStep ==
    ASSUME SettledInv, NEW r \in Reqs, GiveUp(r)
    PROVE  SettledInv'
BY GoesOn DEF GiveUp, windowVars, entryVars

-----------------------------------------------------------------------------
(***************************************************************************)
(* The steps that write an entry: the request is still in flight, so the   *)
(* window is not settled, and is not by the step.                          *)
(***************************************************************************)
LEMMA WriteStep ==
    ASSUME SettledInv, NEW r \in Reqs, req[r] # Idle,
           wstate' \in {"SCHEDULED", "OPEN", "CLOSED", "SETTLED"},
           wstate' = "SETTLED" => wstate = "SETTLED",
           req' = [req EXCEPT ![r] = Idle],
           UNCHANGED clock
    PROVE  SettledInv'
<1>1. wstate' # "SETTLED"
  BY InFlight
<1>2. WindowInv' /\ GraceInv' /\ NoLateSubmit' /\ ReqInv'
  BY <1>1 DEF SettledInv, WindowInv, GraceInv, NoLateSubmit, ReqInv
<1>3. RequestInv'
  BY DEF SettledInv, ReqInv, RequestInv
<1> QED
  BY <1>2, <1>3 DEF SettledInv

LEMMA CommitStep ==
    ASSUME SettledInv, NEW r \in Reqs, CommitEnter(r) \/ CommitPlay(r)
    PROVE  SettledInv'
<1>1. req[r] # Idle /\ req' = [req EXCEPT ![r] = Idle] /\ UNCHANGED clock
  <2>1. /\ req[r].pc \in {"inserted", "flushed"}
        /\ req' = [req EXCEPT ![r] = Idle]
        /\ UNCHANGED clock
    BY DEF CommitEnter, CommitPlay
  <2>2. req[r] # Idle
    BY <2>1 DEF Idle
  <2> QED
    BY <2>1, <2>2
<1>2. /\ wstate \in {"SCHEDULED", "OPEN", "CLOSED", "SETTLED"}
      /\ req[r].at \in Nat
  BY <1>1 DEF SettledInv, WindowInv, RequestInv
<1>3. wstate' = wstate \/ wstate' = Due(wstate, req[r].at)
  BY DEF CommitEnter, CommitPlay, windowVars
<1>4. /\ wstate' \in {"SCHEDULED", "OPEN", "CLOSED", "SETTLED"}
      /\ wstate' = "SETTLED" => wstate = "SETTLED"
  BY <1>2, <1>3, DueKeepsSettled
<1> QED
  BY <1>1, <1>4, WriteStep

LEMMA NextSettled == SettledInv /\ [Next]_vars => SettledInv'
<1> SUFFICES ASSUME SettledInv, [Next]_vars PROVE SettledInv'
  OBVIOUS
<1>1. CASE Tick
  BY <1>1, TickStep
<1>2. CASE TransitionWindows
  BY <1>2, TransitionStep
<1>3. CASE Settle
  BY <1>3, SettleStep
<1>4. CASE DeployContent
  BY <1>4, ElsewhereStep DEF DeployContent, entryVars
<1>5. CASE \E u \in Users, i \in Rounds : PlayInteractive(u, i)
  BY <1>5, ElsewhereStep DEF PlayInteractive, windowVars
<1>6. CASE \E r \in Reqs : Arrive(r)
  BY <1>6, StartEnterStep, StartPlayStep DEF Arrive
<1>7. CASE \E r \in Reqs : Proceed(r)
  BY <1>7, InsertEntryStep, CommitStep, JudgeStep, FlushStep, GiveUpStep DEF Proceed
<1>8. CASE Over \/ UNCHANGED vars
  BY <1>8, ElsewhereStep DEF Over, vars
<1> QED
  BY <1>1, <1>2, <1>3, <1>4, <1>5, <1>6, <1>7, <1>8 DEF Next

(***************************************************************************)
(* No answer that the server let in before the close changes the field     *)
(* after it was ranked, however the requests, the scheduler's transitions  *)
(* and the settlement interleave (contest.py:370, tasks.py:73).            *)
(***************************************************************************)
THEOREM ContestNoLateSubmit == Spec => []NoLateSubmit
<1>1. SettledInv => NoLateSubmit
  BY DEF SettledInv
<1> QED
  BY <1>1, InitSettled, NextSettled, PTL DEF Spec

-----------------------------------------------------------------------------
(***************************************************************************)
(* The record of an entry.  Its rows are scored one from the ones before,  *)
(* a request in flight has read a beginning of them, and of two requests   *)
(* that are about to write the same row one waits or is refused.           *)
(***************************************************************************)
(* Rows as answer_round writes them: in order, each scored from the ones before. *)
RowsOk(rows) ==
    /\ rows \in Seq(Result) /\ Len(rows) <= NumRounds
    /\ \A n \in 1..Len(rows) :
          rows[n] = Scored(SubSeq(rows, 1, n - 1), rows[n].right, rows[n].half)

Begins(some, all) ==
    Len(some) <= Len(all) /\ \A n \in 1..Len(some) : some[n] = all[n]

(* What holds of the entry of u. *)
EntryOk(u) ==
    /\ RowsOk(results[u])
    /\ Submitted(u) <=> Len(results[u]) = NumRounds
    /\ ~Entered(u) => results[u] = <<>>
    /\ score[u] = IF Submitted(u) THEN Total(results[u]) ELSE Nothing

(* What a request has read is the beginning of what is recorded now ... *)
PriorOk(q) ==
    /\ Entered(q.user)
    /\ RowsOk(q.prior) /\ Len(q.prior) < NumRounds
    /\ Begins(q.prior, results[q.user])

(* ... what it is going to write goes on from there ... *)
JudgedOk(q) ==
    /\ RowsOk(q.prior \o q.rows)
    /\ q.retry = "offer" => q.pick \in Options

(* ... and once it has written a row nothing is recorded after what it read. *)
FlushedOk(q) == q.rows # <<>> => results[q.user] = q.prior

RequestOk(q) ==
    /\ q.pc \in {"started", "judged", "flushed"} => PriorOk(q)
    /\ q.pc \in {"judged", "flushed"} => JudgedOk(q)
    /\ q.pc = "flushed" => FlushedOk(q)
    /\ q.pc = "inserted" => ~Entered(q.user)

(* Two requests of one player that write the same row. *)
Clash(p, q) ==
    \/ p.pc = "inserted" /\ q.pc = "inserted" /\ p.user = q.user
    \/ /\ p.pc = "flushed" /\ q.pc = "flushed" /\ p.user = q.user
       /\ p.rows # <<>> /\ q.rows # <<>>

RecordInv ==
    /\ TypeOK
    /\ score = [u \in Users |-> score[u]]
    /\ \A u \in Users : EntryOk(u)
    /\ \A r \in Reqs : RequestOk(req[r])
    /\ \A r, s \in Reqs : r # s => ~Clash(req[r], req[s])

-----------------------------------------------------------------------------
LEMMA ResultFields ==
    ASSUME NEW x \in Result
    PROVE  x.idx \in Rounds /\ x.right \in BOOLEAN /\ x.half \in BOOLEAN /\ x.points \in Nat
BY DEF Result

(* The rounds that Streak counts. *)
Run(rows) == {n \in DOMAIN rows : \A m \in n..Len(rows) : rows[m].right}

(* A streak is the size of a finite set. *)
LEMMA StreakType ==
    ASSUME NEW S, NEW rows \in Seq(S)
    PROVE  Streak(rows) \in Nat /\ IsFiniteSet(Run(rows))
<1>1. Run(rows) \subseteq 1..Len(rows) /\ Len(rows) \in Nat
  BY DEF Run
<1>2. IsFiniteSet(Run(rows))
  <2>1. IsFiniteSet(1..Len(rows))
    BY <1>1, FS_Interval
  <2> QED
    BY <1>1, <2>1, FS_Subset
<1>3. Streak(rows) = Cardinality(Run(rows))
  BY DEF Streak, Run
<1> QED
  BY <1>2, <1>3, FS_CardinalityType

(* A correct round makes the streak one longer, a miss ends it. *)
LEMMA StreakAppend ==
    ASSUME NEW S, NEW rows \in Seq(S), NEW x \in S, x.right \in BOOLEAN
    PROVE  Streak(Append(rows, x)) = IF x.right THEN Streak(rows) + 1 ELSE 0
<1> DEFINE n == Len(rows)
           v == Append(rows, x)
<1>1. /\ n \in Nat /\ v \in Seq(S) /\ Len(v) = n + 1 /\ DOMAIN v = 1..(n + 1)
      /\ DOMAIN rows = 1..n
      /\ v[n + 1] = x
      /\ \A m \in 1..n : v[m] = rows[m]
  OBVIOUS
<1>2. Streak(v) = Cardinality(Run(v)) /\ Streak(rows) = Cardinality(Run(rows))
  BY DEF Streak, Run
<1> HIDE DEF v, n
<1>3. CASE x.right
  <2>1. Run(v) = Run(rows) \cup {n + 1}
    <3>1. n + 1 \in Run(v)
      BY <1>1, <1>3 DEF Run
    <3>2. ASSUME NEW i \in 1..n PROVE i \in Run(v) <=> i \in Run(rows)
      <4>1. ASSUME i \in Run(v) PROVE i \in Run(rows)
        BY <1>1, <4>1 DEF Run, n
      <4>2. ASSUME i \in Run(rows) PROVE i \in Run(v)
        BY <1>1, <1>3, <4>2 DEF Run, n
      <4> QED
        BY <4>1, <4>2
    <3>3. \A i : i \in 1..(n + 1) <=> i \in 1..n \/ i = n + 1
      BY <1>1
    <3>4. Run(v) \subseteq 1..(n + 1) /\ Run(rows) \subseteq 1..n
      BY <1>1 DEF Run
    <3> QED
      BY <3>1, <3>2, <3>3, <3>4
  <2>2. n + 1 \notin Run(rows)
    BY <1>1 DEF Run
  <2>3. IsFiniteSet(Run(rows))
    BY StreakType
  <2> QED
    BY <1>2, <1>3, <2>1, <2>2, <2>3, FS_AddElement DEF v
<1>4. CASE ~x.right
  <2>1. Run(v) = {}
    BY <1>1, <1>4 DEF Run
  <2> QED
    BY <1>2, <1>4, <2>1, FS_EmptySet DEF v
<1> QED
  BY <1>3, <1>4

LEMMA PointsType ==
    ASSUME NEW streak \in Nat, NEW half \in BOOLEAN
    PROVE  Points(streak, half) \in Nat
BY DEF Points

(* A row is a Result that carries the number of the rounds before it. *)
LEMMA ScoredType ==
    ASSUME NEW prior \in Seq(Result), Len(prior) < NumRounds,
           NEW right \in BOOLEAN, NEW half \in BOOLEAN
    PROVE  /\ Scored(prior, right, half) \in Result
           /\ Scored(prior, right, half).idx = Len(prior)
           /\ Scored(prior, right, half).right = right
           /\ Scored(prior, right, half).half = half
<1> DEFINE points == IF right THEN Points(Streak(prior) + 1, half) ELSE 0
<1>1. points \in Nat
  <2>1. Streak(prior) \in Nat
    BY StreakType
  <2>2. Streak(prior) + 1 \in Nat
    BY <2>1
  <2> QED
    BY <2>2, PointsType
<1>2. Len(prior) \in Rounds
  BY ContestAssumption DEF ContestAssumption, Rounds
<1> HIDE DEF points
<1>3. [idx |-> Len(prior), right |-> right, half |-> half, points |-> points] \in Result
  BY <1>1, <1>2 DEF Result
<1> QED
  BY <1>3 DEF Scored, points

LEMMA NoRowsOk == RowsOk(<<>>)
BY ContestAssumption DEF RowsOk, ContestAssumption

(* One more round, scored from the ones before it. *)
LEMMA RowsGrow ==
    ASSUME NEW s, RowsOk(s), Len(s) < NumRounds,
           NEW right \in BOOLEAN, NEW half \in BOOLEAN
    PROVE  RowsOk(Append(s, Scored(s, right, half)))
<1> DEFINE x == Scored(s, right, half)
           v == Append(s, x)
<1>1. s \in Seq(Result) /\ Len(s) \in Nat /\ NumRounds \in Nat
  BY ContestAssumption DEF RowsOk, ContestAssumption
<1>2. x \in Result /\ x.right = right /\ x.half = half
  BY <1>1, ScoredType
<1> HIDE DEF x
<1>3. v \in Seq(Result) /\ Len(v) = Len(s) + 1 /\ v[Len(s) + 1] = x
      /\ \A n \in 1..Len(s) : v[n] = s[n]
  BY <1>1, <1>2
<1>4. ASSUME NEW n \in 1..(Len(s) + 1) PROVE SubSeq(v, 1, n - 1) = SubSeq(s, 1, n - 1)
  BY <1>1, <1>2, <1>4
<1>5. SubSeq(v, 1, Len(s)) = s
  BY <1>1, <1>2
<1> HIDE DEF v
<1>6. ASSUME NEW n \in 1..Len(v)
      PROVE  v[n] = Scored(SubSeq(v, 1, n - 1), v[n].right, v[n].half)
  <2>1. CASE n = Len(s) + 1
    <3>1. n - 1 = Len(s)
      BY <1>1, <2>1
    <3> QED
      BY <1>2, <1>3, <1>5, <2>1, <3>1 DEF x
  <2>2. CASE n \in 1..Len(s)
    <3>1. v[n] = s[n] /\ SubSeq(v, 1, n - 1) = SubSeq(s, 1, n - 1)
      BY <1>1, <1>3, <1>4, <2>2
    <3> QED
      BY <2>2, <3>1 DEF RowsOk
  <2> QED
    BY <1>1, <1>3, <2>1, <2>2
<1> QED
  BY <1>1, <1>3, <1>6 DEF RowsOk, v, x

(* The rows carry their numbers. *)
LEMMA RowNumbers ==
    ASSUME NEW s, RowsOk(s), NEW n \in 1..Len(s)
    PROVE  s[n].idx = n - 1 /\ s[n] \in Result
<1>1. s \in Seq(Result) /\ n \in Nat /\ n <= Len(s) /\ Len(s) \in Nat
  BY DEF RowsOk
<1>2. Len(SubSeq(s, 1, n - 1)) = n - 1
  BY <1>1
<1>3. s[n].idx = Len(SubSeq(s, 1, n - 1))
  <2>1. s[n] = Scored(SubSeq(s, 1, n - 1), s[n].right, s[n].half)
    BY DEF RowsOk
  <2>2. ASSUME NEW p, NEW right, NEW half PROVE Scored(p, right, half).idx = Len(p)
    BY DEF Scored
  <2>3. Scored(SubSeq(s, 1, n - 1), s[n].right, s[n].half).idx = Len(SubSeq(s, 1, n - 1))
    BY <2>2
  <2> QED
    BY <2>1, <2>3
<1> QED
  BY <1>1, <1>2, <1>3

-----------------------------------------------------------------------------
(* Facts about the fold of score_entry's loop. *)
Batch == INSTANCE FoldFacts WITH Op <- LAMBDA acc, answer : BatchStep(acc, answer)

(* The fold of BatchRows is the one the facts of FoldFacts are about. *)
LEMMA FoldIsBatch ==
    ASSUME NEW s
    PROVE  Batch!Fold([streak |-> 0, rows |-> <<>>], s).rows = BatchRows(s)
BY DEF BatchRows, Batch!Fold, Batch!FoldLeft, Batch!MapThenFoldSet, Batch!Max,
       FoldLeft, MapThenFoldSet, Max

(* Where the batch is after the rows of `rows'. *)
Reached(rows) == [streak |-> Streak(rows), rows |-> rows]

LEMMA NothingReached == Reached(<<>>) = [streak |-> 0, rows |-> <<>>]
<1>1. Run(<<>>) = {}
  BY DEF Run
<1>2. Streak(<<>>) = 0
  BY <1>1, FS_EmptySet DEF Streak, Run
<1> QED
  BY <1>2 DEF Reached

(* One step of the batch scores a round as answer_round does. *)
LEMMA BatchScores ==
    ASSUME NEW rows \in Seq(Result), Len(rows) < NumRounds,
           NEW answer, answer.right \in BOOLEAN, answer.half \in BOOLEAN
    PROVE  BatchStep(Reached(rows), answer)
             = Reached(Append(rows, Scored(rows, answer.right, answer.half)))
<1> DEFINE x == Scored(rows, answer.right, answer.half)
           streak == IF answer.right THEN Streak(rows) + 1 ELSE 0
<1>1. x \in Result /\ x.right = answer.right
  BY ScoredType
<1>2. x = [idx |-> Len(rows), right |-> answer.right, half |-> answer.half,
           points |-> IF answer.right THEN Points(streak, answer.half) ELSE 0]
  BY DEF Scored
<1>3. BatchStep(Reached(rows), answer) = [streak |-> streak, rows |-> Append(rows, x)]
  BY <1>2 DEF BatchStep, Reached
<1> HIDE DEF x
<1>4. Streak(Append(rows, x)) = streak
  BY <1>1, StreakAppend
<1> HIDE DEF streak
<1> QED
  BY <1>3, <1>4 DEF Reached, x

(* Rows that were scored one by one are the ones a batch re-score gives. *)
LEMMA RowsAreBatch ==
    ASSUME NEW s, RowsOk(s)
    PROVE  s = BatchRows(s)
<1> DEFINE Fold(q) == Batch!Fold([streak |-> 0, rows |-> <<>>], q)
           T == {n \in Nat : n <= Len(s) => Fold(SubSeq(s, 1, n)) = Reached(SubSeq(s, 1, n))}
<1>0. s \in Seq(Result) /\ Len(s) \in Nat /\ Len(s) <= NumRounds /\ NumRounds \in Nat
  BY ContestAssumption DEF RowsOk, ContestAssumption
<1>1. 0 \in T
  <2>1. SubSeq(s, 1, 0) = <<>>
    BY <1>0
  <2> QED
    BY <2>1, NothingReached, Batch!FoldEmpty
<1>2. ASSUME NEW n \in Nat, n \in T PROVE n + 1 \in T
  <2> SUFFICES ASSUME n + 1 <= Len(s)
               PROVE  Fold(SubSeq(s, 1, n + 1)) = Reached(SubSeq(s, 1, n + 1))
    OBVIOUS
  <2> DEFINE p == SubSeq(s, 1, n)
             x == s[n + 1]
             v == SubSeq(s, 1, n + 1)
  <2>1. p \in Seq(Result) /\ x \in Result /\ v = Append(p, x)
    BY <1>0, Batch!OneMore
  <2>2. Fold(p) = Reached(p)
    BY <1>0, <1>2
  <2>3. Len(p) = n /\ n < NumRounds
    BY <1>0
  <2>4. x = Scored(p, x.right, x.half)
    <3>1. n + 1 \in 1..Len(s) /\ (n + 1) - 1 = n
      BY <1>0
    <3> QED
      BY <3>1 DEF RowsOk
  <2>5. x.right \in BOOLEAN /\ x.half \in BOOLEAN
    BY <2>1, ResultFields
  <2> HIDE DEF p, x, v
  <2>6. Fold(v) = BatchStep(Fold(p), x)
    BY <2>1, Batch!FoldAppend
  <2>7. BatchStep(Reached(p), x) = Reached(v)
    BY <2>1, <2>3, <2>4, <2>5, BatchScores
  <2> QED
    BY <2>2, <2>6, <2>7 DEF v
<1> HIDE DEF T
<1>3. Len(s) \in T
  BY <1>0, <1>1, <1>2, Batch!Induct
<1>4. SubSeq(s, 1, Len(s)) = s
  BY <1>0
<1>5. Fold(s) = Reached(s)
  <2>1. Fold(SubSeq(s, 1, Len(s))) = Reached(SubSeq(s, 1, Len(s)))
    BY <1>0, <1>3 DEF T
  <2> QED
    BY <1>4, <2>1, Zenon
<1>6. BatchRows(s) = Reached(s).rows
  BY <1>5, FoldIsBatch
<1> QED
  BY <1>6 DEF Reached

(* And what a batch makes of answers are rows scored one by one. *)
LEMMA BatchIsRows ==
    ASSUME NEW answers \in Seq([right : BOOLEAN, half : BOOLEAN]), Len(answers) = NumRounds
    PROVE  RowsOk(BatchRows(answers)) /\ Len(BatchRows(answers)) = NumRounds
<1> DEFINE Fold(q) == Batch!Fold([streak |-> 0, rows |-> <<>>], q)
           Done(n) == \E p : RowsOk(p) /\ Len(p) = n
                               /\ Fold(SubSeq(answers, 1, n)) = Reached(p)
           T == {n \in Nat : n <= NumRounds => Done(n)}
<1>0. NumRounds \in Nat
  BY ContestAssumption DEF ContestAssumption
<1>1. 0 \in T
  <2>1. SubSeq(answers, 1, 0) = <<>>
    OBVIOUS
  <2> QED
    BY <2>1, NothingReached, NoRowsOk, Batch!FoldEmpty
<1>2. ASSUME NEW n \in Nat, n \in T PROVE n + 1 \in T
  <2> SUFFICES ASSUME n + 1 <= NumRounds
               PROVE  Done(n + 1)
    OBVIOUS
  <2>1. PICK p : RowsOk(p) /\ Len(p) = n /\ Fold(SubSeq(answers, 1, n)) = Reached(p)
    BY <1>0, <1>2
  <2> DEFINE q == SubSeq(answers, 1, n)
             x == answers[n + 1]
             v == SubSeq(answers, 1, n + 1)
             w == Append(p, Scored(p, x.right, x.half))
  <2>2. q \in Seq([right : BOOLEAN, half : BOOLEAN]) /\ x \in [right : BOOLEAN, half : BOOLEAN]
        /\ v = Append(q, x)
    BY <1>0, Batch!OneMore
  <2>3. Fold(q) = Reached(p)
    BY <2>1
  <2>4. x.right \in BOOLEAN /\ x.half \in BOOLEAN
    BY <2>2
  <2>5. p \in Seq(Result) /\ Len(p) < NumRounds
    BY <1>0, <2>1 DEF RowsOk
  <2> HIDE DEF q, x, v
  <2>6. Fold(v) = BatchStep(Fold(q), x)
    BY <2>2, Batch!FoldAppend
  <2>7. BatchStep(Reached(p), x) = Reached(w)
    BY <2>4, <2>5, BatchScores
  <2>8. RowsOk(w)
    BY <2>1, <2>4, <2>5, RowsGrow
  <2>9. Len(w) = n + 1
    <3>1. Scored(p, x.right, x.half) \in Result
      BY <2>4, <2>5, ScoredType
    <3> QED
      BY <2>1, <2>5, <3>1
  <2> HIDE DEF w
  <2> QED
    BY <2>3, <2>6, <2>7, <2>8, <2>9 DEF v
<1> HIDE DEF T
<1>3. NumRounds \in T
  BY <1>0, <1>1, <1>2, Batch!Induct
<1>4. PICK p : RowsOk(p) /\ Len(p) = NumRounds
                 /\ Fold(SubSeq(answers, 1, NumRounds)) = Reached(p)
  BY <1>0, <1>3 DEF T
<1>5. SubSeq(answers, 1, NumRounds) = answers
  BY <1>0
<1>6. BatchRows(answers) = Reached(p).rows
  BY <1>4, <1>5, FoldIsBatch
<1>7. BatchRows(answers) = p
  BY <1>6 DEF Reached
<1> QED
  BY <1>4, <1>7

-----------------------------------------------------------------------------
(* The three shapes of a request in flight. *)
EnterReq ==
    [pc : {"entering", "inserted"}, user : Users, at : Nat,
     plan : Version \cup {Nothing}, bank : Version, moves : BOOLEAN, pins : BOOLEAN]
StartReq ==
    [pc : {"started"}, user : Users, at : Nat, prior : Seq(Result),
     pick : Options \cup {NoPick}, twice : BOOLEAN]
PlayReq ==
    [pc : {"judged", "flushed"}, user : Users, at : Nat,
     prior : Seq(Result), rows : Seq(Result),
     retry : {"keep", "offer", "consume"}, pick : Options \cup {NoPick}]

(* A request has one of the shapes. *)
LEMMA RequestShapes == Request = {Idle} \cup EnterReq \cup StartReq \cup PlayReq
BY DEF Request, EnterReq, StartReq, PlayReq

(* The step a request is at tells its shape. *)
LEMMA ShapeOf ==
    ASSUME RecordInv, NEW r \in Reqs
    PROVE  /\ req[r].pc \in {"entering", "inserted"} => req[r] \in EnterReq
           /\ req[r].pc = "started" => req[r] \in StartReq
           /\ req[r].pc \in {"judged", "flushed"} => req[r] \in PlayReq
           /\ RequestOk(req[r])
<1>1. req[r] \in {Idle} \cup EnterReq \cup StartReq \cup PlayReq
  BY RequestShapes DEF RecordInv, TypeOK
<1>2. Idle.pc = "idle"
  BY DEF Idle
<1>3. \A q \in EnterReq : q.pc \in {"entering", "inserted"}
  BY DEF EnterReq
<1>4. \A q \in StartReq : q.pc = "started"
  BY DEF StartReq
<1>5. \A q \in PlayReq : q.pc \in {"judged", "flushed"}
  BY DEF PlayReq
<1>6. RequestOk(req[r])
  BY DEF RecordInv
<1> QED
  BY <1>1, <1>2, <1>3, <1>4, <1>5, <1>6

LEMMA EnterFields ==
    ASSUME NEW q \in EnterReq
    PROVE  /\ q.user \in Users /\ q.at \in Nat /\ q.plan \in Version \cup {Nothing}
           /\ q.bank \in Version
BY DEF EnterReq

LEMMA StartFields ==
    ASSUME NEW q \in StartReq
    PROVE  /\ q.user \in Users /\ q.at \in Nat /\ q.prior \in Seq(Result)
           /\ q.pick \in Options \cup {NoPick}
BY DEF StartReq

LEMMA PlayFields ==
    ASSUME NEW q \in PlayReq
    PROVE  /\ q.user \in Users /\ q.at \in Nat /\ q.prior \in Seq(Result)
           /\ q.rows \in Seq(Result) /\ q.retry \in {"keep", "offer", "consume"}
           /\ q.pick \in Options \cup {NoPick}
BY DEF PlayReq

LEMMA ClashSymmetric == ASSUME NEW p, NEW q PROVE Clash(p, q) => Clash(q, p)
BY DEF Clash

LEMMA InitRecord == Init => RecordInv
<1> SUFFICES ASSUME Init PROVE RecordInv
  OBVIOUS
<1>1. 0 \in Version /\ 0 \in 0..Horizon /\ NumRounds \in Nat \ {0}
  BY ContestAssumption DEF ContestAssumption, Version
<1>2. TypeOK
  <2>1. req \in [Reqs -> Request]
    BY RequestShapes DEF Init
  <2> QED
    BY <1>1, <2>1 DEF Init, TypeOK
<1>3. score = [u \in Users |-> score[u]]
  BY DEF Init
<1>4. ASSUME NEW u \in Users PROVE EntryOk(u)
  BY <1>1, NoRowsOk DEF Init, EntryOk, Entered, Submitted
<1>5. ASSUME NEW r \in Reqs PROVE req[r].pc = "idle"
  BY DEF Init, Idle
<1>6. (\A r \in Reqs : RequestOk(req[r])) /\ \A r, s \in Reqs : ~Clash(req[r], req[s])
  BY <1>5 DEF RequestOk, Clash
<1> QED
  BY <1>2, <1>3, <1>4, <1>6 DEF RecordInv

(* A step that moves neither an entry nor a request. *)
LEMMA RecordStays ==
    ASSUME RecordInv, TypeOK', UNCHANGED <<entry, score, results, req>>
    PROVE  RecordInv'
<1>1. entry' = entry /\ score' = score /\ results' = results /\ req' = req
  OBVIOUS
<1>2. ASSUME NEW u \in Users PROVE EntryOk(u)'
  <2>1. EntryOk(u)
    BY DEF RecordInv
  <2> QED
    BY <1>1, <2>1 DEF EntryOk, Submitted, Entered
<1>3. ASSUME NEW r \in Reqs PROVE RequestOk(req[r])'
  <2>1. RequestOk(req[r])
    BY DEF RecordInv
  <2> QED
    BY <1>1, <2>1 DEF RequestOk, PriorOk, JudgedOk, FlushedOk, Entered
<1> QED
  BY <1>1, <1>2, <1>3 DEF RecordInv, Clash

(* A step of one request that leaves the entries and their rounds alone. *)
LEMMA RequestTurns ==
    ASSUME RecordInv, NEW r \in Reqs, NEW q, RequestOk(q),
           \A s \in Reqs \ {r} : ~Clash(q, req[s]),
           req' = [req EXCEPT ![r] = q],
           TypeOK', UNCHANGED <<entry, score, results>>
    PROVE  RecordInv'
<1>1. entry' = entry /\ score' = score /\ results' = results
  OBVIOUS
<1>2. req'[r] = q /\ \A s \in Reqs \ {r} : req'[s] = req[s]
  BY DEF RecordInv, TypeOK
<1>3. ASSUME NEW u \in Users PROVE EntryOk(u)'
  <2>1. EntryOk(u)
    BY DEF RecordInv
  <2> QED
    BY <1>1, <2>1 DEF EntryOk, Submitted, Entered
<1>4. ASSUME NEW s \in Reqs PROVE RequestOk(req[s])'
  <2>1. \E p : RequestOk(p) /\ req'[s] = p
    BY <1>2 DEF RecordInv
  <2> QED
    BY <1>1, <2>1 DEF RequestOk, PriorOk, JudgedOk, FlushedOk, Entered
<1>5. ASSUME NEW s \in Reqs, NEW t \in Reqs, s # t PROVE ~Clash(req'[s], req'[t])
  BY <1>2, <1>5, ClashSymmetric DEF RecordInv
<1> QED
  BY <1>1, <1>3, <1>4, <1>5 DEF RecordInv, Clash

(* A step of one request that writes nothing yet. *)
LEMMA RequestMoves ==
    ASSUME RecordInv, NEW r \in Reqs, NEW q \in Request, RequestOk(q),
           \A s \in Reqs \ {r} : ~Clash(q, req[s]),
           req' = [req EXCEPT ![r] = q],
           UNCHANGED <<clock, windowVars, entryVars>>
    PROVE  RecordInv'
<1>1. /\ entry' = entry /\ score' = score /\ results' = results /\ clock' = clock
      /\ slot' = slot /\ wstate' = wstate /\ content' = content /\ pinned' = pinned
      /\ standings' = standings /\ retry' = retry /\ offered' = offered /\ bound' = bound
  BY DEF windowVars, entryVars
<1>2. TypeOK'
  <2>1. req' \in [Reqs -> Request]
    BY DEF RecordInv, TypeOK
  <2> QED
    BY <1>1, <2>1 DEF RecordInv, TypeOK
<1> QED
  BY <1>1, <1>2, RequestTurns

-----------------------------------------------------------------------------
LEMMA StartEnterRecord ==
    ASSUME RecordInv, NEW r \in Reqs, NEW u \in Users, StartEnter(r, u)
    PROVE  RecordInv'
<1> DEFINE plan == CASE slot # "royale" -> Nothing
                     [] slot = "royale" /\ pinned # Nothing -> pinned
                     [] OTHER -> content
           moves == wstate # "OPEN"
           pins == slot = "royale" /\ pinned = Nothing
           q == [pc |-> "entering", user |-> u, at |-> clock, plan |-> plan,
                 bank |-> content, moves |-> moves, pins |-> pins]
<1>1. req' = [req EXCEPT ![r] = q] /\ UNCHANGED <<clock, windowVars, entryVars>>
  BY DEF StartEnter
<1>2. clock \in Nat /\ content \in Version /\ plan \in Version \cup {Nothing}
  BY ContestAssumption DEF RecordInv, TypeOK, ContestAssumption
<1>3. moves \in BOOLEAN /\ pins \in BOOLEAN
  OBVIOUS
<1> HIDE DEF plan, moves, pins
<1>4. q \in EnterReq /\ q.pc = "entering"
  BY <1>2, <1>3 DEF EnterReq
<1> HIDE DEF q
<1>5. q \in Request /\ RequestOk(q) /\ \A p : ~Clash(q, p)
  BY <1>4, RequestShapes DEF RequestOk, Clash
<1> QED
  BY <1>1, <1>5, RequestMoves

(* The unique index and the row lock: one entry of a player is being inserted. *)
LEMMA InsertEntryRecord ==
    ASSUME RecordInv, NEW r \in Reqs, InsertEntry(r)
    PROVE  RecordInv'
<1> DEFINE p == req[r]
           q == [p EXCEPT !.pc = "inserted", !.bank = content]
<1>1. p.pc = "entering" /\ NotLocked(r) /\ ~Entered(p.user) /\ p \in EnterReq
      /\ UNCHANGED <<clock, windowVars, entryVars>>
  BY ShapeOf DEF InsertEntry, NewEntry
<1>2. req' = [req EXCEPT ![r] = q]
  BY DEF InsertEntry, RecordInv, TypeOK
<1>3. content \in Version
  BY DEF RecordInv, TypeOK
<1> HIDE DEF p
<1>4. q \in EnterReq /\ q.pc = "inserted" /\ q.user = p.user
  BY <1>1, <1>3, Zenon DEF EnterReq
<1> HIDE DEF q
<1>5. RequestOk(q) /\ q \in Request
  BY <1>1, <1>4, RequestShapes DEF RequestOk
<1>6. ASSUME NEW s \in Reqs \ {r} PROVE ~Clash(q, req[s])
  <2>1. SUFFICES ASSUME req[s].pc = "inserted", req[s].user = p.user
                 PROVE  FALSE
    BY <1>4 DEF Clash
  <2>2. <<"entry", p.user>> \in Held(req[s])
    BY <2>1 DEF Held, Writes, IsEnter
  <2>3. <<"entry", p.user>> \in Writes(req[r])
    BY <1>1 DEF Writes, IsEnter, p
  <2> QED
    BY <1>1, <2>2, <2>3 DEF NotLocked
<1> QED
  BY <1>1, <1>2, <1>5, <1>6, RequestMoves

(* submit_entry scores all rounds at once, as the batch does. *)
LEMMA StartSubmitRecord ==
    ASSUME RecordInv, NEW r \in Reqs, NEW u \in Users, StartSubmit(r, u)
    PROVE  RecordInv'
<1>1. PICK rights \in [1..NumRounds -> BOOLEAN] :
        req' = [req EXCEPT ![r] =
                  [pc |-> "judged", user |-> u, at |-> clock, prior |-> <<>>,
                   rows |-> BatchRows([n \in 1..NumRounds |->
                                          [right |-> rights[n], half |-> FALSE]]),
                   retry |-> "keep", pick |-> NoPick]]
  BY DEF StartSubmit
<1> DEFINE answers == [n \in 1..NumRounds |-> [right |-> rights[n], half |-> FALSE]]
           rows == BatchRows(answers)
           q == [pc |-> "judged", user |-> u, at |-> clock, prior |-> <<>>,
                 rows |-> rows, retry |-> "keep", pick |-> NoPick]
<1>2. req' = [req EXCEPT ![r] = q] /\ UNCHANGED <<clock, windowVars, entryVars>>
  BY <1>1 DEF StartSubmit
<1>3. clock \in Nat /\ results[u] = <<>> /\ Entered(u) /\ NumRounds \in Nat \ {0}
  BY ContestAssumption DEF StartSubmit, InProgress, RecordInv, TypeOK, ContestAssumption
<1>4. answers \in Seq([right : BOOLEAN, half : BOOLEAN]) /\ Len(answers) = NumRounds
  <2>1. \A n \in 1..NumRounds :
          [right |-> rights[n], half |-> FALSE] \in [right : BOOLEAN, half : BOOLEAN]
    OBVIOUS
  <2>2. answers \in [1..NumRounds -> [right : BOOLEAN, half : BOOLEAN]]
    BY <2>1
  <2> HIDE DEF answers
  <2>3. answers \in Seq([right : BOOLEAN, half : BOOLEAN])
    BY <1>3, <2>2, Batch!SeqDef, ZenonT(60)
  <2>4. DOMAIN answers = 1..NumRounds
    BY <2>2
  <2> QED
    BY <1>3, <2>3, <2>4
<1> HIDE DEF answers
<1>5. RowsOk(rows)
  BY <1>4, BatchIsRows
<1> HIDE DEF rows
<1>6. rows \in Seq(Result) /\ <<>> \o rows = rows
  BY <1>5 DEF RowsOk
<1>7. /\ q \in PlayReq /\ q.pc = "judged" /\ q.user = u /\ q.prior = <<>> /\ q.rows = rows
      /\ q.retry = "keep"
  BY <1>3, <1>6 DEF PlayReq
<1> HIDE DEF q
<1>8. PriorOk(q) /\ JudgedOk(q)
  BY <1>3, <1>5, <1>6, <1>7, NoRowsOk DEF PriorOk, JudgedOk, Begins
<1>9. q \in Request /\ RequestOk(q) /\ \A p : ~Clash(q, p)
  BY <1>7, <1>8, RequestShapes DEF RequestOk, Clash
<1> QED
  BY <1>2, <1>9, RequestMoves

(* answer_round has read all the rounds there are. *)
LEMMA StartAnswerRecord ==
    ASSUME RecordInv, NEW r \in Reqs, NEW u \in Users,
           NEW pick \in Options \cup {NoPick}, NEW twice \in BOOLEAN,
           StartAnswer(r, u, pick, twice)
    PROVE  RecordInv'
<1> DEFINE prior == results[u]
           q == [pc |-> "started", user |-> u, at |-> clock,
                 prior |-> prior, pick |-> pick, twice |-> twice]
<1>1. req' = [req EXCEPT ![r] = q] /\ UNCHANGED <<clock, windowVars, entryVars>>
  BY DEF StartAnswer
<1>2. clock \in Nat /\ prior \in Seq(Result) /\ Entered(u) /\ Len(prior) < NumRounds
      /\ RowsOk(prior)
  BY ContestAssumption
  DEF StartAnswer, InProgress, RecordInv, TypeOK, ContestAssumption, EntryOk
<1>3. q \in StartReq /\ q.pc = "started" /\ q.user = u /\ q.prior = prior
  BY <1>2 DEF StartReq
<1>4. Begins(prior, results[u])
  BY <1>2 DEF Begins
<1> HIDE DEF q, prior
<1>5. PriorOk(q)
  BY <1>2, <1>3, <1>4 DEF PriorOk
<1>6. q \in Request /\ RequestOk(q) /\ \A p : ~Clash(q, p)
  BY <1>3, <1>5, RequestShapes DEF RequestOk, Clash
<1> QED
  BY <1>1, <1>6, RequestMoves

(* A request that has judged its round, whatever it found. *)
LEMMA JudgedRecord ==
    ASSUME RecordInv, NEW r \in Reqs, req[r].pc = "started",
           NEW rows, NEW change \in {"keep", "offer", "consume"},
           change = "offer" => req[r].pick \in Options,
           rows \in Seq(Result), RowsOk(req[r].prior \o rows),
           req' = [req EXCEPT ![r] =
                     [pc |-> "judged", user |-> req[r].user, at |-> req[r].at,
                      prior |-> req[r].prior, rows |-> rows,
                      retry |-> change, pick |-> req[r].pick]],
           UNCHANGED <<clock, windowVars, entryVars>>
    PROVE  RecordInv'
<1> DEFINE p == req[r]
           q == [pc |-> "judged", user |-> p.user, at |-> p.at, prior |-> p.prior,
                 rows |-> rows, retry |-> change, pick |-> p.pick]
<1>1. p \in StartReq /\ PriorOk(p)
  BY ShapeOf DEF RequestOk
<1>2. req' = [req EXCEPT ![r] = q]
  OBVIOUS
<1> HIDE DEF p
<1>3. /\ q.pc = "judged" /\ q.user = p.user /\ q.prior = p.prior /\ q.rows = rows
      /\ q.retry = change /\ q.pick = p.pick
  OBVIOUS
<1>4. q \in PlayReq
  BY <1>1, StartFields DEF PlayReq
<1> HIDE DEF q
<1>5. PriorOk(q) /\ JudgedOk(q)
  BY <1>1, <1>3 DEF PriorOk, JudgedOk, p
<1>6. q \in Request /\ RequestOk(q) /\ \A x : ~Clash(q, x)
  BY <1>3, <1>4, <1>5, RequestShapes DEF RequestOk, Clash
<1> QED
  BY <1>2, <1>6, RequestMoves

(* One more row, scored from the rounds the request has read. *)
LEMMA DecideRecord ==
    ASSUME RecordInv, NEW r \in Reqs, req[r].pc = "started",
           NEW right \in BOOLEAN, NEW half \in BOOLEAN, NEW change \in {"keep", "consume"},
           Decide(r, right, half, change), UNCHANGED <<clock, windowVars, entryVars>>
    PROVE  RecordInv'
<1> DEFINE prior == req[r].prior
           x == Scored(prior, right, half)
<1>1. RowsOk(prior) /\ Len(prior) < NumRounds /\ prior \in Seq(Result)
  BY ShapeOf DEF RequestOk, PriorOk, RowsOk
<1>2. RowsOk(Append(prior, x)) /\ x \in Result
  BY <1>1, RowsGrow, ScoredType
<1> HIDE DEF x
<1>3. Append(prior, x) = prior \o <<x>> /\ <<x>> \in Seq(Result)
  BY <1>1, <1>2
<1>4. RowsOk(prior \o <<x>>)
  BY <1>2, <1>3, Zenon
<1>5. req' = [req EXCEPT ![r] =
                [pc |-> "judged", user |-> req[r].user, at |-> req[r].at,
                 prior |-> req[r].prior, rows |-> <<x>>,
                 retry |-> change, pick |-> req[r].pick]]
  BY DEF Decide, x
<1> QED
  BY <1>3, <1>4, <1>5, JudgedRecord

LEMMA JudgeRecord ==
    ASSUME RecordInv, NEW r \in Reqs,
           JudgeInteractive(r) \/ JudgeFirst(r) \/ JudgeSecond(r)
    PROVE  RecordInv'
<1>1. req[r].pc = "started" /\ UNCHANGED <<clock, windowVars, entryVars>>
  BY DEF JudgeInteractive, JudgeFirst, JudgeSecond
<1>2. CASE JudgeInteractive(r)
  BY <1>1, <1>2, DecideRecord DEF JudgeInteractive
<1>3. CASE JudgeFirst(r) /\ ~GetsRetry(req[r])
  BY <1>1, <1>3, DecideRecord DEF JudgeFirst
<1>4. CASE JudgeFirst(r) /\ GetsRetry(req[r])
  <2>1. req' = [req EXCEPT ![r] =
                  [pc |-> "judged", user |-> req[r].user, at |-> req[r].at,
                   prior |-> req[r].prior, rows |-> <<>>,
                   retry |-> "offer", pick |-> req[r].pick]]
    BY <1>4 DEF JudgeFirst
  <2>2. req[r].pick \in Options
    BY <1>1, <1>4, ShapeOf, StartFields DEF GetsRetry
  <2>3. RowsOk(req[r].prior) /\ req[r].prior \in Seq(Result)
    BY <1>1, ShapeOf DEF RequestOk, PriorOk, RowsOk
  <2>4. RowsOk(req[r].prior \o <<>>) /\ <<>> \in Seq(Result)
    BY <2>3
  <2> QED
    BY <1>1, <2>1, <2>2, <2>4, JudgedRecord
<1>5. CASE JudgeSecond(r)
  <2>1. PICK lapsed \in BOOLEAN :
          Decide(r, ~lapsed /\ req[r].pick # retry[req[r].user][Len(req[r].prior)]
                      /\ req[r].pick = Answer, TRUE, "consume")
    BY <1>5 DEF JudgeSecond
  <2> DEFINE right == ~lapsed /\ req[r].pick # retry[req[r].user][Len(req[r].prior)]
                        /\ req[r].pick = Answer
  <2>2. right \in BOOLEAN
    OBVIOUS
  <2> HIDE DEF right
  <2>3. Decide(r, right, TRUE, "consume")
    BY <2>1 DEF right
  <2> QED
    BY <1>1, <2>2, <2>3, DecideRecord
<1> QED
  BY <1>2, <1>3, <1>4, <1>5

LEMMA GiveUpRecord ==
    ASSUME RecordInv, NEW r \in Reqs, GiveUp(r)
    PROVE  RecordInv'
<1>1. Idle \in Request /\ RequestOk(Idle) /\ \A p : ~Clash(Idle, p)
  <2>1. Idle.pc = "idle"
    BY DEF Idle
  <2> QED
    BY <2>1, RequestShapes DEF RequestOk, Clash
<1> QED
  BY <1>1, RequestMoves DEF GiveUp

(* The first row a play writes carries the number of the rounds it has read. *)
LEMMA FirstRow ==
    ASSUME NEW q, q.prior \in Seq(Result), q.rows \in Seq(Result), JudgedOk(q), q.rows # <<>>
    PROVE  /\ 1 \in DOMAIN q.rows
           /\ q.rows[1].idx = Len(q.prior)
           /\ Len(q.prior) < NumRounds
<1> DEFINE p == q.prior
           w == q.rows
           all == p \o w
<1>1. /\ p \in Seq(Result) /\ w \in Seq(Result) /\ w # <<>> /\ RowsOk(all)
  BY DEF JudgedOk
<1> HIDE DEF p, w
<1>2. Len(p) \in Nat /\ Len(w) \in Nat /\ Len(w) > 0 /\ DOMAIN w = 1..Len(w)
  BY <1>1
<1>3. Len(all) = Len(p) + Len(w) /\ all[Len(p) + 1] = w[1]
  BY <1>1, <1>2
<1> HIDE DEF all
<1>4. Len(p) + 1 \in 1..Len(all) /\ (Len(p) + 1) - 1 = Len(p) /\ 1 \in DOMAIN w
  BY <1>2, <1>3
<1>5. all[Len(p) + 1].idx = (Len(p) + 1) - 1
  BY <1>1, <1>4, RowNumbers
<1>6. Len(all) <= NumRounds /\ NumRounds \in Nat
  BY <1>1, ContestAssumption DEF RowsOk, ContestAssumption
<1>7. w[1].idx = Len(p)
  BY <1>3, <1>4, <1>5
<1>8. Len(p) < NumRounds
  BY <1>2, <1>3, <1>6
<1> QED
  BY <1>4, <1>7, <1>8 DEF p, w

(* A play whose rows are new has read all there is. *)
LEMMA NewRowsFollow ==
    ASSUME NEW q, PriorOk(q), q.rows \in Seq(Result), JudgedOk(q), q.rows # <<>>, NewRows(q),
           RowsOk(results[q.user])
    PROVE  results[q.user] = q.prior
<1> DEFINE p == q.prior
           all == results[q.user]
<1>1. p \in Seq(Result) /\ all \in Seq(Result) /\ Begins(p, all)
  BY DEF PriorOk, RowsOk
<1>2. 1 \in DOMAIN q.rows /\ q.rows[1].idx = Len(p)
  BY <1>1, FirstRow
<1>3. \A n \in DOMAIN all : all[n].idx # Len(p)
  BY <1>2 DEF NewRows
<1>4. \A n \in 1..Len(all) : all[n].idx = n - 1
  BY RowNumbers
<1> HIDE DEF p, all
<1>5. Len(all) <= Len(p)
  <2>1. SUFFICES ASSUME Len(p) < Len(all) PROVE FALSE
    BY <1>1
  <2>2. Len(p) + 1 \in 1..Len(all) /\ DOMAIN all = 1..Len(all) /\ (Len(p) + 1) - 1 = Len(p)
    BY <1>1, <2>1
  <2> QED
    BY <1>3, <1>4, <2>2
<1>6. Len(all) = Len(p) /\ \A n \in 1..Len(p) : p[n] = all[n]
  BY <1>1, <1>5 DEF Begins
<1>7. all = p
  BY <1>1, <1>6
<1> QED
  BY <1>7 DEF p, all

(* Two plays of one player that read the same rounds never both write. *)
LEMMA FlushRecord ==
    ASSUME RecordInv, NEW r \in Reqs, Flush(r)
    PROVE  RecordInv'
<1> DEFINE p == req[r]
           q == [p EXCEPT !.pc = "flushed"]
<1>1. p.pc = "judged" /\ NotLocked(r) /\ NewRows(p) /\ p \in PlayReq
      /\ PriorOk(p) /\ JudgedOk(p) /\ UNCHANGED <<clock, windowVars, entryVars>>
  BY ShapeOf DEF Flush, RequestOk
<1>2. req' = [req EXCEPT ![r] = q]
  BY DEF Flush, RecordInv, TypeOK
<1>3. p.user \in Users /\ p.prior \in Seq(Result) /\ p.rows \in Seq(Result)
  BY <1>1, PlayFields
<1>4. p.rows # <<>> => results[p.user] = p.prior
  BY <1>1, <1>3, NewRowsFollow DEF RecordInv, EntryOk
<1> HIDE DEF p
<1>5. /\ q \in PlayReq /\ q.pc = "flushed" /\ q.user = p.user /\ q.prior = p.prior
      /\ q.rows = p.rows /\ q.retry = p.retry /\ q.pick = p.pick
  BY <1>1, Zenon DEF PlayReq
<1> HIDE DEF q
<1>6. PriorOk(q) /\ JudgedOk(q) /\ FlushedOk(q)
  BY <1>1, <1>4, <1>5 DEF PriorOk, JudgedOk, FlushedOk
<1>7. RequestOk(q) /\ q \in Request
  BY <1>5, <1>6, RequestShapes DEF RequestOk
<1>8. ASSUME NEW s \in Reqs \ {r} PROVE ~Clash(q, req[s])
  <2>1. SUFFICES ASSUME req[s].pc = "flushed", req[s].user = p.user,
                        req[s].rows # <<>>, p.rows # <<>>
                 PROVE  FALSE
    BY <1>5 DEF Clash
  <2>2. req[s] \in PlayReq /\ JudgedOk(req[s]) /\ FlushedOk(req[s])
    BY <2>1, ShapeOf DEF RequestOk
  <2>3. req[s].prior = p.prior
    BY <1>4, <2>1, <2>2 DEF FlushedOk
  <2>4. 1 \in DOMAIN req[s].rows /\ req[s].rows[1].idx = Len(p.prior)
    BY <2>1, <2>2, <2>3, FirstRow, PlayFields
  <2>5. 1 \in DOMAIN p.rows /\ p.rows[1].idx = Len(p.prior)
    BY <1>1, <1>3, <2>1, FirstRow
  <2>6. <<"result", p.user, Len(p.prior)>> \in Held(req[s])
    BY <2>1, <2>4 DEF Held, Writes, IsEnter
  <2>7. <<"result", p.user, Len(p.prior)>> \in Writes(req[r])
    BY <1>1, <2>5 DEF Writes, IsEnter, p
  <2> QED
    BY <1>1, <2>6, <2>7 DEF NotLocked
<1> QED
  BY <1>1, <1>2, <1>7, <1>8, RequestMoves

-----------------------------------------------------------------------------
(* The commit of enter_contest: the first entry of its player. *)
LEMMA CommitEnterRecord ==
    ASSUME RecordInv, NEW r \in Reqs, CommitEnter(r)
    PROVE  RecordInv'
<1>0. PICK u \in Users : u = req[r].user
  BY ShapeOf, EnterFields DEF CommitEnter
<1> DEFINE q == req[r]
           e == [status |-> "IN_PROGRESS", plan |-> q.plan, bank |-> q.bank]
<1>1. /\ q.pc = "inserted" /\ q \in EnterReq /\ ~Entered(u)
      /\ wstate' = wstate \/ wstate' = Due(wstate, q.at)
      /\ pinned' = pinned \/ pinned' = q.plan
      /\ entry' = [entry EXCEPT ![u] = e]
      /\ req' = [req EXCEPT ![r] = Idle]
      /\ clock' = clock /\ slot' = slot /\ content' = content /\ standings' = standings
      /\ score' = score /\ results' = results /\ retry' = retry
      /\ offered' = offered /\ bound' = bound
  BY <1>0, ShapeOf DEF CommitEnter, RequestOk
<1>2. u \in Users /\ q.at \in Nat /\ q.plan \in Version \cup {Nothing} /\ q.bank \in Version
  BY <1>1, EnterFields
<1> HIDE DEF q
<1>3. e \in Entry /\ e.status = "IN_PROGRESS" /\ e # Nothing
  BY <1>2, NothingAssumption DEF Entry, NothingAssumption
<1> HIDE DEF e
<1>4. /\ entry'[u] = e /\ \A v \in Users \ {u} : entry'[v] = entry[v]
      /\ req'[r] = Idle /\ \A s \in Reqs \ {r} : req'[s] = req[s]
  BY <1>1, <1>2 DEF RecordInv, TypeOK
<1>5. TypeOK'
  <2>1. wstate' \in {"SCHEDULED", "OPEN", "CLOSED", "SETTLED"}
    BY <1>1, <1>2, DueKeepsSettled DEF RecordInv, TypeOK, Due
  <2>2. pinned' \in Version \cup {Nothing}
    BY <1>1, <1>2 DEF RecordInv, TypeOK
  <2>3. entry' \in [Users -> Entry \cup {Nothing}]
    BY <1>1, <1>2, <1>3 DEF RecordInv, TypeOK
  <2>4. req' \in [Reqs -> Request]
    BY <1>1, RequestShapes DEF RecordInv, TypeOK
  <2> QED
    BY <1>1, <2>1, <2>2, <2>3, <2>4 DEF RecordInv, TypeOK
<1>6. \A v \in Users : Entered(v) => Entered(v)'
  BY <1>1, <1>3, <1>4 DEF Entered
<1>7. ASSUME NEW v \in Users PROVE EntryOk(v)'
  <2>0. EntryOk(v)
    BY DEF RecordInv
  <2>1. CASE v = u
    <3>1. results[u] = <<>> /\ RowsOk(results[u]) /\ ~Submitted(u) /\ score[u] = Nothing
      BY <1>1, <2>0, <2>1 DEF EntryOk, Submitted, Entered
    <3>2. Entered(u)' /\ ~Submitted(u)'
      BY <1>3, <1>4 DEF Entered, Submitted
    <3>3. Len(results[u]) # NumRounds
      BY <3>1, ContestAssumption DEF ContestAssumption
    <3>4. UNCHANGED <<results, score>>
      BY <1>1
    <3> QED
      BY <2>1, <3>1, <3>2, <3>3, <3>4 DEF EntryOk
  <2>2. CASE v # u
    BY <1>1, <1>4, <2>0, <2>2 DEF EntryOk, Submitted, Entered
  <2> QED
    BY <2>1, <2>2
<1>8. ASSUME NEW s \in Reqs PROVE RequestOk(req[s])'
  <2>1. CASE s = r
    <3>1. req'[s].pc = "idle"
      BY <1>4, <2>1 DEF Idle
    <3> QED
      BY <3>1 DEF RequestOk
  <2>2. CASE s # r
    <3>1. req'[s] = req[s] /\ RequestOk(req[s]) /\ ~Clash(req[r], req[s])
      BY <1>4, <2>2 DEF RecordInv
    <3>2. req[s].pc \in {"started", "judged", "flushed"} => PriorOk(req[s])'
      <4>1. req[s].pc \in {"started", "judged", "flushed"} => req[s].user \in Users
        BY ShapeOf, StartFields, PlayFields
      <4> QED
        BY <1>1, <1>6, <3>1, <4>1 DEF RequestOk, PriorOk, Entered
    <3>3. req[s].pc = "inserted" => ~Entered(req[s].user)'
      <4>1. req[s].pc = "inserted" => req[s].user \in Users \ {u}
        BY <1>0, <1>1, <3>1, ShapeOf, EnterFields DEF Clash, q
      <4> QED
        BY <1>4, <3>1, <4>1 DEF RequestOk, Entered
    <3>4. req[s].pc \in {"judged", "flushed"} => JudgedOk(req[s])'
      BY <3>1 DEF RequestOk, JudgedOk
    <3>5. req[s].pc = "flushed" => FlushedOk(req[s])'
      BY <1>1, <3>1 DEF RequestOk, FlushedOk
    <3> QED
      BY <3>1, <3>2, <3>3, <3>4, <3>5 DEF RequestOk
  <2> QED
    BY <2>1, <2>2
<1>9. ASSUME NEW s \in Reqs, NEW t \in Reqs, s # t PROVE ~Clash(req'[s], req'[t])
  <2>1. \A p : ~Clash(Idle, p) /\ ~Clash(p, Idle)
    BY DEF Clash, Idle
  <2> QED
    BY <1>4, <1>9, <2>1 DEF RecordInv
<1>10. score' = [v \in Users |-> score'[v]]
  BY <1>1 DEF RecordInv
<1> QED
  BY <1>5, <1>7, <1>8, <1>9, <1>10 DEF RecordInv, Clash

(* A request that has ended writes nothing. *)
LEMMA IdleOk == Idle \in Request /\ RequestOk(Idle) /\ \A p : ~Clash(Idle, p) /\ ~Clash(p, Idle)
<1>1. Idle.pc = "idle"
  BY DEF Idle
<1> QED
  BY <1>1, RequestShapes DEF RequestOk, Clash

(* What the commit of a play finds. *)
LEMMA PlayCommits ==
    ASSUME RecordInv, NEW r \in Reqs, CommitPlay(r), NEW q, q = req[r]
    PROVE  /\ q \in PlayReq /\ q.pc = "flushed" /\ q.user \in Users
           /\ q.prior \in Seq(Result) /\ q.rows \in Seq(Result)
           /\ PriorOk(q) /\ JudgedOk(q) /\ FlushedOk(q)
           /\ Len(q.prior) \in Rounds
           /\ results' = [results EXCEPT ![q.user] = @ \o q.rows]
           /\ req' = [req EXCEPT ![r] = Idle]
           /\ UNCHANGED <<clock, windowVars, bound>>
<1>1. q.pc = "flushed" /\ q \in PlayReq /\ PriorOk(q) /\ JudgedOk(q) /\ FlushedOk(q)
  BY ShapeOf DEF CommitPlay, RequestOk
<1>2. q.user \in Users /\ q.prior \in Seq(Result) /\ q.rows \in Seq(Result)
  BY <1>1, PlayFields
<1>3. Len(q.prior) \in Nat /\ Len(q.prior) < NumRounds
  BY <1>1, <1>2 DEF PriorOk
<1>4. Len(q.prior) \in Rounds
  BY <1>3, ContestAssumption DEF Rounds, ContestAssumption
<1> QED
  BY <1>1, <1>2, <1>4 DEF CommitPlay

(* A play finishes its entry when its rows are the last ones. *)
LEMMA FinishesLast ==
    ASSUME NEW q, q.prior \in Seq(Result), q.rows \in Seq(Result), JudgedOk(q)
    PROVE  /\ q.rows = <<>> => ~Finishes(q)
           /\ q.rows # <<>> => (Finishes(q) <=> Len(q.prior \o q.rows) = NumRounds)
<1> DEFINE p == q.prior
           w == q.rows
           all == p \o w
<1>1. p \in Seq(Result) /\ w \in Seq(Result) /\ RowsOk(all)
  BY DEF JudgedOk
<1>2. Finishes(q) <=> \E k \in DOMAIN w : w[k].idx = NumRounds - 1
  BY DEF Finishes
<1> HIDE DEF p, w
<1>3. Len(p) \in Nat /\ Len(w) \in Nat /\ DOMAIN w = 1..Len(w) /\ (w # <<>> <=> Len(w) > 0)
  BY <1>1
<1>4. Len(all) = Len(p) + Len(w) /\ \A k \in 1..Len(w) : all[Len(p) + k] = w[k]
  BY <1>1, <1>3
<1> HIDE DEF all
<1>5. Len(all) <= NumRounds /\ NumRounds \in Nat
  BY <1>1, ContestAssumption DEF RowsOk, ContestAssumption
<1>6. ASSUME NEW k \in 1..Len(w) PROVE w[k].idx = Len(p) + k - 1
  <2>1. Len(p) + k \in 1..Len(all)
    BY <1>3, <1>4
  <2>2. all[Len(p) + k].idx = Len(p) + k - 1
    BY <1>1, <2>1, RowNumbers
  <2> QED
    BY <1>4, <2>2
<1>7. w = <<>> => ~Finishes(q)
  BY <1>2, <1>3
<1>8. ASSUME w # <<>> PROVE Finishes(q) <=> Len(all) = NumRounds
  <2>1. ASSUME Finishes(q) PROVE Len(all) = NumRounds
    <3>1. PICK k \in 1..Len(w) : w[k].idx = NumRounds - 1
      BY <1>2, <1>3, <2>1
    <3>2. Len(p) + k - 1 = NumRounds - 1
      BY <1>6, <3>1
    <3> QED
      BY <1>3, <1>4, <1>5, <3>2
  <2>2. ASSUME Len(all) = NumRounds PROVE Finishes(q)
    <3>1. Len(w) \in 1..Len(w)
      BY <1>3, <1>8
    <3>2. w[Len(w)].idx = Len(p) + Len(w) - 1
      BY <1>6, <3>1
    <3>3. w[Len(w)].idx = NumRounds - 1
      BY <1>4, <2>2, <3>2
    <3> QED
      BY <1>2, <1>3, <3>1, <3>3
  <2> QED
    BY <2>1, <2>2
<1> QED
  BY <1>7, <1>8 DEF p, w, all

(* What the commit of a play writes is well typed. *)
LEMMA CommitPlayTypes ==
    ASSUME RecordInv, NEW r \in Reqs, CommitPlay(r)
    PROVE  TypeOK'
<1>1. PICK q : q = req[r]
  OBVIOUS
<1> DEFINE u == q.user
           i == Len(q.prior)
<1>2. /\ u \in Users /\ q.rows \in Seq(Result) /\ q \in PlayReq /\ JudgedOk(q) /\ i \in Rounds
      /\ results' = [results EXCEPT ![u] = @ \o q.rows] /\ Entered(u)
      /\ req' = [req EXCEPT ![r] = Idle]
      /\ clock' = clock /\ slot' = slot /\ wstate' = wstate /\ content' = content
      /\ pinned' = pinned /\ standings' = standings /\ bound' = bound
  BY <1>1, PlayCommits DEF windowVars, PriorOk
<1>3. /\ entry' = entry \/ entry' = [entry EXCEPT ![u].status = "SUBMITTED"]
      /\ offered' = offered \/ offered' = [offered EXCEPT ![u] = @ \cup {i}]
  BY <1>1 DEF CommitPlay
<1>4. \/ retry' = retry
      \/ retry' = [retry EXCEPT ![u][i] = Nothing]
      \/ q.retry = "offer" /\ retry' = [retry EXCEPT ![u][i] = q.pick]
  BY <1>1, <1>2, PlayFields DEF CommitPlay
<1>5. q.retry = "offer" => q.pick \in Options
  BY <1>2 DEF JudgedOk
<1> HIDE DEF u, i
<1>6. results' \in [Users -> Seq(Result)]
  <2>1. results[u] \o q.rows \in Seq(Result)
    BY <1>2 DEF RecordInv, TypeOK
  <2> QED
    BY <1>2, <2>1 DEF RecordInv, TypeOK
<1>7. entry' \in [Users -> Entry \cup {Nothing}]
  <2>1. entry[u] \in Entry
    BY <1>2 DEF RecordInv, TypeOK, Entered
  <2>2. [entry[u] EXCEPT !.status = "SUBMITTED"] \in Entry
    BY <2>1, Zenon DEF Entry
  <2>3. [entry EXCEPT ![u].status = "SUBMITTED"]
          = [entry EXCEPT ![u] = [entry[u] EXCEPT !.status = "SUBMITTED"]]
    BY DEF RecordInv, TypeOK
  <2> QED
    BY <1>2, <1>3, <2>2, <2>3 DEF RecordInv, TypeOK
<1>8. retry' \in [Users -> [Rounds -> Options \cup {Nothing}]]
  <2>1. retry \in [Users -> [Rounds -> Options \cup {Nothing}]]
    BY DEF RecordInv, TypeOK
  <2>2. ASSUME NEW x \in Options \cup {Nothing}
        PROVE  [retry EXCEPT ![u][i] = x] \in [Users -> [Rounds -> Options \cup {Nothing}]]
    BY <1>2, <2>1
  <2>3. CASE q.retry = "offer" /\ retry' = [retry EXCEPT ![u][i] = q.pick]
    BY <1>5, <2>2, <2>3
  <2>4. CASE retry' = [retry EXCEPT ![u][i] = Nothing]
    BY <2>2, <2>4
  <2> QED
    BY <1>4, <2>1, <2>3, <2>4
<1>9. offered' \in [Users -> SUBSET Rounds]
  <2>1. offered \in [Users -> SUBSET Rounds]
    BY DEF RecordInv, TypeOK
  <2>2. offered[u] \cup {i} \in SUBSET Rounds
    BY <1>2, <2>1
  <2> QED
    BY <1>2, <1>3, <2>1, <2>2
<1>10. req' \in [Reqs -> Request]
  BY <1>2, IdleOk DEF RecordInv, TypeOK
<1> QED
  BY <1>2, <1>6, <1>7, <1>8, <1>9, <1>10 DEF RecordInv, TypeOK

(* The steps of the clock, the scheduler and the deploys are well typed. *)
LEMMA OutsideTypes ==
    ASSUME RecordInv,
           Tick \/ TransitionWindows \/ Settle \/ DeployContent \/ Over \/ UNCHANGED vars
    PROVE  TypeOK'
<1>1. clock \in 0..Horizon /\ Horizon \in Nat /\ MaxDeploys \in Nat /\ content \in Version
      /\ wstate \in {"SCHEDULED", "OPEN", "CLOSED", "SETTLED"} /\ TypeOK
  BY ContestAssumption DEF RecordInv, TypeOK, ContestAssumption
<1>2. CASE Tick
  <2>1. clock' \in 0..Horizon
    BY <1>1, <1>2 DEF Tick
  <2> QED
    BY <1>1, <1>2, <2>1 DEF Tick, windowVars, entryVars, TypeOK
<1>3. CASE TransitionWindows
  <2>1. wstate' \in {"SCHEDULED", "OPEN", "CLOSED", "SETTLED"}
    BY <1>1, <1>3, DueKeepsSettled DEF TransitionWindows
  <2> QED
    BY <1>1, <1>3, <2>1 DEF TransitionWindows, entryVars, TypeOK
<1>4. CASE Settle
  BY <1>1, <1>4 DEF Settle, entryVars, TypeOK
<1>5. CASE DeployContent
  <2>1. content' \in Version
    BY <1>1, <1>5 DEF DeployContent, Version
  <2> QED
    BY <1>1, <1>5, <2>1 DEF DeployContent, entryVars, TypeOK
<1>6. CASE Over \/ UNCHANGED vars
  BY <1>1, <1>6 DEF Over, vars, TypeOK
<1> QED
  BY <1>2, <1>3, <1>4, <1>5, <1>6

(* A beginning of some rounds is a beginning of more of them. *)
LEMMA BeginsLonger ==
    ASSUME NEW s \in Seq(Result), NEW t \in Seq(Result), NEW w \in Seq(Result), Begins(s, t)
    PROVE  Begins(s, t \o w)
<1>1. /\ Len(s) \in Nat /\ Len(t) \in Nat /\ Len(w) \in Nat
      /\ Len(t \o w) = Len(t) + Len(w)
      /\ \A n \in 1..Len(t) : (t \o w)[n] = t[n]
  OBVIOUS
<1>2. Len(s) <= Len(t) /\ \A n \in 1..Len(s) : n \in 1..Len(t) /\ s[n] = t[n]
  BY <1>1 DEF Begins
<1> QED
  BY <1>1, <1>2 DEF Begins

(* The rounds of an entry grow by the rows of a play that has read them all. *)
LEMMA CommitRowsRecord ==
    ASSUME RecordInv, NEW r \in Reqs, CommitPlay(r), req[r].rows # <<>>
    PROVE  RecordInv'
<1>1. PICK q : q = req[r]
  OBVIOUS
<1> DEFINE u == q.user
           all == q.prior \o q.rows
<1>2. /\ u \in Users /\ q \in PlayReq /\ q.pc = "flushed"
      /\ q.prior \in Seq(Result) /\ q.rows \in Seq(Result)
      /\ JudgedOk(q) /\ Entered(u) /\ results[u] = q.prior /\ q.rows # <<>>
      /\ results' = [results EXCEPT ![u] = @ \o q.rows]
      /\ req' = [req EXCEPT ![r] = Idle]
      /\ Len(q.prior) < NumRounds
  BY <1>1, PlayCommits DEF FlushedOk, PriorOk
<1>3. /\ RowsOk(all)
      /\ \A p \in Seq(Result) : Begins(p, q.prior) => Begins(p, all)
  BY <1>2, BeginsLonger DEF JudgedOk
<1>4. Finishes(q) <=> Len(all) = NumRounds
  BY <1>2, FinishesLast
<1>5. /\ entry' = IF Finishes(q) THEN [entry EXCEPT ![u].status = "SUBMITTED"] ELSE entry
      /\ score' = IF Finishes(q) THEN [score EXCEPT ![u] = Total(all)] ELSE score
  BY <1>1 DEF CommitPlay
<1>6. EntryOk(u) /\ ~Submitted(u)
  <2>1. EntryOk(u)
    BY <1>2 DEF RecordInv
  <2> QED
    BY <1>2, <2>1 DEF EntryOk
<1>7. score = [v \in Users |-> score[v]] /\ entry \in [Users -> Entry \cup {Nothing}]
      /\ results \in [Users -> Seq(Result)] /\ req \in [Reqs -> Request]
  BY DEF RecordInv, TypeOK
<1> HIDE DEF u, all
<1>8. /\ results'[u] = all /\ \A v \in Users \ {u} : results'[v] = results[v]
      /\ req'[r] = Idle /\ \A s \in Reqs \ {r} : req'[s] = req[s]
  BY <1>2, <1>7 DEF all
<1>9. /\ \A v \in Users \ {u} : entry'[v] = entry[v] /\ score'[v] = score[v]
      /\ score' = [v \in Users |-> score'[v]]
      /\ score'[u] = IF Finishes(q) THEN Total(all) ELSE Nothing
  <2>1. score[u] = Nothing
    BY <1>6 DEF EntryOk
  <2> QED
    BY <1>2, <1>5, <1>7, <2>1
<1>10. Entered(u)' /\ (Submitted(u)' <=> Finishes(q))
  <2>1. entry[u] \in Entry
    BY <1>2, <1>7 DEF Entered
  <2>2. [entry[u] EXCEPT !.status = "SUBMITTED"] \in Entry
    BY <2>1, Zenon DEF Entry
  <2>3. [entry[u] EXCEPT !.status = "SUBMITTED"].status = "SUBMITTED"
    BY <2>1, Zenon DEF Entry
  <2>4. CASE Finishes(q)
    <3>0. [entry EXCEPT ![u].status = "SUBMITTED"]
            = [entry EXCEPT ![u] = [entry[u] EXCEPT !.status = "SUBMITTED"]]
      BY <1>7
    <3>1. entry'[u] = [entry[u] EXCEPT !.status = "SUBMITTED"]
      BY <1>2, <1>5, <1>7, <2>4, <3>0
    <3> QED
      BY <2>2, <2>3, <2>4, <3>1, NothingAssumption DEF Entered, Submitted
  <2>5. CASE ~Finishes(q)
    BY <1>2, <1>5, <1>6, <2>5 DEF Entered, Submitted
  <2> QED
    BY <2>4, <2>5
<1>11. ASSUME NEW v \in Users PROVE EntryOk(v)'
  <2>1. CASE v = u
    BY <1>3, <1>4, <1>8, <1>9, <1>10, <2>1 DEF EntryOk
  <2>2. CASE v # u
    <3>1. EntryOk(v)
      BY DEF RecordInv
    <3> QED
      BY <1>8, <1>9, <2>2, <3>1 DEF EntryOk, Submitted, Entered
  <2> QED
    BY <2>1, <2>2
<1>12. ASSUME NEW s \in Reqs PROVE RequestOk(req[s])'
  <2>1. CASE s = r
    BY <1>8, <2>1, IdleOk DEF RequestOk, Idle
  <2>2. CASE s # r
    <3>1. PICK p : p = req[s]
      OBVIOUS
    <3>2. req'[s] = p /\ RequestOk(p) /\ ~Clash(p, q)
      BY <1>1, <1>8, <2>2, <3>1 DEF RecordInv
    <3>3. ASSUME p.pc \in {"started", "judged", "flushed"} PROVE PriorOk(p)'
      <4>1. PriorOk(p) /\ p.user \in Users /\ p.prior \in Seq(Result)
        BY <3>1, <3>2, <3>3, ShapeOf, StartFields, PlayFields DEF RequestOk
      <4>2. CASE p.user = u
        <5>1. Begins(p.prior, all)
          BY <1>2, <1>3, <4>1, <4>2 DEF PriorOk, Begins
        <5> QED
          BY <1>8, <1>10, <4>1, <4>2, <5>1 DEF PriorOk, Begins
      <4>3. CASE p.user # u
        BY <1>8, <1>9, <4>1, <4>3 DEF PriorOk, Begins, Entered
      <4> QED
        BY <4>2, <4>3
    <3>4. ASSUME p.pc = "inserted" PROVE ~Entered(p.user)'
      <4>1. p.user \in Users /\ ~Entered(p.user)
        BY <3>1, <3>2, <3>4, ShapeOf, EnterFields DEF RequestOk
      <4>2. p.user # u
        BY <1>2, <4>1
      <4> QED
        BY <1>9, <4>1, <4>2 DEF Entered
    <3>5. ASSUME p.pc = "flushed" PROVE FlushedOk(p)'
      <4>1. p.user \in Users /\ FlushedOk(p)
        BY <3>1, <3>2, <3>5, ShapeOf, PlayFields DEF RequestOk
      <4>2. p.user = u => p.rows = <<>>
        BY <1>2, <3>2, <3>5 DEF Clash, u
      <4> QED
        BY <1>8, <4>1, <4>2 DEF FlushedOk
    <3>6. p.pc \in {"judged", "flushed"} => JudgedOk(p)'
      BY <3>2 DEF RequestOk, JudgedOk
    <3> QED
      BY <3>2, <3>3, <3>4, <3>5, <3>6 DEF RequestOk, PriorOk, JudgedOk, FlushedOk, Entered
  <2> QED
    BY <2>1, <2>2
<1>13. ASSUME NEW s \in Reqs, NEW t \in Reqs, s # t PROVE ~Clash(req'[s], req'[t])
  BY <1>8, <1>13, IdleOk DEF RecordInv
<1> QED
  BY <1>9, <1>11, <1>12, <1>13, CommitPlayTypes DEF RecordInv, Clash

(* A second chance is recorded beside the rounds. *)
LEMMA CommitOfferRecord ==
    ASSUME RecordInv, NEW r \in Reqs, CommitPlay(r), req[r].rows = <<>>
    PROVE  RecordInv'
<1>1. PICK q : q = req[r]
  OBVIOUS
<1>2. /\ q.user \in Users /\ q.prior \in Seq(Result) /\ q.rows = <<>> /\ JudgedOk(q)
      /\ q.rows \in Seq(Result)
      /\ results' = [results EXCEPT ![q.user] = @ \o q.rows]
      /\ req' = [req EXCEPT ![r] = Idle]
  BY <1>1, PlayCommits
<1>3. ~Finishes(q)
  BY <1>2, FinishesLast
<1>4. entry' = entry /\ score' = score
  BY <1>1, <1>3 DEF CommitPlay
<1>5. results' = results
  <2>1. results \in [Users -> Seq(Result)]
    BY DEF RecordInv, TypeOK
  <2>2. results[q.user] \o q.rows = results[q.user]
    BY <1>2, <2>1
  <2> QED
    BY <1>2, <2>1, <2>2
<1> QED
  BY <1>2, <1>4, <1>5, IdleOk, CommitPlayTypes, RequestTurns

(* Every step preserves the invariant. *)
LEMMA NextRecord == RecordInv /\ [Next]_vars => RecordInv'
<1> SUFFICES ASSUME RecordInv, [Next]_vars PROVE RecordInv'
  OBVIOUS
<1>1. CASE Tick \/ TransitionWindows \/ Settle \/ DeployContent \/ Over \/ UNCHANGED vars
  <2>1. UNCHANGED <<entry, score, results, req>>
    BY <1>1 DEF Tick, TransitionWindows, Settle, DeployContent, Over, vars, entryVars
  <2>2. TypeOK'
    BY <1>1, OutsideTypes
  <2> QED
    BY <2>1, <2>2, RecordStays
<1>2. ASSUME NEW u \in Users, NEW i \in Rounds, PlayInteractive(u, i) PROVE RecordInv'
  <2>1. UNCHANGED <<entry, score, results, req>>
    BY <1>2 DEF PlayInteractive
  <2>2. TypeOK'
    BY <1>2 DEF PlayInteractive, windowVars, RecordInv, TypeOK
  <2> QED
    BY <2>1, <2>2, RecordStays
<1>3. ASSUME NEW r \in Reqs, Arrive(r) PROVE RecordInv'
  BY <1>3, StartEnterRecord, StartSubmitRecord, StartAnswerRecord DEF Arrive
<1>4. ASSUME NEW r \in Reqs, Proceed(r) PROVE RecordInv'
  BY <1>4, InsertEntryRecord, CommitEnterRecord, JudgeRecord, FlushRecord,
     CommitRowsRecord, CommitOfferRecord, GiveUpRecord DEF Proceed
<1> QED
  BY <1>1, <1>2, <1>3, <1>4 DEF Next

(* The invariant holds in every reachable state. *)
LEMMA RecordAlways == Spec => []RecordInv
BY InitRecord, NextRecord, PTL DEF Spec

(***************************************************************************)
(* Every reachable state is well typed: the plan and bank of an entry, its *)
(* rows and second chances, and what every request in flight carries.      *)
(***************************************************************************)
THEOREM ContestTypes == Spec => []TypeOK
<1>1. RecordInv => TypeOK
  BY DEF RecordInv
<1> QED
  BY <1>1, RecordAlways, PTL

(***************************************************************************)
(* The rounds of an entry are recorded once each and in order, and it is   *)
(* SUBMITTED exactly when the last one is, for any number of players,      *)
(* rounds and requests in flight (contest.py: answer_round, submit_entry). *)
(***************************************************************************)
THEOREM ContestWellFormed == Spec => []WellFormed
<1>1. RecordInv => WellFormed
  <2> SUFFICES ASSUME RecordInv, NEW u \in Users
               PROVE  /\ \A n \in DOMAIN results[u] : results[u][n].idx = n - 1
                      /\ Submitted(u) <=> Len(results[u]) = NumRounds
                      /\ ~Entered(u) => results[u] = <<>>
    BY DEF WellFormed
  <2>1. EntryOk(u)
    BY DEF RecordInv
  <2>2. results[u] \in Seq(Result) /\ RowsOk(results[u])
    BY <2>1 DEF EntryOk, RowsOk
  <2>3. \A n \in DOMAIN results[u] : results[u][n].idx = n - 1
    BY <2>2, RowNumbers
  <2> QED
    BY <2>1, <2>3 DEF EntryOk
<1> QED
  BY <1>1, RecordAlways, PTL

(***************************************************************************)
(* Rounds that separate requests scored one by one are the rows a batch    *)
(* re-score of the entry gives, and its total is their sum, for every      *)
(* number of rounds (contest.py: answer_round; scoring.py: score_entry).   *)
(***************************************************************************)
THEOREM ContestScoreAgrees == Spec => []ScoreAgrees
<1>1. RecordInv => ScoreAgrees
  BY RowsAreBatch DEF RecordInv, EntryOk, ScoreAgrees
<1> QED
  BY <1>1, RecordAlways, PTL

-----------------------------------------------------------------------------
LEMMA PrefixOfItself ==
    ASSUME NEW s \in Seq(Result)
    PROVE  IsPrefix(s, s)
BY DEF IsPrefix

LEMMA PrefixOfMore ==
    ASSUME NEW s \in Seq(Result), NEW w \in Seq(Result)
    PROVE  IsPrefix(s, s \o w)
<1>1. Len(s) \in Nat /\ Len(w) \in Nat /\ Len(s \o w) = Len(s) + Len(w)
  OBVIOUS
<1>2. SubSeq(s \o w, 1, Len(s)) = s /\ SubSeq(s, 1, Len(s)) = s
  OBVIOUS
<1> QED
  BY <1>1, <1>2 DEF IsPrefix

(* What a step may do to the entry of one user. *)
Forward(u) ==
    /\ Entered(u) => /\ entry[u]' # Nothing
                     /\ entry[u]'.plan = entry[u].plan
                     /\ entry[u]'.bank = entry[u].bank
                     /\ Submitted(u) => Submitted(u)' /\ score[u]' = score[u]
    /\ IsPrefix(results[u], results[u]')

LEMMA SameForward ==
    ASSUME RecordInv, NEW u \in Users, entry'[u] = entry[u], score'[u] = score[u],
           results'[u] = results[u]
    PROVE  Forward(u)
BY PrefixOfItself DEF Forward, Entered, Submitted, RecordInv, TypeOK

(* No transition takes a window back. *)
LEMMA DueForward ==
    ASSUME NEW s \in {"SCHEDULED", "OPEN", "CLOSED", "SETTLED"}, NEW t \in Nat
    PROVE  WindowRank(s) <= WindowRank(Due(s, t))
BY DEF Due, WindowRank

LEMMA RankNat ==
    ASSUME NEW s \in {"SCHEDULED", "OPEN", "CLOSED", "SETTLED"}
    PROVE  WindowRank(s) \in 0..3
BY DEF WindowRank

(* An entry is only written where there was none. *)
LEMMA CommitEnterForward ==
    ASSUME RecordInv, NEW r \in Reqs, CommitEnter(r)
    PROVE  OnlyForward
<1>1. PICK q \in EnterReq : q = req[r]
  BY ShapeOf DEF CommitEnter
<1>2. ~Entered(q.user) /\ q.user \in Users /\ q.at \in Nat
  BY <1>1, ShapeOf, EnterFields DEF RequestOk, CommitEnter
<1>3. /\ wstate' = wstate \/ wstate' = Due(wstate, q.at)
      /\ score' = score /\ results' = results
      /\ \A v \in Users : v # q.user => entry'[v] = entry[v]
  BY <1>1 DEF CommitEnter, RecordInv, TypeOK
<1>4. WindowRank(wstate) <= WindowRank(wstate')
  BY <1>2, <1>3, DueForward, RankNat DEF RecordInv, TypeOK
<1>5. ASSUME NEW u \in Users PROVE Forward(u)
  <2>1. CASE u = q.user
    BY <1>2, <1>3, <2>1, PrefixOfItself DEF Forward, RecordInv, TypeOK
  <2>2. CASE u # q.user
    BY <1>3, <2>2, SameForward
  <2> QED
    BY <2>1, <2>2
<1> QED
  BY <1>4, <1>5 DEF OnlyForward, Forward

(* A play adds its rows and ends an entry that was in progress. *)
LEMMA CommitPlayForward ==
    ASSUME RecordInv, NEW r \in Reqs, CommitPlay(r)
    PROVE  OnlyForward
<1>1. PICK q : q = req[r]
  OBVIOUS
<1>2. /\ q.user \in Users /\ q.prior \in Seq(Result) /\ q.rows \in Seq(Result)
      /\ PriorOk(q) /\ JudgedOk(q) /\ FlushedOk(q)
      /\ results' = [results EXCEPT ![q.user] = @ \o q.rows] /\ wstate' = wstate
  BY <1>1, PlayCommits DEF windowVars
<1> DEFINE u == q.user
<1>3. /\ entry' = IF Finishes(q) THEN [entry EXCEPT ![u].status = "SUBMITTED"] ELSE entry
      /\ score' = IF Finishes(q) THEN [score EXCEPT ![u] = Total(q.prior \o q.rows)] ELSE score
  BY <1>1 DEF CommitPlay
<1>4. entry \in [Users -> Entry \cup {Nothing}] /\ results \in [Users -> Seq(Result)]
      /\ score = [v \in Users |-> score[v]]
  BY DEF RecordInv, TypeOK
<1>5. [entry EXCEPT ![u].status = "SUBMITTED"]
        = [entry EXCEPT ![u] = [entry[u] EXCEPT !.status = "SUBMITTED"]]
  BY <1>4
<1> HIDE DEF u
<1>6. ASSUME NEW v \in Users, v # u PROVE Forward(v)
  <2>1. entry'[v] = entry[v] /\ score'[v] = score[v] /\ results'[v] = results[v]
    BY <1>2, <1>3, <1>4, <1>5, <1>6 DEF u
  <2> QED
    BY <2>1, SameForward
<1>7. Forward(u)
  <2>1. results'[u] = results[u] \o q.rows /\ results[u] \in Seq(Result)
    BY <1>2, <1>4 DEF u
  <2>2. IsPrefix(results[u], results'[u])
    BY <1>2, <2>1, PrefixOfMore
  <2>3. CASE Finishes(q)
    <3>1. entry[u] \in Entry
      BY <1>2, <1>4 DEF u, PriorOk, Entered
    <3> DEFINE e == [entry[u] EXCEPT !.status = "SUBMITTED"]
    <3>2. e \in Entry /\ e.plan = entry[u].plan /\ e.bank = entry[u].bank
      BY <3>1, Zenon DEF Entry
    <3>3. entry'[u] = e
      BY <1>2, <1>3, <1>4, <1>5, <2>3 DEF u
    <3>4. ~Submitted(u)
      <4>1. q.rows # <<>>
        BY <1>2, <2>3, FinishesLast
      <4>2. Len(results[u]) < NumRounds /\ EntryOk(u)
        BY <1>2, <4>1 DEF u, FlushedOk, PriorOk, RecordInv
      <4> QED
        BY <2>1, <4>2 DEF EntryOk
    <3> HIDE DEF e
    <3> QED
      BY <2>2, <3>2, <3>3, <3>4, NothingAssumption DEF Forward
  <2>4. CASE ~Finishes(q)
    BY <1>3, <2>2, <2>4 DEF Forward, Submitted, Entered
  <2> QED
    BY <2>3, <2>4
<1>8. WindowRank(wstate) <= WindowRank(wstate')
  BY <1>2, RankNat DEF RecordInv, TypeOK
<1> QED
  BY <1>6, <1>7, <1>8 DEF OnlyForward, Forward

(* What moves no entry moves the window at most. *)
LEMMA ElsewhereForward ==
    ASSUME RecordInv, UNCHANGED <<entry, score, results>>,
           \/ wstate' = wstate
           \/ \E t \in Nat : wstate' = Due(wstate, t)
           \/ wstate = "CLOSED" /\ wstate' = "SETTLED"
    PROVE  OnlyForward
<1>1. entry' = entry /\ score' = score /\ results' = results
  OBVIOUS
<1>2. \A u \in Users : Forward(u)
  BY <1>1, SameForward
<1>3. WindowRank(wstate) <= WindowRank(wstate')
  <2>1. wstate \in {"SCHEDULED", "OPEN", "CLOSED", "SETTLED"}
    BY DEF RecordInv, TypeOK
  <2>2. CASE wstate' = wstate
    BY <2>1, <2>2, RankNat
  <2>3. CASE \E t \in Nat : wstate' = Due(wstate, t)
    BY <2>1, <2>3, DueForward
  <2>4. CASE wstate = "CLOSED" /\ wstate' = "SETTLED"
    BY <2>4 DEF WindowRank
  <2> QED
    BY <2>2, <2>3, <2>4
<1> QED
  BY <1>2, <1>3 DEF OnlyForward, Forward

(***************************************************************************)
(* What is recorded stays, in every step: plan and bank, rounds and total  *)
(* of an entry, and the progress of the window.                            *)
(***************************************************************************)
THEOREM ContestRecorded == Spec => Recorded
<1>1. RecordInv /\ Next => OnlyForward
  <2> SUFFICES ASSUME RecordInv, Next PROVE OnlyForward
    OBVIOUS
  <2>1. clock \in Nat
    BY ContestAssumption DEF RecordInv, TypeOK, ContestAssumption
  <2>2. CASE Tick \/ TransitionWindows \/ Settle \/ DeployContent \/ Over
    BY <2>1, <2>2, ElsewhereForward
    DEF Tick, TransitionWindows, Settle, DeployContent, Over, vars, entryVars, windowVars
  <2>3. ASSUME NEW u \in Users, NEW i \in Rounds, PlayInteractive(u, i) PROVE OnlyForward
    BY <2>3, ElsewhereForward DEF PlayInteractive, windowVars
  <2>4. ASSUME NEW r \in Reqs, Arrive(r) PROVE OnlyForward
    BY <2>4, ElsewhereForward
    DEF Arrive, StartEnter, StartSubmit, StartAnswer, entryVars, windowVars
  <2>5. ASSUME NEW r \in Reqs,
               \/ InsertEntry(r) \/ JudgeInteractive(r) \/ JudgeFirst(r) \/ JudgeSecond(r)
               \/ Flush(r) \/ GiveUp(r)
        PROVE  OnlyForward
    BY <2>5, ElsewhereForward
    DEF InsertEntry, JudgeInteractive, JudgeFirst, JudgeSecond, Flush, GiveUp,
        entryVars, windowVars
  <2>6. ASSUME NEW r \in Reqs, CommitEnter(r) \/ CommitPlay(r) PROVE OnlyForward
    BY <2>6, CommitEnterForward, CommitPlayForward
  <2> QED
    BY <2>2, <2>3, <2>4, <2>5, <2>6 DEF Next, Proceed
<1> QED
  BY <1>1, RecordAlways, PTL DEF Spec, Recorded
=============================================================================
