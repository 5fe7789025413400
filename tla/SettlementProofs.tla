--------------------------- MODULE SettlementProofs ---------------------------
(***************************************************************************)
(* Proofs about Settlement for every finite set of users, every set of     *)
(* runners and every number of days.  In this order:                       *)
(*   - the claimed row of season_resets closes a season once (SeasonInv);  *)
(*   - days in the order of their dates (Ascending);                       *)
(*   - what the runners lock and carry (BatchInv), which types rest on;    *)
(*   - the gems of the ledger are those of the standings (GemInv);         *)
(*   - streaks and ratings are what the standings explain (StreakInv,      *)
(*     RatingInv), by folding one more day at a time (FoldFacts).          *)
(***************************************************************************)
EXTENDS Settlement, FiniteSetTheorems, TLAPS

(* A runner that has inserted its season_resets row and not committed yet. *)
Claims(r) == runner[r].pc \in {"reset", "closing"}

(* The clock stands between the first midnight and the last tick. *)
ClockInv == clock \in 2..(2 * NumDays + 1)

(* The runners are a function, and each is at some step. *)
RunnerInv ==
    /\ runner = [r \in Runners |-> runner[r]]
    /\ \A r \in Runners : "pc" \in DOMAIN runner[r]

(* The season a runner has claimed is not closed yet ... *)
ClaimInv ==
    \A r \in Runners : Claims(r) =>
        /\ runner[r].season \in Int
        /\ \A n \in DOMAIN resets : resets[n] # runner[r].season

(* ... and nobody else has a claim. *)
OneClaim == \A r, s \in Runners : Claims(r) /\ Claims(s) => r = s

(* The inductive invariant of the season: the closed ones differ too. *)
SeasonInv ==
    /\ ClockInv
    /\ RunnerInv
    /\ resets \in Seq(Int)
    /\ ClaimInv
    /\ OneClaim
    /\ SeasonClosedOnce

-----------------------------------------------------------------------------
(* At first nothing is claimed and one season is closed. *)
LEMMA InitSeason == Init => SeasonInv
<1> SUFFICES ASSUME Init PROVE SeasonInv
  OBVIOUS
<1>1. NumDays \in Nat \ {0} /\ Season[0] \in Int
  BY SettlementAssumption DEF SettlementAssumption
<1>2. clock = 2 /\ resets = <<Season[0]>> /\ runner = [r \in Runners |-> Idle]
  BY DEF Init
<1>3. ClockInv
  BY <1>1, <1>2 DEF ClockInv
<1>4. RunnerInv /\ ClaimInv /\ OneClaim
  BY <1>2 DEF RunnerInv, ClaimInv, OneClaim, Claims, Idle
<1>5. resets \in Seq(Int) /\ SeasonClosedOnce
  BY <1>1, <1>2 DEF SeasonClosedOnce, IsInjective
<1> QED
  BY <1>3, <1>4, <1>5 DEF SeasonInv

(* The season a heartbeat closes is a month of the calendar. *)
LEMMA EndedSeasonType == ASSUME ClockInv PROVE EndedSeason \in Int
<1>1. NumDays \in Nat /\ Season \in [0..(NumDays + 1) -> Int]
  BY SettlementAssumption DEF SettlementAssumption
<1>2. Today \in 0..(NumDays + 1)
  BY <1>1 DEF ClockInv, Today
<1> QED
  BY <1>1, <1>2 DEF EndedSeason

(* A runner that goes on as q, without a claim. *)
LEMMA NoClaimStep ==
    ASSUME SeasonInv, NEW r \in Runners, NEW q,
           "pc" \in DOMAIN q, q.pc \notin {"reset", "closing"},
           runner' = [runner EXCEPT ![r] = q],
           UNCHANGED <<clock, resets>>
    PROVE  SeasonInv'
<1>1. RunnerInv' /\ ClockInv' /\ (resets \in Seq(Int))' /\ SeasonClosedOnce'
  BY DEF SeasonInv, RunnerInv, ClockInv, SeasonClosedOnce
<1>2. ~Claims(r)'
  BY DEF SeasonInv, RunnerInv, Claims
<1>3. \A s \in Runners : s # r => runner'[s] = runner[s]
  BY DEF SeasonInv, RunnerInv
<1>4. ClaimInv' /\ OneClaim'
  BY <1>2, <1>3 DEF SeasonInv, ClaimInv, OneClaim, Claims
<1> QED
  BY <1>1, <1>4 DEF SeasonInv

(* A runner that keeps its claim, or makes one that nobody else has. *)
LEMMA ClaimStep ==
    ASSUME SeasonInv, NEW r \in Runners, NEW q,
           "pc" \in DOMAIN q, q.pc \in {"reset", "closing"},
           q.season \in Int,
           \A n \in DOMAIN resets : resets[n] # q.season,
           \A s \in Others(r) : ~Claims(s),
           runner' = [runner EXCEPT ![r] = q],
           UNCHANGED <<clock, resets>>
    PROVE  SeasonInv'
<1>1. RunnerInv' /\ ClockInv' /\ (resets \in Seq(Int))' /\ SeasonClosedOnce'
  BY DEF SeasonInv, RunnerInv, ClockInv, SeasonClosedOnce
<1>2. runner'[r] = q
  BY DEF SeasonInv, RunnerInv
<1>3. \A s \in Runners : s # r => runner'[s] = runner[s]
  BY DEF SeasonInv, RunnerInv
<1>4. \A s \in Runners : s # r => ~Claims(s)'
  BY <1>3 DEF Claims, Others
<1>5. ClaimInv' /\ OneClaim'
  BY <1>2, <1>4 DEF ClaimInv, OneClaim, Claims
<1> QED
  BY <1>1, <1>5 DEF SeasonInv

-----------------------------------------------------------------------------
(* The clock, the players and the guests touch no claim. *)
LEMMA WorldStep ==
    ASSUME SeasonInv,
           \/ Tick
           \/ \E d \in Days : CloseDay(d)
           \/ \E u \in Users : SaveProfile(u)
           \/ UNCHANGED vars
    PROVE  SeasonInv'
<1>1. UNCHANGED <<runner, resets>>
  BY DEF Tick, CloseDay, SaveProfile, vars, tables
<1>2. NumDays \in Nat
  BY SettlementAssumption DEF SettlementAssumption
<1>3. clock' = clock \/ (clock < 2 * NumDays + 1 /\ clock' = clock + 1)
  BY DEF Tick, CloseDay, SaveProfile, vars
<1>4. ClockInv'
  BY <1>2, <1>3 DEF SeasonInv, ClockInv
<1> QED
  BY <1>1, <1>4
     DEF SeasonInv, RunnerInv, ClaimInv, OneClaim, Claims, SeasonClosedOnce

(* The steps of a batch make no claim. *)
LEMMA StartBatchStep ==
    ASSUME SeasonInv, NEW r \in Runners, StartBatch(r) PROVE SeasonInv'
<1> DEFINE due == InOrder(DueDays)
           q == [pc |-> "next", due |-> due, draft |-> NoDraft]
<1>1. runner' = [runner EXCEPT ![r] = q] /\ UNCHANGED <<clock, resets>>
  BY DEF StartBatch, tables
<1> HIDE DEF due
<1>2. "pc" \in DOMAIN q /\ q.pc = "next"
  OBVIOUS
<1> HIDE DEF q
<1> QED
  BY <1>1, <1>2, NoClaimStep

(* Locking a window makes no claim. *)
LEMMA LockWindowStep ==
    ASSUME SeasonInv, NEW r \in Runners, LockWindow(r) PROVE SeasonInv'
<1>1. runner[r].pc = "next" /\ "pc" \in DOMAIN runner[r]
  BY DEF LockWindow, SeasonInv, RunnerInv
<1>2. UNCHANGED <<clock, resets>>
  BY DEF LockWindow, tables
<1> DEFINE d == Head(runner[r].due)
           field == Saved(ranking[d])
           read == [u \in Range(field) |-> Seen(r, u)]
           locked == [pc |-> "pay", due |-> runner[r].due, draft |-> runner[r].draft,
                      field |-> field, read |-> read]
           skipped == [runner[r] EXCEPT !.due = Tail(@)]
<1>3. CASE StillClosed(d)
  <2>1. runner' = [runner EXCEPT ![r] = locked]
    BY <1>3 DEF LockWindow, SeasonInv, RunnerInv
  <2> HIDE DEF read, field
  <2>2. "pc" \in DOMAIN locked /\ locked.pc = "pay"
    OBVIOUS
  <2> HIDE DEF locked
  <2> QED
    BY <1>2, <2>1, <2>2, NoClaimStep
<1>4. CASE ~StillClosed(d)
  <2>1. runner' = [runner EXCEPT ![r] = skipped]
    BY <1>4 DEF LockWindow, SeasonInv, RunnerInv
  <2>2. "pc" \in DOMAIN skipped /\ skipped.pc = "next"
    BY <1>1
  <2> HIDE DEF skipped
  <2> QED
    BY <1>2, <2>1, <2>2, NoClaimStep
<1> QED
  BY <1>3, <1>4

(* Paying a field makes no claim. *)
LEMMA PayFieldStep ==
    ASSUME SeasonInv, NEW r \in Runners, PayField(r) PROVE SeasonInv'
<1>1. UNCHANGED <<clock, resets>>
  BY DEF PayField, tables
<1>2. PICK due, draft :
        runner' = [runner EXCEPT ![r] = [pc |-> "next", due |-> due, draft |-> draft]]
  BY ZenonT(60) DEF PayField
<1> DEFINE q == [pc |-> "next", due |-> due, draft |-> draft]
<1>3. "pc" \in DOMAIN q /\ q.pc = "next"
  OBVIOUS
<1>4. runner' = [runner EXCEPT ![r] = q]
  BY <1>2
<1> HIDE DEF q
<1> QED
  BY <1>1, <1>3, <1>4, NoClaimStep

(* A batch that commits goes on to claim, and has not yet. *)
LEMMA CommitBatchStep ==
    ASSUME SeasonInv, NEW r \in Runners, CommitBatch(r) PROVE SeasonInv'
<1> DEFINE q == IF r \in Heartbeats THEN [pc |-> "claim", draft |-> NoDraft] ELSE Idle
<1>1. runner' = [runner EXCEPT ![r] = q] /\ UNCHANGED <<clock, resets>>
  BY DEF CommitBatch
<1>2. "pc" \in DOMAIN q /\ q.pc \in {"claim", "idle"}
  BY DEF Idle
<1> HIDE DEF q
<1> QED
  BY <1>1, <1>2, NoClaimStep

(* A claim is made of a season that is not closed, while nobody has one. *)
LEMMA ClaimSeasonStep ==
    ASSUME SeasonInv, NEW r \in Runners, ClaimSeason(r) PROVE SeasonInv'
<1>1. UNCHANGED <<clock, resets>>
  BY DEF ClaimSeason, tables
<1>2. CASE EndedSeason \in Range(resets)
  <2>1. runner' = [runner EXCEPT ![r] = Idle]
    BY <1>2 DEF ClaimSeason
  <2>2. "pc" \in DOMAIN Idle /\ Idle.pc = "idle"
    BY DEF Idle
  <2> QED
    BY <1>1, <2>1, <2>2, NoClaimStep
<1>3. CASE EndedSeason \notin Range(resets)
  <2> DEFINE q == [pc |-> "reset", season |-> EndedSeason,
                   draft |-> NoDraft, read |-> profile]
  <2>1. runner' = [runner EXCEPT ![r] = q]
    BY <1>3 DEF ClaimSeason
  <2>2. EndedSeason \in Int
    BY EndedSeasonType DEF SeasonInv
  <2>3. \A n \in DOMAIN resets : resets[n] # EndedSeason
    BY <1>3 DEF Range
  <2>4. \A s \in Others(r) : ~Claims(s)
    BY DEF ClaimSeason, ClaimFree, Claims
  <2>5. "pc" \in DOMAIN q /\ q.pc = "reset" /\ q.season = EndedSeason
    OBVIOUS
  <2> HIDE DEF q
  <2> QED
    BY <1>1, <2>1, <2>2, <2>3, <2>4, <2>5, ClaimStep
<1> QED
  BY <1>2, <1>3

(* The reset is written under the claim. *)
LEMMA WriteResetStep ==
    ASSUME SeasonInv, NEW r \in Runners, WriteReset(r) PROVE SeasonInv'
<1>1. UNCHANGED <<clock, resets>>
  BY DEF WriteReset, tables
<1>2. PICK draft :
        runner' = [runner EXCEPT ![r] = [pc |-> "closing", season |-> runner[r].season,
                                         draft |-> draft]]
  BY DEF WriteReset, SeasonInv, RunnerInv
<1> DEFINE q == [pc |-> "closing", season |-> runner[r].season, draft |-> draft]
<1>3. "pc" \in DOMAIN q /\ q.pc = "closing" /\ q.season = runner[r].season
  OBVIOUS
<1>4. runner' = [runner EXCEPT ![r] = q]
  BY <1>2
<1>5. Claims(r)
  BY DEF WriteReset, Claims
<1>6. /\ runner[r].season \in Int
      /\ \A n \in DOMAIN resets : resets[n] # runner[r].season
      /\ \A s \in Others(r) : ~Claims(s)
  BY <1>5 DEF SeasonInv, ClaimInv, OneClaim, Others
<1> HIDE DEF q
<1> QED
  BY <1>1, <1>3, <1>4, <1>6, ClaimStep

(* The claimed row is committed: the season was not closed by anybody else. *)
LEMMA CommitResetStep ==
    ASSUME SeasonInv, NEW r \in Runners, CommitReset(r) PROVE SeasonInv'
<1> DEFINE season == runner[r].season
<1>1. /\ clock' = clock
      /\ resets' = Append(resets, season)
      /\ runner' = [runner EXCEPT ![r] = Idle]
  BY DEF CommitReset
<1>2. Claims(r)
  BY DEF CommitReset, Claims
<1>3. /\ season \in Int
      /\ \A n \in DOMAIN resets : resets[n] # season
      /\ resets \in Seq(Int)
      /\ IsInjective(resets)
  BY <1>2 DEF SeasonInv, ClaimInv, SeasonClosedOnce
<1> HIDE DEF season
<1>4. /\ resets' \in Seq(Int)
      /\ DOMAIN resets' = 1..(Len(resets) + 1)
      /\ DOMAIN resets = 1..Len(resets)
      /\ Len(resets) \in Nat
      /\ \A n \in DOMAIN resets : resets'[n] = resets[n]
      /\ resets'[Len(resets) + 1] = season
  BY <1>1, <1>3
<1>5. \A n \in DOMAIN resets' : n \in DOMAIN resets \/ n = Len(resets) + 1
  BY <1>4
<1>6. SeasonClosedOnce'
  <2> SUFFICES ASSUME NEW m \in DOMAIN resets', NEW n \in DOMAIN resets',
                      resets'[m] = resets'[n]
               PROVE  m = n
    BY DEF SeasonClosedOnce, IsInjective
  <2>1. CASE m \in DOMAIN resets /\ n \in DOMAIN resets
    BY <1>3, <1>4, <2>1 DEF IsInjective
  <2>2. CASE m \notin DOMAIN resets \/ n \notin DOMAIN resets
    BY <1>3, <1>4, <1>5, <2>2
  <2> QED
    BY <2>1, <2>2
<1>7. \A s \in Runners : ~Claims(s)'
  <2> TAKE s \in Runners
  <2>1. CASE s = r
    BY <1>1, <2>1 DEF SeasonInv, RunnerInv, Claims, Idle
  <2>2. CASE s # r
    BY <1>1, <1>2, <2>2 DEF SeasonInv, RunnerInv, OneClaim, Claims
  <2> QED
    BY <2>1, <2>2
<1>8. ClaimInv' /\ OneClaim'
  BY <1>7 DEF ClaimInv, OneClaim
<1>9. ClockInv' /\ RunnerInv'
  BY <1>1 DEF SeasonInv, ClockInv, RunnerInv, Idle
<1> QED
  BY <1>4, <1>6, <1>8, <1>9 DEF SeasonInv

(* A runner that dies loses its claim with everything else. *)
LEMMA DieStep ==
    ASSUME SeasonInv, NEW r \in Runners, Die(r) PROVE SeasonInv'
<1>1. runner' = [runner EXCEPT ![r] = Idle] /\ UNCHANGED <<clock, resets>>
  BY DEF Die
<1>2. "pc" \in DOMAIN Idle /\ Idle.pc = "idle"
  BY DEF Idle
<1> QED
  BY <1>1, <1>2, NoClaimStep

(* Every step keeps the invariant of the season. *)
LEMMA NextSeason == SeasonInv /\ [Next]_vars => SeasonInv'
<1> SUFFICES ASSUME SeasonInv, [Next]_vars PROVE SeasonInv'
  OBVIOUS
<1>1. CASE \/ Tick
           \/ \E d \in Days : CloseDay(d)
           \/ \E u \in Users : SaveProfile(u)
           \/ UNCHANGED vars
  BY <1>1, WorldStep
<1>2. ASSUME NEW r \in Runners, Work(r) PROVE SeasonInv'
  BY <1>2, StartBatchStep, LockWindowStep, PayFieldStep, CommitBatchStep,
     ClaimSeasonStep, WriteResetStep, CommitResetStep DEF Work
<1>3. ASSUME NEW r \in Runners, Die(r) PROVE SeasonInv'
  BY <1>3, DieStep
<1> QED
  BY <1>1, <1>2, <1>3 DEF Next

(***************************************************************************)
(* A month is closed once, however many heartbeats try to close it and     *)
(* wherever one of them dies (seasons.py:89).                              *)
(***************************************************************************)
THEOREM SettlementSeasonClosedOnce == Spec => []SeasonClosedOnce
<1>1. SeasonInv => SeasonClosedOnce
  BY DEF SeasonInv
<1> QED
  BY <1>1, InitSeason, NextSeason, PTL DEF Spec

-----------------------------------------------------------------------------
(* Ratings are folded over places. *)
F == INSTANCE FoldFacts WITH Op <- LAMBDA rating, place : RatingAfter(rating, place)

(***************************************************************************)
(* The days of a set, oldest first                                         *)
(***************************************************************************)
IsAscending(days, S) ==
    /\ days \in SetToSeqs(S)
    /\ \A m, n \in DOMAIN days : m < n => days[m] < days[n]

(* Such a sequence goes through all of the set. *)
LEMMA AscendingAll ==
    ASSUME NEW S, IsFiniteSet(S), NEW days, IsAscending(days, S)
    PROVE  /\ Cardinality(S) \in Nat
           /\ days \in Seq(S)
           /\ Len(days) = Cardinality(S)
           /\ DOMAIN days = 1..Cardinality(S)
           /\ \A x \in S : \E n \in DOMAIN days : days[n] = x
<1> DEFINE D == 1..Cardinality(S)
<1>1. Cardinality(S) \in Nat
  BY FS_CardinalityType
<1>2. days \in [D -> S] /\ \A i, j \in D : i # j => days[i] # days[j]
  BY DEF IsAscending, SetToSeqs
<1>3. days \in Injection(D, S)
  BY <1>2 DEF Injection, IsInjective
<1>4. IsFiniteSet(D) /\ Cardinality(D) = Cardinality(S)
  <2>1. 1 \in Int /\ Cardinality(S) \in Int
    BY <1>1
  <2>2. Cardinality(D) = IF 1 > Cardinality(S) THEN 0 ELSE Cardinality(S) - 1 + 1
    BY <2>1, FS_Interval
  <2> QED
    BY <1>1, <2>1, <2>2, FS_Interval
<1>5. days \in Surjection(D, S)
  BY <1>3, <1>4, FS_Injection
<1>6. \A x \in S : \E n \in D : days[n] = x
  BY <1>5 DEF Surjection
<1>7. days \in Seq(S) /\ Len(days) = Cardinality(S)
  BY <1>1, <1>2
<1> QED
  BY <1>1, <1>2, <1>6, <1>7

(* A later day goes to the end. *)
LEMMA AscendingAppend ==
    ASSUME NEW S \in SUBSET Int, IsFiniteSet(S), NEW days, IsAscending(days, S),
           NEW d \in Int, \A e \in S : e < d
    PROVE  /\ IsFiniteSet(S \cup {d})
           /\ IsAscending(Append(days, d), S \cup {d})
<1>1. /\ Cardinality(S) \in Nat
      /\ days \in Seq(S)
      /\ Len(days) = Cardinality(S)
      /\ DOMAIN days = 1..Cardinality(S)
  BY AscendingAll
<1>2. d \notin S
  OBVIOUS
<1>3. IsFiniteSet(S \cup {d}) /\ Cardinality(S \cup {d}) = Cardinality(S) + 1
  BY <1>2, FS_AddElement
<1> DEFINE c == Cardinality(S)
           t == Append(days, d)
<1>4. /\ DOMAIN t = 1..(c + 1) /\ t[c + 1] = d
      /\ \A n \in 1..c : t[n] = days[n] /\ t[n] \in S
      /\ t \in [1..(c + 1) -> S \cup {d}]
  <2>1. days \in Seq(S \cup {d}) /\ d \in S \cup {d}
    BY <1>1
  <2>2. t \in Seq(S \cup {d}) /\ Len(t) = c + 1 /\ t[c + 1] = d
    BY <1>1, <2>1
  <2>3. ASSUME NEW n \in 1..c PROVE t[n] = days[n] /\ days[n] \in S
    BY <1>1, <2>1, <2>3
  <2> HIDE DEF t, c
  <2>4. DOMAIN t = 1..(c + 1) /\ t \in [1..(c + 1) -> S \cup {d}]
    BY <2>2
  <2> QED
    BY <2>2, <2>3, <2>4
<1>5. \A m, n \in 1..c : m < n => days[m] < days[n]
  BY <1>1 DEF IsAscending
<1> HIDE DEF t
<1>6. \A m, n \in DOMAIN t : m < n => t[m] < t[n]
  <2> SUFFICES ASSUME NEW m \in 1..(c + 1), NEW n \in 1..(c + 1), m < n
               PROVE  t[m] < t[n]
    BY <1>4
  <2>1. m \in 1..c
    BY <1>1
  <2>2. CASE n \in 1..c
    BY <1>4, <1>5, <2>1, <2>2
  <2>3. CASE n = c + 1
    BY <1>4, <2>1, <2>3
  <2> QED
    BY <1>1, <2>2, <2>3
<1>7. \A i, j \in 1..(c + 1) : i # j => t[i] # t[j]
  <2> SUFFICES ASSUME NEW i \in 1..(c + 1), NEW j \in 1..(c + 1), i # j PROVE t[i] # t[j]
    OBVIOUS
  <2>1. t[i] \in Int /\ t[j] \in Int
    BY <1>4
  <2>2. i < j \/ j < i
    BY <1>1
  <2> QED
    BY <1>4, <1>6, <2>1, <2>2
<1> QED
  BY <1>3, <1>4, <1>6, <1>7 DEF IsAscending, SetToSeqs, t

(* The days of a set can be put in order: induction on the last one. *)
LEMMA AscendingExists ==
    ASSUME NEW n \in Nat, NEW S \in SUBSET (1..n)
    PROVE  \E days : IsAscending(days, S)
<1> DEFINE T == {k \in Nat : \A s \in SUBSET (1..k) : \E days : IsAscending(days, s)}
<1>1. 0 \in T
  <2>1. \A s \in SUBSET (1..0) : s = {}
    OBVIOUS
  <2>2. Cardinality({}) = 0
    BY FS_EmptySet
  <2>3. IsAscending(<<>>, {})
    BY <2>2 DEF IsAscending, SetToSeqs
  <2> QED
    BY <2>1, <2>3
<1>2. ASSUME NEW k \in Nat, k \in T PROVE k + 1 \in T
  <2> SUFFICES ASSUME NEW s \in SUBSET (1..(k + 1)) PROVE \E days : IsAscending(days, s)
    OBVIOUS
  <2>1. s \ {k + 1} \in SUBSET (1..k) /\ s \ {k + 1} \in SUBSET Int
    OBVIOUS
  <2>2. PICK days : IsAscending(days, s \ {k + 1})
    BY <1>2, <2>1
  <2>3. CASE k + 1 \in s
    <3>1. \A e \in s \ {k + 1} : e < k + 1
      BY <2>1
    <3>2. IsFiniteSet(s \ {k + 1})
      <4>1. IsFiniteSet(1..k)
        BY FS_Interval
      <4> QED
        BY <2>1, <4>1, FS_Subset
    <3>3. IsAscending(Append(days, k + 1), (s \ {k + 1}) \cup {k + 1})
      BY <2>1, <2>2, <3>1, <3>2, AscendingAppend
    <3>4. (s \ {k + 1}) \cup {k + 1} = s
      BY <2>3
    <3> QED
      BY <3>3, <3>4
  <2>4. CASE k + 1 \notin s
    <3>1. s \ {k + 1} = s
      BY <2>4
    <3> QED
      BY <2>2, <3>1
  <2> QED
    BY <2>3, <2>4
<1> HIDE DEF T
<1>3. n \in T
  BY <1>1, <1>2, F!Induct
<1> QED
  BY <1>3 DEF T

(* There is only one. *)
LEMMA AscendingUnique ==
    ASSUME NEW n \in Nat, NEW S \in SUBSET (1..n), NEW first, NEW second,
           IsAscending(first, S), IsAscending(second, S)
    PROVE  first = second
<1> DEFINE T == {k \in Nat : \A s \in SUBSET (1..k) : \A a \in SetToSeqs(s), b \in SetToSeqs(s) :
                    IsAscending(a, s) /\ IsAscending(b, s) => a = b}
<1>1. 0 \in T
  <2>1. \A s \in SUBSET (1..0) : s = {}
    OBVIOUS
  <2>2. Cardinality({}) = 0
    BY FS_EmptySet
  <2>3. \A a \in SetToSeqs({}) : a = <<>>
    BY <2>2 DEF SetToSeqs
  <2> QED
    BY <2>1, <2>3
<1>2. ASSUME NEW k \in Nat, k \in T PROVE k + 1 \in T
  <2>0. k + 1 \in Nat
    OBVIOUS
  <2> SUFFICES ASSUME NEW s \in SUBSET (1..(k + 1)), NEW a \in SetToSeqs(s),
                      NEW b \in SetToSeqs(s), IsAscending(a, s), IsAscending(b, s)
               PROVE  a = b
    BY <2>0
  <2>1. IsFiniteSet(s) /\ s \in SUBSET Int
    <3>1. IsFiniteSet(1..(k + 1))
      BY FS_Interval
    <3>2. IsFiniteSet(s)
      BY <3>1, FS_Subset
    <3>3. s \in SUBSET Int
      OBVIOUS
    <3> QED
      BY <3>2, <3>3
  <2>2. s \ {k + 1} \in SUBSET (1..k)
    OBVIOUS
  <2>3. CASE k + 1 \notin s
    <3>1. s \in SUBSET (1..k)
      BY <2>2, <2>3
    <3> QED
      BY <1>2, <3>1
  <2>4. CASE k + 1 \in s
    <3> DEFINE c == Cardinality(s)
    <3>1. c \in Nat /\ Cardinality(s \ {k + 1}) = c - 1 /\ IsFiniteSet(s \ {k + 1})
      BY <2>1, <2>4, FS_RemoveElement, FS_CardinalityType
    <3>2. c - 1 \in Nat
      BY <3>1, FS_CardinalityType
    <3> DEFINE Front2(f) == [i \in 1..(c - 1) |-> f[i]]
    <3>3. ASSUME NEW f \in SetToSeqs(s), IsAscending(f, s)
          PROVE  /\ f[c] = k + 1
                 /\ DOMAIN f = 1..c
                 /\ f = [i \in DOMAIN f |-> f[i]]
                 /\ IsAscending(Front2(f), s \ {k + 1})
      <4>1. /\ f \in [1..c -> s] /\ DOMAIN f = 1..c
            /\ f = [i \in DOMAIN f |-> f[i]]
            /\ \A i, j \in 1..c : i # j => f[i] # f[j]
            /\ \A m, j \in 1..c : m < j => f[m] < f[j]
        BY <3>3 DEF IsAscending, SetToSeqs
      <4>2. PICK m \in 1..c : f[m] = k + 1
        <5>1. \A x \in s : \E i \in DOMAIN f : f[i] = x
          BY <2>1, <3>3, AscendingAll
        <5> QED
          BY <2>4, <4>1, <5>1
      <4>3. m = c
        <5>1. SUFFICES ASSUME m # c PROVE FALSE
          OBVIOUS
        <5>2. m \in 1..c /\ c \in 1..c /\ m < c
          BY <3>1, <5>1
        <5>3. f[m] < f[c] /\ f[c] \in 1..(k + 1)
          BY <4>1, <5>2
        <5> QED
          BY <4>2, <5>3
      <4>4. \A i \in 1..(c - 1) : i \in 1..c /\ i # c /\ f[i] \in s \ {k + 1}
        BY <3>1, <4>1, <4>2, <4>3
      <4> HIDE DEF c
      <4>5. Front2(f) \in [1..(c - 1) -> s \ {k + 1}] /\ DOMAIN Front2(f) = 1..(c - 1)
        BY <4>4
      <4>6. IsAscending(Front2(f), s \ {k + 1})
        <5>1. \A i, j \in 1..(c - 1) : /\ i # j => Front2(f)[i] # Front2(f)[j]
                                       /\ i < j => Front2(f)[i] < Front2(f)[j]
          BY <4>1, <4>4
        <5> HIDE DEF Front2
        <5> QED
          BY <3>1, <4>5, <5>1 DEF IsAscending, SetToSeqs
      <4> QED
        BY <4>1, <4>2, <4>3, <4>6
    <3> HIDE DEF c
    <3>4. /\ a[c] = k + 1 /\ DOMAIN a = 1..c /\ a = [i \in DOMAIN a |-> a[i]]
          /\ b[c] = k + 1 /\ DOMAIN b = 1..c /\ b = [i \in DOMAIN b |-> b[i]]
          /\ IsAscending(Front2(a), s \ {k + 1}) /\ IsAscending(Front2(b), s \ {k + 1})
      BY <3>3
    <3>5. Front2(a) = Front2(b)
      <4>1. /\ Front2(a) \in SetToSeqs(s \ {k + 1})
            /\ Front2(b) \in SetToSeqs(s \ {k + 1})
        BY <3>4 DEF IsAscending
      <4> HIDE DEF Front2
      <4> QED
        BY <1>2, <2>2, <3>4, <4>1
    <3>6. ASSUME NEW i \in 1..c PROVE a[i] = b[i]
      <4>1. CASE i = c
        BY <3>4, <4>1
      <4>2. CASE i # c
        <5>1. i \in 1..(c - 1)
          BY <3>1, <4>2
        <5>2. Front2(a)[i] = a[i] /\ Front2(b)[i] = b[i]
          BY <5>1
        <5> QED
          BY <3>5, <5>2
      <4> QED
        BY <4>1, <4>2
    <3> QED
      BY <3>4, <3>6
  <2> QED
    BY <2>3, <2>4
<1> HIDE DEF T
<1>3. n \in T
  BY <1>1, <1>2, F!Induct
<1>4. first \in SetToSeqs(S) /\ second \in SetToSeqs(S)
  BY DEF IsAscending
<1> QED
  BY <1>3, <1>4 DEF T

(* So Ascending is that sequence. *)
LEMMA AscendingIs ==
    ASSUME NEW S \in SUBSET Days
    PROVE  /\ IsFiniteSet(S)
           /\ S \in SUBSET Int
           /\ IsAscending(Ascending(S), S)
           /\ \A days : IsAscending(days, S) => days = Ascending(S)
<1>1. NumDays \in Nat
  BY SettlementAssumption DEF SettlementAssumption
<1>2. IsFiniteSet(Days)
  BY <1>1, FS_Interval DEF Days
<1>3. IsFiniteSet(S)
  BY <1>2, FS_Subset
<1>4. \E days : IsAscending(days, S)
  BY <1>1, AscendingExists DEF Days
<1>5. IsAscending(Ascending(S), S)
  BY <1>4 DEF Ascending, IsAscending
<1>6. \A days : IsAscending(days, S) => days = Ascending(S)
  BY <1>1, <1>5, AscendingUnique DEF Days
<1> QED
  BY <1>3, <1>5, <1>6 DEF Days

(* A list of the days of S goes on with a later day. *)
LEMMA AscendingLater ==
    ASSUME NEW S \in SUBSET Days, NEW d \in Days, \A e \in S : e < d
    PROVE  Ascending(S \cup {d}) = Append(Ascending(S), d)
<1>1. d \in Int /\ S \cup {d} \in SUBSET Days
  BY DEF Days
<1>2. /\ IsFiniteSet(S) /\ S \in SUBSET Int
      /\ IsAscending(Ascending(S), S)
  BY AscendingIs
<1>3. IsAscending(Append(Ascending(S), d), S \cup {d})
  BY <1>1, <1>2, AscendingAppend
<1> QED
  BY <1>1, <1>3, AscendingIs

(* What the jobs and the properties use of a list of days. *)
LEMMA AscendingList ==
    ASSUME NEW S \in SUBSET Days
    PROVE  /\ Ascending(S) \in Seq(S)
           /\ Ascending(S) \in Seq(Days)
           /\ \A x : x \in S <=> \E n \in 1..Len(Ascending(S)) : Ascending(S)[n] = x
           /\ \A m, n \in 1..Len(Ascending(S)) : m < n => Ascending(S)[m] < Ascending(S)[n]
<1>1. IsFiniteSet(S) /\ IsAscending(Ascending(S), S)
  BY AscendingIs
<1> DEFINE days == Ascending(S)
<1> HIDE DEF days
<1>2. /\ days \in Seq(S)
      /\ DOMAIN days = 1..Len(days)
      /\ \A x \in S : \E n \in DOMAIN days : days[n] = x
      /\ \A m, n \in DOMAIN days : m < n => days[m] < days[n]
  BY <1>1, AscendingAll DEF days, IsAscending
<1>3. days \in Seq(Days) /\ \A n \in 1..Len(days) : days[n] \in S
  BY <1>2
<1>4. \A x : x \in S <=> \E n \in 1..Len(days) : days[n] = x
  BY <1>2, <1>3
<1>5. \A m, n \in 1..Len(days) : m < n => days[m] < days[n]
  BY <1>2
<1> QED
  BY <1>2, <1>3, <1>4, <1>5 DEF days

-----------------------------------------------------------------------------
(* Invariants of the batches.  First, what the tables hold. *)

(* The kinds of rewards in the gem ledger. *)
KeyKinds == {"starter", "dr", "streak", "season"}

(* A row of the gem ledger. *)
GemRow == [key : KeyKinds \X Users \X Int \X Nat, amount : Nat \ {0}]

(* The standings of one day. *)
BookOk(book) == DOMAIN book \subseteq Users /\ \A u \in DOMAIN book : book[u] \in Place

(* What the committed tables hold. *)
TablesOk ==
    /\ clock \in 2..(2 * NumDays + 1)
    /\ guests \subseteq Users
    /\ DOMAIN ranking = Days
    /\ \A d \in Days : ranking[d] \in Seq(Users) /\ IsInjective(ranking[d])
    /\ state \in [Days -> {"OPEN", "CLOSED", "SETTLED"}]
    /\ profile \in [Users -> Profile]
    /\ DOMAIN standing = Days
    /\ \A d \in Days : BookOk(standing[d])
    /\ gems \subseteq GemRow
    /\ deaths \in 0..MaxDeaths
    /\ history \in Histories

(* Days close before the clock goes on, and are settled in order. *)
DaysOk ==
    /\ \A d \in Days : 2 * d < clock => state[d] # "OPEN"
    /\ \A d \in Days : state[d] # "SETTLED" => DOMAIN standing[d] = {}
    /\ \A d, e \in Days : e < d /\ state[d] = "SETTLED" => state[e] = "SETTLED"

(* What a runner carries in each of its steps. *)
Fields(pc) ==
    CASE pc = "idle" -> {"pc"}
      [] pc = "next" -> {"pc", "due", "draft"}
      [] pc = "pay" -> {"pc", "due", "draft", "field", "read"}
      [] pc = "claim" -> {"pc", "draft"}
      [] pc = "reset" -> {"pc", "season", "draft", "read"}
      [] pc = "closing" -> {"pc", "season", "draft"}
      [] OTHER -> {}

(* A runner inside settle_due_windows. *)
Batching(r) == runner[r].pc \in {"next", "pay"}

(* What a runner has written and not committed. *)
Draft(r) == runner[r].draft

(* A runner carries what its step needs. *)
ShapeOk ==
    /\ DOMAIN runner = Runners
    /\ \A r \in Runners :
          /\ runner[r].pc \in {"idle", "next", "pay", "claim", "reset", "closing"}
          /\ DOMAIN runner[r] = Fields(runner[r].pc)

(* The rows of a draft are rows of the tables. *)
DraftTypes(w) ==
    /\ DOMAIN w.profiles \subseteq Users
    /\ \A u \in DOMAIN w.profiles : w.profiles[u] \in Profile
    /\ DOMAIN w.days \subseteq Days
    /\ \A d \in DOMAIN w.days : BookOk(w.days[d])
    /\ w.gems \subseteq GemRow

(* Only a batch holds days, and it has locked who got a place on them. *)
DraftOk(r) ==
    runner[r].pc # "idle" =>
        /\ DraftTypes(Draft(r))
        /\ ~Batching(r) => DOMAIN Draft(r).days = {}
        /\ runner[r].pc \in {"claim", "reset"} =>
              DOMAIN Draft(r).profiles = {} /\ Draft(r).gems = {}
        /\ \A d \in DOMAIN Draft(r).days :
              DOMAIN Draft(r).days[d] \subseteq DOMAIN Draft(r).profiles
        /\ Batching(r) =>
              \A u \in DOMAIN Draft(r).profiles :
                  \E d \in DOMAIN Draft(r).days : u \in DOMAIN Draft(r).days[d]

(* What was read are profiles, of the whole field or of everybody. *)
ReadOk(r) ==
    /\ runner[r].pc = "pay" =>
          /\ runner[r].due # <<>>
          /\ runner[r].field \in Seq(Users)
          /\ DOMAIN runner[r].read = Range(runner[r].field)
          /\ \A u \in DOMAIN runner[r].read : runner[r].read[u] \in Profile
    /\ runner[r].pc = "reset" => runner[r].read \in [Users -> Profile]

(***************************************************************************)
(* A batch goes through its days in the order of their dates, and leaves   *)
(* out only days that are settled.                                         *)
(***************************************************************************)
DueOk(r) ==
    Batching(r) =>
        /\ runner[r].due \in Seq(Days)
        /\ \A m, n \in DOMAIN runner[r].due : m < n => runner[r].due[m] < runner[r].due[n]
        /\ \A n \in DOMAIN runner[r].due :
              /\ state[runner[r].due[n]] # "OPEN"
              /\ \A e \in DOMAIN Draft(r).days : e < runner[r].due[n]
              /\ \A e \in Days : e < runner[r].due[n] =>
                    \/ state[e] = "SETTLED"
                    \/ e \in DOMAIN Draft(r).days
                    \/ \E m \in DOMAIN runner[r].due : runner[r].due[m] = e

(***************************************************************************)
(* A locked day is not settled yet, and the earlier ones are settled or    *)
(* locked by the same runner; no two runners hold a row.                   *)
(***************************************************************************)
LockOk ==
    /\ \A r \in Runners : \A d \in LockedDays(r) :
          /\ state[d] = "CLOSED"
          /\ \A e \in Days : e < d => state[e] = "SETTLED" \/ e \in LockedDays(r)
    /\ \A r, s \in Runners : r # s =>
          /\ LockedDays(r) \cap LockedDays(s) = {}
          /\ LockedProfiles(r) \cap LockedProfiles(s) = {}

(* The inductive invariant of the batches. *)
BatchInv ==
    /\ TablesOk
    /\ DaysOk
    /\ ShapeOk
    /\ \A r \in Runners : DraftOk(r) /\ ReadOk(r) /\ DueOk(r)
    /\ LockOk
-----------------------------------------------------------------------------
(* Gems: what a draft adds to the ledger is for what it adds to the tables. *)

(* A starter gem is five, once for each player. *)
StarterOk(g) == g.key[1] = "starter" => g = Gem(StarterKey(g.key[2]), 5)

(* The gems of a draft are new, and for players whose profiles it holds. *)
KeysOk(r) ==
    \A g \in Draft(r).gems :
        /\ g.key[2] \in DOMAIN Draft(r).profiles
        /\ StarterOk(g)
        /\ \A h \in gems : h.key # g.key
        /\ \A h \in Draft(r).gems : h.key = g.key => h = g

(* A place in a draft has its gems in the draft, or in the ledger. *)
PaidOk(r) ==
    \A d \in DOMAIN Draft(r).days : \A u \in DOMAIN Draft(r).days[d] :
        /\ Draft(r).days[d][u].gems > 0 =>
              Gem(PlaceKey(d, u), Draft(r).days[d][u].gems) \in Draft(r).gems
        /\ Gem(StarterKey(u), 5) \in gems \cup Draft(r).gems

(* A gem in a draft is for a place in it, or for the claimed season. *)
EarnedOk(r) ==
    \A g \in Draft(r).gems :
        CASE g.key[1] \in {"dr", "streak"} ->
                g.key[3] \in DOMAIN Draft(r).days /\ g.key[2] \in DOMAIN Draft(r).days[g.key[3]]
          [] g.key[1] = "season" -> runner[r].pc = "closing" /\ g.key[3] = runner[r].season
          [] OTHER -> \E d \in DOMAIN Draft(r).days : g.key[2] \in DOMAIN Draft(r).days[d]

(* The inductive invariant of the gems, beside that of the batches. *)
GemInv ==
    /\ \A g \in gems : StarterOk(g)
    /\ \A g \in gems : g.key[1] \in {"dr", "streak"} => g.key[3] \in Days
    /\ \A r \in Runners : runner[r].pc # "idle" => KeysOk(r) /\ PaidOk(r) /\ EarnedOk(r)
    /\ GemsMatchPlaces

-----------------------------------------------------------------------------
(* Ratings and streaks: the profiles follow the standings they are in. *)

(* The days of a table of standings on which u got a place. *)
Played(st, u) == {d \in Days : u \in DOMAIN st[d]}

(* The profile whose streak those days explain, from p on. *)
StreakOf(p, st, u) == FoldLeft(NextStreak, p, Ascending(Played(st, u)))

(* The places of u, oldest first. *)
PlacesOf(st, u) ==
    [n \in DOMAIN Ascending(Played(st, u)) |-> st[Ascending(Played(st, u))[n]][u]]

(* The rating that those places explain. *)
RatingOf(rating, st, u) == FoldLeft(RatingAfter, rating, PlacesOf(st, u))

(* The standings as a runner sees them. *)
View(r) == Over(Draft(r).days, standing)

(* Two profiles have the same streak columns. *)
Alike(p, q) == p.streak = q.streak /\ p.last = q.last /\ p.grace = q.grace

(* What a runner writes is explained by its view, and what it read is current. *)
StreakOk(r) ==
    /\ \A u \in LockedProfiles(r) :
          Alike(Draft(r).profiles[u], StreakOf(history[u], View(r), u))
    /\ runner[r].pc = "pay" =>
          \A u \in DOMAIN runner[r].read : Alike(runner[r].read[u], Seen(r, u))

(* The inductive invariant of the streaks. *)
StreakInv ==
    /\ \A u \in Users : Alike(profile[u], StreakOf(history[u], standing, u))
    /\ \A r \in Runners : StreakOk(r)

(* The same of the ratings, until the season is reset. *)
RatingOk(r) ==
    /\ Batching(r) => \A u \in LockedProfiles(r) :
          Draft(r).profiles[u].rating = RatingOf(history[u].rating, View(r), u)
    /\ runner[r].pc = "pay" =>
          \A u \in DOMAIN runner[r].read : runner[r].read[u].rating = Seen(r, u).rating

(* The inductive invariant of the ratings. *)
RatingInv ==
    /\ Len(resets) # 0
    /\ Len(resets) = 1 =>
          /\ \A u \in Users : profile[u].rating = RatingOf(history[u].rating, standing, u)
          /\ \A r \in Runners : RatingOk(r)

-----------------------------------------------------------------------------
(* The steps of a runner. *)
Steps == {"idle", "next", "pay", "claim", "reset", "closing"}

(* What the assumption on the constants gives. *)
LEMMA Constants ==
    /\ NumDays \in Nat /\ NumDays # 0
    /\ Days \subseteq Int /\ Days \subseteq Dates
    /\ MaxDeaths \in Nat
    /\ Histories \subseteq [Users -> Profile]
    /\ NewGuests \subseteq Users
    /\ IsFiniteSet(Users)
BY SettlementAssumption DEF SettlementAssumption, Days, Dates

(* At first nothing is locked, settled or paid. *)
LEMMA InitBatch == Init => BatchInv
<1> SUFFICES ASSUME Init PROVE BatchInv
  OBVIOUS
<1> USE Constants
<1>1. TablesOk
  <2>1. <<>> \in Seq(Users) /\ IsInjective(<<>>)
    BY DEF IsInjective
  <2>2. clock = 2 /\ 2 \in 2..(2 * NumDays + 1) /\ 0 \in 0..MaxDeaths
    BY DEF Init
  <2>3. profile \in [Users -> Profile]
    BY DEF Init
  <2> QED
    BY <2>1, <2>2, <2>3 DEF Init, TablesOk, BookOk
<1>2. DaysOk
  BY DEF Init, DaysOk, Days
<1>3. \A r \in Runners : runner[r] = Idle
  BY DEF Init
<1>4. Idle.pc = "idle" /\ DOMAIN Idle = {"pc"}
  BY DEF Idle
<1>5. ShapeOk
  BY <1>3, <1>4 DEF Init, ShapeOk, Fields
<1>6. \A r \in Runners : DraftOk(r) /\ ReadOk(r) /\ DueOk(r)
  BY <1>3, <1>4 DEF DraftOk, ReadOk, DueOk, Batching
<1>7. LockOk
  BY <1>3, <1>4 DEF LockOk, LockedDays, LockedProfiles
<1> QED
  BY <1>1, <1>2, <1>5, <1>6, <1>7 DEF BatchInv

(* Time passes, days close and guests save their profiles. *)
LEMMA SameRunners ==
    ASSUME BatchInv, UNCHANGED runner,
           \A d \in Days : state[d] # "OPEN" => state'[d] = state[d]
    PROVE  ShapeOk' /\ (\A r \in Runners : DraftOk(r) /\ ReadOk(r) /\ DueOk(r))' /\ LockOk'
<1>1. ShapeOk'
  BY DEF BatchInv, ShapeOk
<1>2. ASSUME NEW r \in Runners PROVE DraftOk(r)' /\ ReadOk(r)'
  BY DEF BatchInv, DraftOk, ReadOk, DraftTypes, BookOk, Draft, Batching
<1>3. ASSUME NEW r \in Runners
      PROVE  LockedDays(r)' = LockedDays(r) /\ LockedProfiles(r)' = LockedProfiles(r)
  BY DEF LockedDays, LockedProfiles
<1>4. ASSUME NEW r \in Runners PROVE DueOk(r)'
  <2> SUFFICES ASSUME Batching(r) PROVE DueOk(r)'
    BY DEF DueOk, Batching
  <2> DEFINE due == runner[r].due
             w == Draft(r)
  <2>1. /\ due \in Seq(Days)
        /\ \A m, n \in DOMAIN due : m < n => due[m] < due[n]
        /\ \A n \in DOMAIN due :
              /\ state[due[n]] # "OPEN"
              /\ \A e \in DOMAIN w.days : e < due[n]
              /\ \A e \in Days : e < due[n] =>
                    state[e] = "SETTLED" \/ e \in DOMAIN w.days \/ \E m \in DOMAIN due : due[m] = e
    BY DEF BatchInv, DueOk
  <2>2. due' = due /\ w' = w
    BY DEF Draft
  <2> HIDE DEF due, w
  <2>3. \A n \in DOMAIN due : due[n] \in Days
    BY <2>1
  <2>4. \A n \in DOMAIN due :
              /\ state'[due[n]] # "OPEN"
              /\ \A e \in DOMAIN w.days : e < due[n]
              /\ \A e \in Days : e < due[n] =>
                    state'[e] = "SETTLED" \/ e \in DOMAIN w.days \/ \E m \in DOMAIN due : due[m] = e
    BY <2>1, <2>3
  <2> QED
    BY <2>1, <2>2, <2>4 DEF DueOk, due, w
<1>5. LockOk'
  <2>1. ASSUME NEW r \in Runners, NEW d \in LockedDays(r) PROVE d \in Days
    BY DEF BatchInv, LockedDays, DraftOk, DueOk, ReadOk, Draft, Batching, DraftTypes
  <2> QED
    BY <1>3, <2>1 DEF BatchInv, LockOk
<1> QED
  BY <1>1, <1>2, <1>4, <1>5

(* The lists that SetToSeqs makes of a set of players. *)
LEMMA RankingList ==
    ASSUME NEW players \in SUBSET Users, NEW order \in SetToSeqs(players)
    PROVE  order \in Seq(Users) /\ IsInjective(order)
<1>1. IsFiniteSet(players)
  BY Constants, FS_Subset
<1>2. Cardinality(players) \in Nat
  BY <1>1, FS_CardinalityType
<1> DEFINE c == Cardinality(players)
<1>3. order \in [1..c -> players] /\ \A i, j \in 1..c : i # j => order[i] # order[j]
  BY DEF SetToSeqs
<1> HIDE DEF c
<1>4. order \in Seq(players)
  BY <1>2, <1>3 DEF c
<1>5. order \in Seq(Users)
  BY <1>4
<1> QED
  BY <1>3, <1>5 DEF IsInjective

(* The clock, the players and the guests leave the batches in order. *)
LEMMA WorldBatch ==
    ASSUME BatchInv,
           \/ Tick
           \/ \E d \in Days : CloseDay(d)
           \/ \E u \in Users : SaveProfile(u)
           \/ UNCHANGED vars
    PROVE  BatchInv'
<1> USE Constants
<1>1. CASE Tick
  <2>1. /\ clock' = clock + 1 /\ clock < 2 * NumDays + 1
        /\ UNCHANGED <<guests, ranking, state, profile, standing, gems, runner, deaths, history>>
        /\ \A d \in Days : 2 * d <= clock => state[d] # "OPEN"
    BY <1>1 DEF Tick, tables
  <2>2. TablesOk'
    <3>1. (clock \in 2..(2 * NumDays + 1))'
      BY <2>1 DEF BatchInv, TablesOk
    <3> QED
      BY <2>1, <3>1 DEF BatchInv, TablesOk
  <2>3. DaysOk'
    <3>1. \A d \in Days : 2 * d < clock' => state[d] # "OPEN"
      BY <2>1 DEF BatchInv, TablesOk
    <3> QED
      BY <2>1, <3>1 DEF BatchInv, DaysOk
  <2> QED
    BY <2>1, <2>2, <2>3, SameRunners DEF BatchInv
<1>2. ASSUME NEW d \in Days, CloseDay(d) PROVE BatchInv'
  <2>1. /\ state[d] = "OPEN" /\ clock = 2 * d
        /\ state' = [state EXCEPT ![d] = "CLOSED"]
        /\ UNCHANGED <<clock, guests, profile, standing, gems, runner, deaths, history>>
    BY <1>2 DEF CloseDay
  <2>2. PICK players \in SUBSET Users : \E order \in SetToSeqs(players) :
          ranking' = [ranking EXCEPT ![d] = order]
    BY <1>2 DEF CloseDay
  <2> PICK order \in SetToSeqs(players) : ranking' = [ranking EXCEPT ![d] = order]
    BY <2>2
  <2>3. order \in Seq(Users) /\ IsInjective(order)
    BY RankingList
  <2>4. /\ DOMAIN state = Days /\ DOMAIN state' = Days
        /\ state'[d] = "CLOSED"
        /\ \A e \in Days : e # d => state'[e] = state[e]
        /\ state' \in [Days -> {"OPEN", "CLOSED", "SETTLED"}]
    BY <2>1 DEF BatchInv, TablesOk
  <2>5. DOMAIN ranking' = Days /\ \A e \in Days : ranking'[e] = IF e = d THEN order ELSE ranking[e]
    BY <2>2 DEF BatchInv, TablesOk
  <2>6. \A e \in Days : ranking'[e] \in Seq(Users) /\ IsInjective(ranking'[e])
    BY <2>3, <2>5 DEF BatchInv, TablesOk
  <2>7. TablesOk'
    BY <2>1, <2>4, <2>5, <2>6 DEF BatchInv, TablesOk
  <2>8. DaysOk'
    BY <2>1, <2>4 DEF BatchInv, DaysOk
  <2>9. \A e \in Days : state[e] # "OPEN" => state'[e] = state[e]
    BY <2>1, <2>4
  <2> QED
    BY <2>1, <2>7, <2>8, <2>9, SameRunners DEF BatchInv
<1>3. CASE (\E u \in Users : SaveProfile(u)) \/ UNCHANGED vars
  <2>1. /\ UNCHANGED <<clock, ranking, state, profile, standing, gems, runner, deaths, history>>
        /\ guests' \subseteq guests
    BY <1>3 DEF SaveProfile, tables, vars
  <2>2. TablesOk' /\ DaysOk'
    BY <2>1 DEF BatchInv, TablesOk, DaysOk
  <2> QED
    BY <2>1, <2>2, SameRunners DEF BatchInv
<1> QED
  BY <1>1, <1>2, <1>3

(* A runner goes on as q; the tables stay. *)
LEMMA RunnerBatch ==
    ASSUME BatchInv, NEW r \in Runners, NEW q,
           q.pc \in Steps, DOMAIN q = Fields(q.pc),
           runner' = [runner EXCEPT ![r] = q],
           UNCHANGED <<clock, guests, ranking, state, profile, standing, gems, history>>,
           deaths' \in 0..MaxDeaths,
           runner'[r] = q => DraftOk(r)' /\ ReadOk(r)' /\ DueOk(r)',
           runner'[r] = q =>
             /\ \A d \in LockedDays(r)' :
                  /\ state[d] = "CLOSED"
                  /\ \A e \in Days : e < d => state[e] = "SETTLED" \/ e \in LockedDays(r)'
             /\ \A s \in Others(r) :
                  /\ LockedDays(r)' \cap LockedDays(s) = {}
                  /\ LockedProfiles(r)' \cap LockedProfiles(s) = {}
    PROVE  BatchInv'
<1>1. /\ DOMAIN runner' = Runners /\ runner'[r] = q
      /\ \A s \in Runners : s # r => runner'[s] = runner[s]
  BY DEF BatchInv, ShapeOk
<1>2. ShapeOk'
  BY <1>1 DEF BatchInv, ShapeOk, Steps
<1>3. TablesOk' /\ DaysOk'
  BY DEF BatchInv, TablesOk, DaysOk
<1>4. ASSUME NEW s \in Runners, s # r
      PROVE  /\ DraftOk(s)' /\ ReadOk(s)' /\ DueOk(s)'
             /\ LockedDays(s)' = LockedDays(s) /\ LockedProfiles(s)' = LockedProfiles(s)
  <2>1. runner'[s] = runner[s]
    BY <1>1, <1>4
  <2>2. DraftOk(s) /\ ReadOk(s) /\ DueOk(s)
    BY DEF BatchInv
  <2>3. DraftOk(s)'
    BY <2>1, <2>2 DEF DraftOk, Draft, Batching, DraftTypes, BookOk
  <2>4. ReadOk(s)'
    BY <2>1, <2>2 DEF ReadOk
  <2>5. DueOk(s)'
    BY <2>1, <2>2 DEF DueOk, Draft, Batching
  <2> QED
    BY <2>1, <2>3, <2>4, <2>5 DEF LockedDays, LockedProfiles
<1>5. \A s \in Runners : (DraftOk(s) /\ ReadOk(s) /\ DueOk(s))'
  BY <1>1, <1>4
<1>6. LockOk'
  <2>1. \A s \in Runners : \A d \in LockedDays(s)' :
          /\ state'[d] = "CLOSED"
          /\ \A e \in Days : e < d => state'[e] = "SETTLED" \/ e \in LockedDays(s)'
    BY <1>1, <1>4 DEF BatchInv, LockOk
  <2>2. \A s, t \in Runners : s # t =>
          /\ LockedDays(s)' \cap LockedDays(t)' = {}
          /\ LockedProfiles(s)' \cap LockedProfiles(t)' = {}
    BY <1>1, <1>4 DEF BatchInv, LockOk, Others
  <2> QED
    BY <2>1, <2>2 DEF LockOk
<1> QED
  BY <1>2, <1>3, <1>5, <1>6 DEF BatchInv

(* A runner that starts anew holds nothing. *)
Begins == {"idle", "claim", "reset"}

(* ... and so is in order. *)
LEMMA FreshBatch ==
    ASSUME BatchInv, NEW r \in Runners, NEW q,
           q.pc \in Begins, DOMAIN q = Fields(q.pc),
           q.pc # "idle" => q.draft = NoDraft,
           q.pc = "reset" => q.read \in [Users -> Profile],
           runner' = [runner EXCEPT ![r] = q],
           UNCHANGED <<clock, guests, ranking, state, profile, standing, gems, history>>,
           deaths' \in 0..MaxDeaths
    PROVE  BatchInv'
<1>0. /\ NoDraft.profiles = <<>> /\ NoDraft.days = <<>> /\ NoDraft.gems = {}
      /\ DOMAIN <<>> = {}
  BY DEF NoDraft
<1>1. runner'[r] = q => DraftOk(r)' /\ ReadOk(r)' /\ DueOk(r)'
  <2> SUFFICES ASSUME runner'[r] = q PROVE DraftOk(r)' /\ ReadOk(r)' /\ DueOk(r)'
    OBVIOUS
  <2>1. q.pc # "idle" => Draft(r)' = NoDraft
    BY DEF Draft
  <2>2. DraftOk(r)'
    BY <1>0, <2>1 DEF DraftOk, DraftTypes, Batching, Begins
  <2> QED
    BY <2>2 DEF ReadOk, DueOk, Batching, Begins
<1>2. runner'[r] = q => LockedDays(r)' = {} /\ LockedProfiles(r)' = {}
  BY <1>0 DEF LockedDays, LockedProfiles, Begins
<1>3. q.pc \in Steps
  BY DEF Steps, Begins
<1> QED
  BY <1>1, <1>2, <1>3, RunnerBatch

(* A batch starts with the closed days that are due, in order. *)
LEMMA StartBatchBatch ==
    ASSUME BatchInv, NEW r \in Runners, StartBatch(r) PROVE BatchInv'
<1> USE Constants
<1> DEFINE due == InOrder(DueDays)
           q == [pc |-> "next", due |-> due, draft |-> NoDraft]
<1>1. /\ runner' = [runner EXCEPT ![r] = q]
      /\ UNCHANGED <<clock, guests, ranking, state, profile, standing, gems, history, deaths>>
  BY DEF StartBatch, tables
<1>2. DueDays \in SUBSET Days
  BY DEF DueDays
<1>3. /\ due \in Seq(Days) /\ DOMAIN due = 1..Len(due)
      /\ \A x : x \in DueDays <=> \E n \in DOMAIN due : due[n] = x
      /\ \A m, n \in DOMAIN due : m < n => due[m] < due[n]
  <2> DEFINE all == DueDays
  <2> HIDE DEF all
  <2>1. all \in SUBSET Days
    BY <1>2 DEF all
  <2> DEFINE list == Ascending(all)
  <2>2. /\ list \in Seq(Days)
        /\ \A x : x \in all <=> \E n \in 1..Len(list) : list[n] = x
        /\ \A m, n \in 1..Len(list) : m < n => list[m] < list[n]
    BY <2>1, AscendingList
  <2>3. due = list
    BY DEF InOrder, all
  <2> HIDE DEF list, due
  <2>4. DOMAIN list = 1..Len(list)
    BY <2>2
  <2> QED
    BY <2>2, <2>3, <2>4 DEF all
<1> HIDE DEF due
<1>4. /\ NoDraft.profiles = <<>> /\ NoDraft.days = <<>> /\ NoDraft.gems = {}
      /\ DOMAIN <<>> = {}
  BY DEF NoDraft
<1>5. q.pc = "next" /\ DOMAIN q = Fields("next") /\ q.due = due /\ q.draft = NoDraft
  BY DEF Fields
<1> HIDE DEF q
<1>6. \A n \in DOMAIN due :
        /\ state[due[n]] # "OPEN"
        /\ \A e \in Days : e < due[n] => state[e] = "SETTLED" \/ \E m \in DOMAIN due : due[m] = e
  <2> TAKE n \in DOMAIN due
  <2>1. due[n] \in DueDays
    BY <1>3
  <2>2. state[due[n]] = "CLOSED" /\ 2 * due[n] + 1 <= clock /\ due[n] \in Days
    BY <2>1 DEF DueDays
  <2>3. ASSUME NEW e \in Days, e < due[n], state[e] # "SETTLED" PROVE e \in DueDays
    <3>1. clock \in Int /\ e \in Int /\ due[n] \in Int
      <4>1. clock \in 2..(2 * NumDays + 1)
        BY DEF BatchInv, TablesOk
      <4>2. Days \subseteq Int
        BY Constants
      <4>3. e \in Int /\ due[n] \in Int
        BY <2>2, <4>2
      <4> QED
        BY <4>1, <4>3
    <3>2. 2 * e < clock /\ 2 * e + 1 <= clock
      BY <2>2, <2>3, <3>1
    <3>3. state[e] # "OPEN" /\ state[e] \in {"OPEN", "CLOSED", "SETTLED"}
      BY <3>2 DEF BatchInv, TablesOk, DaysOk
    <3> QED
      BY <2>3, <3>2, <3>3 DEF DueDays
  <2> QED
    BY <1>3, <2>2, <2>3
<1>7. runner'[r] = q => DraftOk(r)' /\ ReadOk(r)' /\ DueOk(r)'
  <2> SUFFICES ASSUME runner'[r] = q PROVE DraftOk(r)' /\ ReadOk(r)' /\ DueOk(r)'
    OBVIOUS
  <2>1. Draft(r)' = NoDraft /\ Batching(r)'
    BY <1>5 DEF Draft, Batching
  <2>2. DraftOk(r)'
    BY <1>4, <1>5, <2>1 DEF DraftOk, DraftTypes, Batching
  <2>3. DueOk(r)'
    BY <1>1, <1>3, <1>4, <1>5, <1>6, <2>1 DEF DueOk
  <2> QED
    BY <1>5, <2>2, <2>3 DEF ReadOk
<1>8. runner'[r] = q => LockedDays(r)' = {} /\ LockedProfiles(r)' = {}
  BY <1>4, <1>5 DEF LockedDays, LockedProfiles
<1>9. q.pc \in Steps /\ deaths' \in 0..MaxDeaths
  BY <1>1, <1>5 DEF Steps, BatchInv, TablesOk
<1> QED
  BY <1>1, <1>5, <1>7, <1>8, <1>9, RunnerBatch

(* A heartbeat claims the season and reads everybody, or has nothing to do. *)
LEMMA ClaimSeasonBatch ==
    ASSUME BatchInv, NEW r \in Runners, ClaimSeason(r) PROVE BatchInv'
<1> DEFINE new == [pc |-> "reset", season |-> EndedSeason, draft |-> NoDraft, read |-> profile]
           q == IF EndedSeason \in Range(resets) THEN Idle ELSE new
<1>1. /\ runner' = [runner EXCEPT ![r] = q]
      /\ UNCHANGED <<clock, guests, ranking, state, profile, standing, gems, history, deaths>>
  BY DEF ClaimSeason, tables
<1>2. /\ new.pc = "reset" /\ DOMAIN new = Fields("reset")
      /\ new.draft = NoDraft /\ new.read = profile
  BY DEF Fields
<1>3. Idle.pc = "idle" /\ DOMAIN Idle = Fields("idle")
  BY DEF Fields, Idle
<1> HIDE DEF new
<1>4. /\ q.pc \in Begins /\ DOMAIN q = Fields(q.pc)
      /\ q.pc # "idle" => q.draft = NoDraft
      /\ q.pc = "reset" => q.read \in [Users -> Profile]
  BY <1>2, <1>3 DEF BatchInv, TablesOk, Begins
<1>5. deaths' \in 0..MaxDeaths
  BY <1>1 DEF BatchInv, TablesOk
<1> HIDE DEF q
<1> QED
  BY <1>1, <1>4, <1>5, FreshBatch

(* A runner that dies lets go of its rows. *)
LEMMA DieBatch ==
    ASSUME BatchInv, NEW r \in Runners, Die(r) PROVE BatchInv'
<1>1. /\ runner' = [runner EXCEPT ![r] = Idle]
      /\ UNCHANGED <<clock, guests, ranking, state, profile, standing, gems, history>>
      /\ deaths < MaxDeaths /\ deaths' = deaths + 1
  BY DEF Die, Surviving
<1>2. Idle.pc = "idle" /\ DOMAIN Idle = Fields("idle")
  BY DEF Fields, Idle
<1>3. deaths' \in 0..MaxDeaths
  BY <1>1, Constants DEF BatchInv, TablesOk
<1>4. /\ Idle.pc \in Begins /\ DOMAIN Idle = Fields(Idle.pc)
      /\ Idle.pc # "idle" => Idle.draft = NoDraft
      /\ Idle.pc = "reset" => Idle.read \in [Users -> Profile]
  BY <1>2 DEF Begins
<1> QED
  BY <1>1, <1>3, <1>4, FreshBatch

(* The rest of a list of days in order. *)
LEMMA TailList ==
    ASSUME NEW due \in Seq(Days), due # <<>>,
           \A m, n \in DOMAIN due : m < n => due[m] < due[n]
    PROVE  /\ Head(due) \in Days /\ Head(due) = due[1] /\ 1 \in DOMAIN due
           /\ Tail(due) \in Seq(Days)
           /\ \A m, n \in DOMAIN Tail(due) : m < n => Tail(due)[m] < Tail(due)[n]
           /\ \A n \in DOMAIN Tail(due) : n + 1 \in DOMAIN due /\ Tail(due)[n] = due[n + 1]
           /\ \A n \in DOMAIN Tail(due) : Head(due) < Tail(due)[n]
           /\ \A n \in DOMAIN due : n = 1 \/ (n - 1 \in DOMAIN Tail(due)
                                              /\ Tail(due)[n - 1] = due[n])
           /\ \A n \in DOMAIN due : Head(due) <= due[n]
<1> DEFINE rest == Tail(due)
<1>1. /\ Len(due) \in Nat /\ Len(due) > 0 /\ DOMAIN due = 1..Len(due)
      /\ rest \in Seq(Days) /\ Len(rest) = Len(due) - 1 /\ DOMAIN rest = 1..(Len(due) - 1)
      /\ \A n \in 1..(Len(due) - 1) : rest[n] = due[n + 1]
      /\ Head(due) = due[1] /\ Head(due) \in Days
  OBVIOUS
<1> HIDE DEF rest
<1>2. \A n \in DOMAIN rest : n + 1 \in DOMAIN due /\ rest[n] = due[n + 1]
  BY <1>1
<1>3. \A n \in DOMAIN due : n = 1 \/ (n - 1 \in DOMAIN rest /\ rest[n - 1] = due[n])
  BY <1>1
<1>4. \A m, n \in DOMAIN rest : m < n => rest[m] < rest[n]
  BY <1>1, <1>2
<1>5. \A n \in DOMAIN rest : Head(due) < rest[n]
  BY <1>1, <1>2
<1>6. \A n \in DOMAIN due : Head(due) <= due[n]
  <2> TAKE n \in DOMAIN due
  <2>1. due[n] \in Int /\ due[1] \in Int /\ (n = 1 \/ 1 < n) /\ 1 \in DOMAIN due
    <3>1. due[n] \in Days /\ due[1] \in Days
      BY <1>1
    <3>2. due[n] \in Int /\ due[1] \in Int
      BY <3>1, Constants
    <3>3. (n = 1 \/ 1 < n) /\ 1 \in DOMAIN due
      BY <1>1
    <3> QED
      BY <3>2, <3>3
  <2>2. CASE n = 1
    BY <1>1, <2>1, <2>2
  <2>3. CASE 1 < n
    <3>1. due[1] < due[n]
      BY <2>1, <2>3
    <3> QED
      BY <1>1, <2>1, <3>1
  <2> QED
    BY <2>1, <2>2, <2>3
<1> QED
  BY <1>1, <1>2, <1>3, <1>4, <1>5, <1>6 DEF rest

(* The players of a ranking are folded to those that are saved. *)
Sv == INSTANCE FoldFacts WITH
        Op <- LAMBDA field, u : IF u \in guests THEN field ELSE Append(field, u)

(* The saved players of a ranking are users, in a row. *)
LEMMA SavedType ==
    ASSUME NEW order \in Seq(Users)
    PROVE  Saved(order) \in Seq(Users)
<1>1. Saved(order) = Sv!Fold(<<>>, order)
  BY DEF Saved, Sv!Fold, Sv!FoldLeft, Sv!MapThenFoldSet, Sv!Max, FoldLeft, MapThenFoldSet, Max
<1>2. \A a \in Seq(Users), x \in Users :
        (IF x \in guests THEN a ELSE Append(a, x)) \in Seq(Users)
  OBVIOUS
<1>3. <<>> \in Seq(Users)
  OBVIOUS
<1>4. Sv!Fold(<<>>, order) \in Seq(Users)
  BY <1>2, <1>3, Sv!FoldType
<1> QED
  BY <1>1, <1>4

(* The rules keep profiles profiles. *)
LEMMA NextStreakType ==
    ASSUME NEW p \in Profile, NEW d \in Days
    PROVE  /\ NextStreak(p, d) \in Profile
           /\ NextStreak(p, d).rating = p.rating
           /\ NextStreak(p, d).xp = p.xp
<1>1. d \in Dates /\ 1 \in Nat
  BY Constants
<1>2. p.streak \in Nat /\ p.streak + 1 \in Nat
  BY DEF Profile
<1> DEFINE a == [p EXCEPT !.streak = p.streak + 1, !.last = d]
           b == [p EXCEPT !.streak = p.streak + 1, !.last = d, !.grace = d]
           c == [p EXCEPT !.streak = 1, !.last = d]
<1>3. NextStreak(p, d) \in {p, a, b, c}
  BY Zenon DEF NextStreak
<1>4. \A q \in {p, a, b, c} : q \in Profile /\ q.rating = p.rating /\ q.xp = p.xp
  BY <1>1, <1>2 DEF Profile
<1> HIDE DEF a, b, c
<1> QED
  BY <1>3, <1>4

(* The rating moves by a whole number. *)
LEMMA RatingDeltaType ==
    ASSUME NEW place \in Nat, NEW size \in Nat
    PROVE  RatingDelta(place, size) \in Int
<1>1. CASE size <= 1
  BY <1>1 DEF RatingDelta
<1>2. CASE ~(size <= 1)
  <2> DEFINE m == 2 * (64 * (size - place) - 32 * (size - 1)) + size - 1
             b == 2 * (size - 1)
  <2>1. m \in Int /\ b \in Int /\ b > 0
    BY <1>2
  <2> HIDE DEF m, b
  <2>2. m \div b \in Int
    BY <2>1
  <2>3. RatingDelta(place, size) \in {m \div b, m \div b - 1}
    BY <1>2, <2>2 DEF RatingDelta, m, b
  <2> QED
    BY <2>2, <2>3
<1> QED
  BY <1>1, <1>2

(* The profile after a place. *)
LEMMA AfterType ==
    ASSUME NEW p \in Profile, NEW d \in Days, NEW delta \in Int
    PROVE  /\ [NextStreak(p, d) EXCEPT !.rating = @ + delta] \in Profile
           /\ [NextStreak(p, d) EXCEPT !.rating = @ + delta].rating = p.rating + delta
           /\ Alike([NextStreak(p, d) EXCEPT !.rating = @ + delta], NextStreak(p, d))
           /\ [NextStreak(p, d) EXCEPT !.rating = @ + delta].xp = p.xp
<1> DEFINE q == NextStreak(p, d)
<1>1. q \in Profile /\ q.rating = p.rating /\ q.xp = p.xp
  BY NextStreakType
<1> HIDE DEF q
<1>2. q.rating + delta \in Int
  BY <1>1 DEF Profile
<1>3. [q EXCEPT !.rating = q.rating + delta] \in Profile
  BY <1>1, <1>2 DEF Profile
<1>4. /\ [q EXCEPT !.rating = q.rating + delta].rating = p.rating + delta
      /\ Alike([q EXCEPT !.rating = q.rating + delta], q)
      /\ [q EXCEPT !.rating = q.rating + delta].xp = p.xp
  BY <1>1 DEF Profile, Alike
<1> QED
  BY <1>3, <1>4 DEF q

(* What Assigned does to each column. *)
Column(row, new, read, always, f) ==
    IF new[f] # read[f] \/ (always /\ f \in {"rating", "streak", "last"})
    THEN new[f] ELSE row[f]

(* An assigned row is a profile, column by column. *)
LEMMA AssignedType ==
    ASSUME NEW row \in Profile, NEW new \in Profile, NEW read \in Profile,
           NEW always \in BOOLEAN
    PROVE  /\ Assigned(row, new, read, always) \in Profile
           /\ Assigned(row, new, read, always).rating = Column(row, new, read, always, "rating")
           /\ Assigned(row, new, read, always).streak = Column(row, new, read, always, "streak")
           /\ Assigned(row, new, read, always).last = Column(row, new, read, always, "last")
           /\ Assigned(row, new, read, always).grace = Column(row, new, read, always, "grace")
           /\ Assigned(row, new, read, always).xp = Column(row, new, read, always, "xp")
<1> DEFINE D == {"rating", "streak", "last", "grace", "xp"}
           w == [f \in D |-> Column(row, new, read, always, f)]
<1>1. DOMAIN row = D
  BY DEF Profile
<1>2. Assigned(row, new, read, always) = w
  BY <1>1 DEF Assigned, Column
<1>3. /\ w.rating = Column(row, new, read, always, "rating")
      /\ w.streak = Column(row, new, read, always, "streak")
      /\ w.last = Column(row, new, read, always, "last")
      /\ w.grace = Column(row, new, read, always, "grace")
      /\ w.xp = Column(row, new, read, always, "xp")
      /\ DOMAIN w = D
  OBVIOUS
<1>4. /\ row.rating \in Int /\ new.rating \in Int /\ row.streak \in Nat /\ new.streak \in Nat
      /\ row.last \in Dates \cup {Never} /\ new.last \in Dates \cup {Never}
      /\ row.grace \in Dates \cup {Never} /\ new.grace \in Dates \cup {Never}
      /\ row.xp \in Nat /\ new.xp \in Nat
  BY DEF Profile
<1>5. w = [rating |-> w.rating, streak |-> w.streak, last |-> w.last,
           grace |-> w.grace, xp |-> w.xp]
  OBVIOUS
<1>6. /\ w.rating \in Int /\ w.streak \in Nat /\ w.last \in Dates \cup {Never}
      /\ w.grace \in Dates \cup {Never} /\ w.xp \in Nat
  BY <1>3, <1>4 DEF Column
<1> HIDE DEF w
<1>7. w \in Profile
  BY <1>5, <1>6 DEF Profile
<1> QED
  BY <1>2, <1>3, <1>7

(* Half of a number is a number, and not negative if that was not. *)
LEMMA HalfEvenType ==
    ASSUME NEW n \in Int
    PROVE  HalfEven(n) \in Int /\ (n \in Nat => HalfEven(n) \in Nat)
BY DEF HalfEven

(* The soft reset leaves the streak as it is. *)
LEMMA SoftResetType ==
    ASSUME NEW p \in Profile
    PROVE  SoftReset(p) \in Profile /\ Alike(SoftReset(p), p)
<1>1. p.rating - 1000 \in Int /\ p.xp \in Nat
  BY DEF Profile
<1> DEFINE rating == 1000 + HalfEven(p.rating - 1000)
           xp == HalfEven(p.xp)
<1>2. rating \in Int /\ xp \in Nat
  BY <1>1, HalfEvenType
<1>3. SoftReset(p) = [p EXCEPT !.rating = rating, !.xp = xp]
  BY DEF SoftReset, Profile
<1> HIDE DEF rating, xp
<1>4. [p EXCEPT !.rating = rating, !.xp = xp] \in Profile
  BY <1>2 DEF Profile
<1>5. Alike([p EXCEPT !.rating = rating, !.xp = xp], p)
  BY DEF Profile, Alike
<1> QED
  BY <1>3, <1>4, <1>5

(* Rewards are not negative. *)
LEMMA RewardTypes ==
    /\ \A place \in Nat, size \in Nat : GemsForPlace(place, size) \in Nat
    /\ \A n \in Nat : MilestoneGems(n) \in Nat
    /\ \A p \in Profile : SeasonReward(p) \in Nat
<1>1. \A place \in Nat, size \in Nat : GemsForPlace(place, size) \in {12, 7, 4, 2, 1, 0}
  BY DEF GemsForPlace
<1>2. \A n \in Nat : MilestoneGems(n) \in {1, 2, 3, 0}
  BY Zenon DEF MilestoneGems
<1>3. \A p \in Profile : DivisionReward(p.rating) \in {25, 15, 10, 6, 3, 0}
  BY DEF DivisionReward
<1>4. \A p \in Profile : TierReward(p.xp) \in {12, 6, 3, 0}
  BY ZenonT(60) DEF TierReward
<1>5. \A p \in Profile : SeasonReward(p) \in Nat
  <2> TAKE p \in Profile
  <2>1. \A a \in {25, 15, 10, 6, 3, 0}, b \in {12, 6, 3, 0} : a + b \in Nat
    OBVIOUS
  <2> QED
    BY <1>3, <1>4, <2>1 DEF SeasonReward
<1> QED
  BY <1>1, <1>2, <1>5

(* Reading and writing rows. *)
LEMMA OverIs ==
    ASSUME NEW new, NEW old
    PROVE  /\ DOMAIN Over(new, old) = DOMAIN new \cup DOMAIN old
           /\ \A x \in DOMAIN new : Over(new, old)[x] = new[x]
           /\ \A x \in DOMAIN old : x \notin DOMAIN new => Over(new, old)[x] = old[x]
BY DEF Over

(* What a transaction sees of a player is a profile. *)
LEMMA SeenType ==
    ASSUME BatchInv, NEW r \in Runners, runner[r].pc # "idle", NEW u \in Users
    PROVE  Seen(r, u) \in Profile
BY DEF BatchInv, TablesOk, DraftOk, DraftTypes, Draft, Seen

(* Locking the next window: the earlier ones are settled or in the draft. *)
LEMMA LockWindowBatch ==
    ASSUME BatchInv, NEW r \in Runners, LockWindow(r) PROVE BatchInv'
<1> DEFINE due == runner[r].due
           draft == runner[r].draft
           d == Head(due)
           field == Saved(ranking[d])
           read == [u \in Range(field) |-> Seen(r, u)]
           locked == [pc |-> "pay", due |-> due, draft |-> draft,
                      field |-> field, read |-> read]
           skipped == [runner[r] EXCEPT !.due = Tail(@)]
<1>1. /\ runner[r].pc = "next" /\ due # <<>>
      /\ DOMAIN runner[r] = Fields("next")
      /\ UNCHANGED <<clock, guests, ranking, state, profile, standing, gems, history>>
      /\ deaths' \in 0..MaxDeaths
      /\ \A s \in Others(r) : d \notin LockedDays(s)
  BY DEF LockWindow, BatchInv, ShapeOk, tables, TablesOk
<1>2. /\ Batching(r) /\ Draft(r) = draft
      /\ LockedDays(r) = DOMAIN draft.days /\ LockedProfiles(r) = DOMAIN draft.profiles
  BY <1>1 DEF Batching, Draft, LockedDays, LockedProfiles
<1>3. /\ due \in Seq(Days)
      /\ \A m, n \in DOMAIN due : m < n => due[m] < due[n]
      /\ \A n \in DOMAIN due :
           /\ state[due[n]] # "OPEN"
           /\ \A e \in DOMAIN draft.days : e < due[n]
           /\ \A e \in Days : e < due[n] =>
                    \/ state[e] = "SETTLED"
                    \/ e \in DOMAIN draft.days
                    \/ \E m \in DOMAIN due : due[m] = e
  BY <1>2 DEF BatchInv, DueOk
<1> HIDE DEF due
<1>4. /\ d \in Days /\ d = due[1] /\ 1 \in DOMAIN due /\ Tail(due) \in Seq(Days)
      /\ \A m, n \in DOMAIN Tail(due) : m < n => Tail(due)[m] < Tail(due)[n]
      /\ \A n \in DOMAIN Tail(due) : n + 1 \in DOMAIN due /\ Tail(due)[n] = due[n + 1]
      /\ \A n \in DOMAIN due : n = 1 \/ (n - 1 \in DOMAIN Tail(due)
                                         /\ Tail(due)[n - 1] = due[n])
      /\ \A n \in DOMAIN due : d <= due[n]
  BY <1>1, <1>3, TailList
<1>5. /\ DraftOk(r) /\ ReadOk(r) /\ DueOk(r)
      /\ \A e \in LockedDays(r) :
            /\ state[e] = "CLOSED"
            /\ \A f \in Days : f < e => state[f] = "SETTLED" \/ f \in LockedDays(r)
      /\ \A s \in Others(r) : /\ LockedDays(r) \cap LockedDays(s) = {}
                              /\ LockedProfiles(r) \cap LockedProfiles(s) = {}
  BY DEF BatchInv, LockOk, Others
<1>6. CASE StillClosed(d)
  <2>1. runner' = [runner EXCEPT ![r] = locked]
    BY <1>1, <1>6 DEF LockWindow, BatchInv, ShapeOk, due
  <2>2. ranking[d] \in Seq(Users)
    BY <1>4 DEF BatchInv, TablesOk
  <2>3. field \in Seq(Users)
    BY <2>2, SavedType
  <2>4. Range(field) \subseteq Users
    <3> HIDE DEF field
    <3> QED
      BY <2>3 DEF Range
  <2>5. \A u \in Range(field) : Seen(r, u) \in Profile
    BY <1>1, <2>4, SeenType
  <2> HIDE DEF field
  <2>6. DOMAIN read = Range(field) /\ \A u \in DOMAIN read : read[u] \in Profile
    BY <2>5
  <2> HIDE DEF read
  <2>7. /\ locked.pc = "pay" /\ DOMAIN locked = Fields("pay") /\ locked.due = due
        /\ locked.draft = draft /\ locked.field = field /\ locked.read = read
    BY DEF Fields
  <2> HIDE DEF locked, draft, d
  <2>8. ASSUME runner'[r] = locked
        PROVE  /\ DraftOk(r)' /\ ReadOk(r)' /\ DueOk(r)'
               /\ LockedDays(r)' = LockedDays(r) \cup {d}
               /\ LockedProfiles(r)' = LockedProfiles(r)
    <3>1. Draft(r)' = Draft(r) /\ Batching(r)' /\ runner[r].due = due
      BY <1>2, <2>7, <2>8 DEF Draft, Batching, due
    <3>2. DraftOk(r)'
      BY <1>1, <1>2, <1>5, <2>7, <2>8, <3>1 DEF DraftOk, DraftTypes, BookOk
    <3>3. ReadOk(r)'
      BY <1>1, <2>3, <2>6, <2>7, <2>8 DEF ReadOk
    <3>4. DueOk(r)'
      BY <1>1, <1>2, <1>5, <2>7, <2>8, <3>1 DEF DueOk
    <3>5. LockedDays(r)' = LockedDays(r) \cup {d} /\ LockedProfiles(r)' = LockedProfiles(r)
      BY <1>2, <2>7, <2>8 DEF LockedDays, LockedProfiles, d
    <3> QED
      BY <3>2, <3>3, <3>4, <3>5
  <2>9. /\ state[d] = "CLOSED"
        /\ \A e \in Days : e < d => state[e] = "SETTLED" \/ e \in LockedDays(r)
    <3>1. \A e \in Days : e < d => ~ \E m \in DOMAIN due : due[m] = e
      <4>1. \A e \in Days : e \in Int
        BY Constants
      <4>2. d \in Int /\ \A m \in DOMAIN due : due[m] \in Days
        BY <1>3, <1>4, <4>1
      <4> QED
        BY <1>4, <4>1, <4>2
    <3> QED
      BY <1>2, <1>3, <1>4, <1>6, <3>1 DEF StillClosed
  <2>10. ASSUME runner'[r] = locked
         PROVE  /\ \A e \in LockedDays(r)' :
                     /\ state[e] = "CLOSED"
                     /\ \A f \in Days : f < e => state[f] = "SETTLED" \/ f \in LockedDays(r)'
                /\ \A s \in Others(r) :
                     /\ LockedDays(r)' \cap LockedDays(s) = {}
                     /\ LockedProfiles(r)' \cap LockedProfiles(s) = {}
    BY <1>1, <1>5, <2>8, <2>9, <2>10
  <2>11. locked.pc \in Steps /\ DOMAIN locked = Fields(locked.pc)
    BY <2>7 DEF Steps
  <2> QED
    BY <1>1, <2>1, <2>8, <2>10, <2>11, RunnerBatch
<1>7. CASE ~StillClosed(d)
  <2>1. runner' = [runner EXCEPT ![r] = skipped]
    BY <1>1, <1>7 DEF LockWindow, BatchInv, ShapeOk, due
  <2>2. /\ skipped.pc = "next" /\ DOMAIN skipped = Fields("next")
        /\ skipped.due = Tail(due) /\ skipped.draft = draft
    BY <1>1 DEF Fields, due
  <2> HIDE DEF skipped, draft
  <2>3. state[d] = "SETTLED"
    <3>1. state[d] \in {"OPEN", "CLOSED", "SETTLED"}
      BY <1>4 DEF BatchInv, TablesOk
    <3> QED
      BY <1>3, <1>4, <1>7, <3>1 DEF StillClosed
  <2> HIDE DEF d
  <2> DEFINE rest == Tail(due)
  <2>4. \A n \in DOMAIN rest :
           /\ state[rest[n]] # "OPEN"
           /\ \A e \in DOMAIN draft.days : e < rest[n]
           /\ \A e \in Days : e < rest[n] =>
                    \/ state[e] = "SETTLED"
                    \/ e \in DOMAIN draft.days
                    \/ \E m \in DOMAIN rest : rest[m] = e
    <3> HIDE DEF rest
    <3> SUFFICES ASSUME NEW n \in DOMAIN rest, NEW e \in Days, e < rest[n],
                        state[e] # "SETTLED", e \notin DOMAIN draft.days
                 PROVE  \E m \in DOMAIN rest : rest[m] = e
      BY <1>3, <1>4 DEF rest
    <3>1. PICK m \in DOMAIN due : due[m] = e
      BY <1>3, <1>4 DEF rest
    <3>2. m # 1
      BY <1>4, <2>3, <3>1
    <3> QED
      BY <1>4, <3>1, <3>2 DEF rest
  <2> HIDE DEF rest
  <2>5. ASSUME runner'[r] = skipped
        PROVE  /\ DraftOk(r)' /\ ReadOk(r)' /\ DueOk(r)'
               /\ LockedDays(r)' = LockedDays(r)
               /\ LockedProfiles(r)' = LockedProfiles(r)
    <3>1. Draft(r)' = Draft(r) /\ Batching(r)'
      BY <1>2, <2>2, <2>5 DEF Draft, Batching
    <3>2. DraftOk(r)'
      BY <1>1, <1>2, <1>5, <2>2, <2>5, <3>1 DEF DraftOk, DraftTypes, BookOk
    <3>3. ReadOk(r)'
      BY <1>1, <2>2, <2>5 DEF ReadOk
    <3>4. DueOk(r)'
      BY <1>1, <1>2, <1>4, <2>2, <2>4, <2>5, <3>1, ZenonT(60) DEF DueOk, rest
    <3>5. LockedDays(r)' = LockedDays(r) /\ LockedProfiles(r)' = LockedProfiles(r)
      BY <1>2, <2>2, <2>5 DEF LockedDays, LockedProfiles
    <3> QED
      BY <3>2, <3>3, <3>4, <3>5
  <2>6. skipped.pc \in Steps /\ DOMAIN skipped = Fields(skipped.pc)
    BY <2>2 DEF Steps
  <2>7. ASSUME runner'[r] = skipped
         PROVE  /\ \A e \in LockedDays(r)' :
                     /\ state[e] = "CLOSED"
                     /\ \A f \in Days : f < e => state[f] = "SETTLED" \/ f \in LockedDays(r)'
                /\ \A s \in Others(r) :
                     /\ LockedDays(r)' \cap LockedDays(s) = {}
                     /\ LockedProfiles(r)' \cap LockedProfiles(s) = {}
    BY <1>5, <2>5, <2>7
  <2> QED
    BY <1>1, <2>1, <2>5, <2>6, <2>7, RunnerBatch
<1> QED
  BY <1>6, <1>7

(* The parts of the payment of a field, named. *)
PayDay(r) == Head(runner[r].due)

(* The field. *)
Players(r) == Range(runner[r].field)

(* Its size. *)
PaySize(r) == Len(runner[r].field)

(* The place of a player. *)
PayPos(r, u) == CHOOSE n \in 1..PaySize(r) : runner[r].field[n] = u

(* The profile computed from what was read. *)
PayAfter(r, u) ==
    [NextStreak(runner[r].read[u], PayDay(r)) EXCEPT
        !.rating = @ + RatingDelta(PayPos(r, u), PaySize(r))]

(* The gems a place, a streak and a first game are worth. *)
PayWanted(r, u) ==
    DayGems(PayDay(r), u, PayPos(r, u), PaySize(r), PayAfter(r, u).streak)

(* Those not granted yet. *)
PayGrants(r, u) == Granted(r, PayWanted(r, u))

(* The row that is written. *)
PayRow(r, u) ==
    Assigned(Seen(r, u), PayAfter(r, u), runner[r].read[u], PayGrants(r, u) # {})

(* The standing that is written. *)
PayPlace(r, u) ==
    [place |-> PayPos(r, u), size |-> PaySize(r),
     gems |-> GemsForPlace(PayPos(r, u), PaySize(r)),
     before |-> runner[r].read[u].rating, after |-> PayAfter(r, u).rating]

(* The standings of the day. *)
PayBook(r) == [u \in Players(r) |-> PayPlace(r, u)]

(* The draft after the payment. *)
PayDraft(r) ==
    [profiles |-> Over([u \in Players(r) |-> PayRow(r, u)], Draft(r).profiles),
     days |-> Over([e \in {PayDay(r)} |-> PayBook(r)], Draft(r).days),
     gems |-> Draft(r).gems \cup UNION {PayGrants(r, u) : u \in Players(r)}]

(* The runner after the payment. *)
Paid(r) == [pc |-> "next", due |-> Tail(runner[r].due), draft |-> PayDraft(r)]

(* These are the parts of PayField. *)
LEMMA PayFieldIs ==
    ASSUME BatchInv, NEW r \in Runners, PayField(r)
    PROVE  /\ runner[r].pc = "pay"
           /\ runner' = [runner EXCEPT ![r] = Paid(r)]
           /\ UNCHANGED <<clock, guests, ranking, state, profile, standing, gems, resets,
                          deaths, history>>
           /\ \A s \in Others(r) : LockedProfiles(s) \cap Players(r) = {}
BY DEF PayField, Paid, PayDraft, PayBook, PayPlace, PayRow, PayGrants, PayWanted, PayAfter,
       PayPos, PaySize, Players, PayDay, Draft, BatchInv, ShapeOk, tables

(* What a day's gems are rows of. *)
LEMMA DayGemsType ==
    ASSUME NEW d \in Days, NEW u \in Users, NEW n \in Nat, NEW size \in Nat, NEW streak \in Nat
    PROVE  /\ DayGems(d, u, n, size, streak) \subseteq GemRow
           /\ \A g \in DayGems(d, u, n, size, streak) :
                 g \in {Gem(StarterKey(u), 5), Gem(PlaceKey(d, u), GemsForPlace(n, size)),
                        Gem(StreakKey(d, u, streak), MilestoneGems(streak))}
<1>1. GemsForPlace(n, size) \in Nat /\ MilestoneGems(streak) \in Nat
  BY RewardTypes
<1> DEFINE a == GemsForPlace(n, size)
           b == MilestoneGems(streak)
<1> HIDE DEF a, b
<1>2. d \in Int /\ 0 \in Int /\ 0 \in Nat
  BY Constants
<1>3. /\ StarterKey(u) \in KeyKinds \X Users \X Int \X Nat
      /\ PlaceKey(d, u) \in KeyKinds \X Users \X Int \X Nat
      /\ StreakKey(d, u, streak) \in KeyKinds \X Users \X Int \X Nat
  BY <1>2 DEF StarterKey, PlaceKey, StreakKey, KeyKinds
<1>4. ASSUME NEW key \in KeyKinds \X Users \X Int \X Nat, NEW amount \in Nat,
             Payable(Gem(key, amount))
      PROVE  Gem(key, amount) \in GemRow
  BY <1>4 DEF Gem, GemRow, Payable
<1>5. /\ Payable(Gem(StarterKey(u), 5)) => Gem(StarterKey(u), 5) \in GemRow
      /\ Payable(Gem(PlaceKey(d, u), a)) => Gem(PlaceKey(d, u), a) \in GemRow
      /\ Payable(Gem(StreakKey(d, u, streak), b)) => Gem(StreakKey(d, u, streak), b) \in GemRow
  BY <1>1, <1>3, <1>4 DEF a, b
<1>6. DayGems(d, u, n, size, streak) =
        {g \in {Gem(StarterKey(u), 5), Gem(PlaceKey(d, u), a), Gem(StreakKey(d, u, streak), b)} :
           Payable(g)}
  BY DEF DayGems, a, b
<1>7. /\ DayGems(d, u, n, size, streak) \subseteq GemRow
      /\ \A g \in DayGems(d, u, n, size, streak) :
            g \in {Gem(StarterKey(u), 5), Gem(PlaceKey(d, u), a),
                   Gem(StreakKey(d, u, streak), b)}
  BY <1>5, <1>6
<1> QED
  BY <1>7 DEF a, b

(* Types of all that a payment computes for one player of the field. *)
LEMMA PayTypes ==
    ASSUME BatchInv, NEW r \in Runners, runner[r].pc = "pay", NEW u \in Players(r)
    PROVE  /\ u \in Users /\ PayDay(r) \in Days
           /\ u \in DOMAIN runner[r].read
           /\ runner[r].read[u] \in Profile
           /\ Seen(r, u) \in Profile
           /\ PayPos(r, u) \in Nat \ {0} /\ PaySize(r) \in Nat
           /\ RatingDelta(PayPos(r, u), PaySize(r)) \in Int
           /\ PayAfter(r, u) \in Profile
           /\ PayRow(r, u) \in Profile
           /\ PayPlace(r, u) \in Place
           /\ PayWanted(r, u) \subseteq GemRow
<1> DEFINE due == runner[r].due
           field == runner[r].field
           read == runner[r].read
<1>1. /\ due # <<>> /\ due \in Seq(Days) /\ field \in Seq(Users)
      /\ DOMAIN read = Range(field)
      /\ \A x \in DOMAIN read : read[x] \in Profile
  BY DEF BatchInv, ReadOk, DueOk, Batching
<1>2. PayDay(r) \in Days
  <2> HIDE DEF due
  <2>1. Head(due) \in Days
    BY <1>1
  <2> QED
    BY <2>1 DEF PayDay, due
<1>3. u \in Range(field) /\ PaySize(r) = Len(field)
  BY DEF Players, PaySize
<1> HIDE DEF field, read
<1>4. /\ PaySize(r) \in Nat
      /\ \E n \in 1..PaySize(r) : field[n] = u
      /\ u \in Users
  BY <1>1, <1>3 DEF Range
<1>5. PayPos(r, u) \in Nat \ {0}
  BY <1>4 DEF PayPos, field
<1>6. u \in DOMAIN read /\ read[u] \in Profile
  BY <1>1, <1>3
<1>7. Seen(r, u) \in Profile
  BY <1>4, SeenType
<1>8. RatingDelta(PayPos(r, u), PaySize(r)) \in Int
  BY <1>4, <1>5, RatingDeltaType
<1>9. PayAfter(r, u) \in Profile
  BY <1>2, <1>6, <1>8, AfterType DEF PayAfter, read
<1>10. PayRow(r, u) \in Profile
  <2>1. (PayGrants(r, u) # {}) \in BOOLEAN
    OBVIOUS
  <2> QED
    BY <1>6, <1>7, <1>9, <2>1, AssignedType DEF PayRow, read
<1>11. PayPlace(r, u) \in Place
  <2>1. GemsForPlace(PayPos(r, u), PaySize(r)) \in Nat
    BY <1>4, <1>5, RewardTypes
  <2>2. read[u].rating \in Int /\ PayAfter(r, u).rating \in Int
    BY <1>6, <1>9 DEF Profile
  <2> QED
    BY <1>4, <1>5, <2>1, <2>2 DEF PayPlace, Place, read
<1>12. PayWanted(r, u) \subseteq GemRow
  <2>1. PayAfter(r, u).streak \in Nat
    BY <1>9 DEF Profile
  <2> QED
    BY <1>2, <1>4, <1>5, <2>1, DayGemsType DEF PayWanted
<1> QED
  BY <1>2, <1>4, <1>5, <1>6, <1>7, <1>8, <1>9, <1>10, <1>11, <1>12 DEF read

(* What the draft of a payment holds. *)
LEMMA PayDraftIs ==
    ASSUME BatchInv, NEW r \in Runners, runner[r].pc = "pay"
    PROVE  /\ DraftTypes(PayDraft(r))
           /\ DOMAIN PayDraft(r).profiles = DOMAIN Draft(r).profiles \cup Players(r)
           /\ \A u \in Players(r) : PayDraft(r).profiles[u] = PayRow(r, u)
           /\ \A u \in DOMAIN Draft(r).profiles : u \notin Players(r) =>
                PayDraft(r).profiles[u] = Draft(r).profiles[u]
           /\ DOMAIN PayDraft(r).days = DOMAIN Draft(r).days \cup {PayDay(r)}
           /\ PayDraft(r).days[PayDay(r)] = PayBook(r)
           /\ \A d \in DOMAIN Draft(r).days : d # PayDay(r) =>
                PayDraft(r).days[d] = Draft(r).days[d]
           /\ DOMAIN PayBook(r) = Players(r)
           /\ \A u \in Players(r) : PayBook(r)[u] = PayPlace(r, u)
           /\ PayDraft(r).gems = Draft(r).gems \cup UNION {PayGrants(r, u) : u \in Players(r)}
<1> DEFINE w == Draft(r)
           d == PayDay(r)
           rows == [u \in Players(r) |-> PayRow(r, u)]
           book == [e \in {d} |-> PayBook(r)]
           v == PayDraft(r)
<1>1. DraftTypes(w)
  BY DEF BatchInv, DraftOk
<1>2. v.profiles = Over(rows, w.profiles) /\ v.days = Over(book, w.days)
      /\ v.gems = w.gems \cup UNION {PayGrants(r, u) : u \in Players(r)}
  BY DEF PayDraft
<1>3. DOMAIN PayBook(r) = Players(r) /\ \A u \in Players(r) : PayBook(r)[u] = PayPlace(r, u)
  BY DEF PayBook
<1>4. DOMAIN rows = Players(r) /\ \A u \in Players(r) : rows[u] = PayRow(r, u)
  OBVIOUS
<1>5. DOMAIN book = {d} /\ book[d] = PayBook(r)
  OBVIOUS
<1> HIDE DEF v, w, d, rows, book
<1>6. /\ DOMAIN v.profiles = DOMAIN w.profiles \cup Players(r)
      /\ \A u \in Players(r) : v.profiles[u] = PayRow(r, u)
      /\ \A u \in DOMAIN w.profiles : u \notin Players(r) => v.profiles[u] = w.profiles[u]
  <2>1. /\ DOMAIN Over(rows, w.profiles) = DOMAIN rows \cup DOMAIN w.profiles
        /\ \A x \in DOMAIN rows : Over(rows, w.profiles)[x] = rows[x]
        /\ \A x \in DOMAIN w.profiles : x \notin DOMAIN rows =>
             Over(rows, w.profiles)[x] = w.profiles[x]
    BY OverIs
  <2> QED
    BY <1>2, <1>4, <2>1
<1>7. /\ DOMAIN v.days = DOMAIN w.days \cup {d}
      /\ v.days[d] = PayBook(r)
      /\ \A e \in DOMAIN w.days : e # d => v.days[e] = w.days[e]
  <2>1. /\ DOMAIN Over(book, w.days) = DOMAIN book \cup DOMAIN w.days
        /\ \A x \in DOMAIN book : Over(book, w.days)[x] = book[x]
        /\ \A x \in DOMAIN w.days : x \notin DOMAIN book => Over(book, w.days)[x] = w.days[x]
    BY OverIs
  <2> QED
    BY <1>2, <1>5, <2>1
<1>8. \A u \in Players(r) : /\ u \in Users /\ PayRow(r, u) \in Profile
                            /\ PayPlace(r, u) \in Place
                            /\ PayGrants(r, u) \subseteq GemRow
  BY PayTypes DEF PayGrants, Granted
<1>9. d \in Days
  <2>1. runner[r].due \in Seq(Days) /\ runner[r].due # <<>>
    BY DEF BatchInv, ReadOk, DueOk, Batching
  <2> DEFINE due == runner[r].due
  <2> HIDE DEF due
  <2>2. due \in Seq(Days) /\ due # <<>> => Head(due) \in Days
    OBVIOUS
  <2> QED
    BY <2>1, <2>2 DEF due, d, PayDay
<1>10. DraftTypes(v)
  <2>1. DOMAIN v.profiles \subseteq Users /\ \A u \in DOMAIN v.profiles : v.profiles[u] \in Profile
    BY <1>1, <1>6, <1>8 DEF DraftTypes
  <2>2. DOMAIN v.days \subseteq Days
    BY <1>1, <1>7, <1>9 DEF DraftTypes
  <2>3. BookOk(PayBook(r))
    BY <1>3, <1>8 DEF BookOk
  <2>4. \A e \in DOMAIN v.days : BookOk(v.days[e])
    BY <1>1, <1>7, <2>3 DEF DraftTypes
  <2>5. v.gems \subseteq GemRow
    BY <1>1, <1>2, <1>8 DEF DraftTypes
  <2> QED
    BY <2>1, <2>2, <2>4, <2>5 DEF DraftTypes
<1> QED
  BY <1>2, <1>3, <1>6, <1>7, <1>10 DEF v, w, d

(* The day that is paid is later than those in the draft. *)
LEMMA PayDayIs ==
    ASSUME BatchInv, NEW r \in Runners, runner[r].pc = "pay"
    PROVE  /\ PayDay(r) \in Days
           /\ LockedDays(r) = DOMAIN Draft(r).days \cup {PayDay(r)}
           /\ state[PayDay(r)] = "CLOSED"
           /\ \A e \in DOMAIN Draft(r).days : e < PayDay(r)
           /\ \A e \in Days : e < PayDay(r) => state[e] = "SETTLED" \/ e \in DOMAIN Draft(r).days
<1> DEFINE due == runner[r].due
           w == Draft(r)
           d == PayDay(r)
<1>1. /\ due # <<>> /\ due \in Seq(Days)
      /\ \A m, n \in DOMAIN due : m < n => due[m] < due[n]
      /\ \A n \in DOMAIN due : \A e \in DOMAIN w.days : e < due[n]
  BY DEF BatchInv, ReadOk, DueOk, Batching
<1>2. d = Head(due)
  BY DEF PayDay
<1>3. LockedDays(r) = DOMAIN w.days \cup {d}
  BY DEF LockedDays, Draft, PayDay
<1>4. \A e \in LockedDays(r) :
          /\ state[e] = "CLOSED"
          /\ \A f \in Days : f < e => state[f] = "SETTLED" \/ f \in LockedDays(r)
  BY DEF BatchInv, LockOk
<1> HIDE DEF due, w, d
<1>5. d \in Days /\ d = due[1] /\ 1 \in DOMAIN due
  BY <1>1, <1>2, TailList
<1>6. d \in Int
  BY <1>5, Constants
<1>7. \A e \in Days : e < d => state[e] = "SETTLED" \/ e \in DOMAIN w.days
  BY <1>3, <1>4, <1>6
<1> QED
  BY <1>1, <1>3, <1>4, <1>5, <1>7 DEF w, d

(* A payment adds its day and its players to the draft, nothing else. *)
LEMMA PayFieldBatch ==
    ASSUME BatchInv, NEW r \in Runners, PayField(r) PROVE BatchInv'
<1> DEFINE due == runner[r].due
           w == Draft(r)
           v == PayDraft(r)
           d == PayDay(r)
           q == Paid(r)
<1>1. /\ runner[r].pc = "pay"
      /\ runner' = [runner EXCEPT ![r] = q]
      /\ UNCHANGED <<clock, guests, ranking, state, profile, standing, gems, history, deaths>>
      /\ \A s \in Others(r) : LockedProfiles(s) \cap Players(r) = {}
  BY PayFieldIs
<1>2. /\ DraftTypes(v)
      /\ DOMAIN v.profiles = DOMAIN w.profiles \cup Players(r)
      /\ DOMAIN v.days = DOMAIN w.days \cup {d}
      /\ v.days[d] = PayBook(r)
      /\ \A e \in DOMAIN w.days : e # d => v.days[e] = w.days[e]
      /\ DOMAIN PayBook(r) = Players(r)
  BY <1>1, PayDraftIs
<1>3. /\ d \in Days
      /\ LockedDays(r) = DOMAIN w.days \cup {d}
      /\ \A e \in DOMAIN w.days : e < d
  BY <1>1, PayDayIs
<1>4. /\ q.pc = "next" /\ DOMAIN q = Fields("next") /\ q.due = Tail(due) /\ q.draft = v
  BY DEF Paid, Fields
<1>5. /\ due # <<>> /\ due \in Seq(Days)
      /\ \A m, n \in DOMAIN due : m < n => due[m] < due[n]
      /\ \A n \in DOMAIN due :
           /\ state[due[n]] # "OPEN"
           /\ \A e \in DOMAIN w.days : e < due[n]
           /\ \A e \in Days : e < due[n] =>
                    \/ state[e] = "SETTLED"
                    \/ e \in DOMAIN w.days
                    \/ \E m \in DOMAIN due : due[m] = e
  BY <1>1 DEF BatchInv, ReadOk, DueOk, Batching
<1>6. d = Head(due)
  BY DEF PayDay
<1>7. /\ \A e \in DOMAIN w.days : DOMAIN w.days[e] \subseteq DOMAIN w.profiles
      /\ \A u \in DOMAIN w.profiles : \E e \in DOMAIN w.days : u \in DOMAIN w.days[e]
  BY <1>1 DEF BatchInv, DraftOk, Batching
<1>8. LockedProfiles(r) = DOMAIN w.profiles
  BY <1>1 DEF LockedProfiles, Draft
<1> HIDE DEF q, due, w, v, d
<1> DEFINE rest == Tail(due)
<1>9. /\ d \in Days /\ d = due[1] /\ 1 \in DOMAIN due /\ rest \in Seq(Days)
      /\ \A m, n \in DOMAIN rest : m < n => rest[m] < rest[n]
      /\ \A n \in DOMAIN rest : n + 1 \in DOMAIN due /\ rest[n] = due[n + 1]
      /\ \A n \in DOMAIN rest : d < rest[n]
      /\ \A n \in DOMAIN due : n = 1 \/ (n - 1 \in DOMAIN rest /\ rest[n - 1] = due[n])
  BY <1>5, <1>6, TailList
<1> HIDE DEF rest
<1>10. \A n \in DOMAIN rest :
           /\ state[rest[n]] # "OPEN"
           /\ \A e \in DOMAIN v.days : e < rest[n]
           /\ \A e \in Days : e < rest[n] =>
                    \/ state[e] = "SETTLED"
                    \/ e \in DOMAIN v.days
                    \/ \E m \in DOMAIN rest : rest[m] = e
  <2>1. \A n \in DOMAIN rest : /\ state[rest[n]] # "OPEN"
                               /\ \A e \in DOMAIN v.days : e < rest[n]
    BY <1>2, <1>5, <1>9
  <2>2. ASSUME NEW n \in DOMAIN rest, NEW e \in Days, e < rest[n],
               state[e] # "SETTLED", e \notin DOMAIN v.days
        PROVE  \E m \in DOMAIN rest : rest[m] = e
    <3>1. PICK m \in DOMAIN due : due[m] = e
      BY <1>2, <1>5, <1>9, <2>2
    <3>2. m # 1
      BY <1>2, <1>9, <2>2, <3>1
    <3> QED
      BY <1>9, <3>1, <3>2
  <2> QED
    BY <2>1, <2>2
<1>11. ASSUME runner'[r] = q
       PROVE  /\ DraftOk(r)' /\ ReadOk(r)' /\ DueOk(r)'
              /\ LockedDays(r)' = LockedDays(r)
              /\ LockedProfiles(r)' = LockedProfiles(r) \cup Players(r)
  <2>1. Draft(r)' = v /\ Batching(r)' /\ runner'[r].pc = "next"
    BY <1>4, <1>11 DEF Draft, Batching
  <2>2. DraftOk(r)'
    <3>1. \A e \in DOMAIN v.days : DOMAIN v.days[e] \subseteq DOMAIN v.profiles
      BY <1>2, <1>7
    <3>2. \A u \in DOMAIN v.profiles : \E e \in DOMAIN v.days : u \in DOMAIN v.days[e]
      <4> TAKE u \in DOMAIN v.profiles
      <4>1. CASE u \in Players(r)
        BY <1>2, <4>1
      <4>2. CASE u \notin Players(r)
        <5>1. PICK e \in DOMAIN w.days : u \in DOMAIN w.days[e]
          BY <1>2, <1>7, <4>2
        <5>2. e # d
          <6>1. e < d /\ d \in Int
            BY <1>3, Constants
          <6> QED
            BY <6>1
        <5> QED
          BY <1>2, <5>1, <5>2
      <4> QED
        BY <4>1, <4>2
    <3>3. DraftTypes(v) => DraftTypes(Draft(r))'
      BY <2>1 DEF DraftTypes, BookOk
    <3> QED
      BY <1>2, <2>1, <3>1, <3>2, <3>3 DEF DraftOk
  <2>3. ReadOk(r)'
    BY <2>1 DEF ReadOk
  <2>4. DueOk(r)'
    <3>1. runner'[r].due = rest /\ state' = state
      BY <1>1, <1>4, <1>11 DEF rest
    <3> QED
      BY <1>9, <1>10, <2>1, <3>1 DEF DueOk
  <2>5. LockedDays(r)' = LockedDays(r) /\ LockedProfiles(r)' = LockedProfiles(r) \cup Players(r)
    BY <1>2, <1>3, <1>4, <1>8, <1>11 DEF LockedDays, LockedProfiles
  <2> QED
    BY <2>2, <2>3, <2>4, <2>5
<1>12. ASSUME runner'[r] = q
       PROVE  /\ \A e \in LockedDays(r)' :
                   /\ state[e] = "CLOSED"
                   /\ \A f \in Days : f < e => state[f] = "SETTLED" \/ f \in LockedDays(r)'
              /\ \A s \in Others(r) :
                   /\ LockedDays(r)' \cap LockedDays(s) = {}
                   /\ LockedProfiles(r)' \cap LockedProfiles(s) = {}
  BY <1>1, <1>11, <1>12 DEF BatchInv, LockOk, Others
<1>13. q.pc \in Steps /\ DOMAIN q = Fields(q.pc) /\ deaths' \in 0..MaxDeaths
  BY <1>1, <1>4 DEF Steps, BatchInv, TablesOk
<1> QED
  BY <1>1, <1>11, <1>12, <1>13, RunnerBatch

(* The parts of a season reset, named. *)
ResetGrants(r, u) ==
    Granted(r, {g \in {Gem(SeasonKey(runner[r].season, u), SeasonReward(runner[r].read[u]))} :
                   Payable(g) /\ Participated(runner[r].read[u])})

(* The row as the reset knows it, loaded afresh if gems were granted. *)
ResetKnown(r, u) ==
    IF ResetGrants(r, u) = {} THEN runner[r].read[u]
    ELSE [runner[r].read[u] EXCEPT !.rating = profile[u].rating]

(* The row that is written. *)
ResetRow(r, u) ==
    Assigned(profile[u], SoftReset(ResetKnown(r, u)), ResetKnown(r, u), FALSE)

(* The draft of the reset. *)
ResetDraft(r) ==
    [profiles |-> [u \in Users |-> ResetRow(r, u)], days |-> <<>>,
     gems |-> UNION {ResetGrants(r, u) : u \in Users}]

(* The runner after the reset. *)
Reset(r) == [pc |-> "closing", season |-> runner[r].season, draft |-> ResetDraft(r)]

(* These are the parts of WriteReset. *)
LEMMA WriteResetIs ==
    ASSUME BatchInv, NEW r \in Runners, WriteReset(r)
    PROVE  /\ runner[r].pc = "reset"
           /\ runner' = [runner EXCEPT ![r] = Reset(r)]
           /\ UNCHANGED <<clock, guests, ranking, state, profile, standing, gems, resets,
                          deaths, history>>
           /\ \A s \in Others(r) : LockedProfiles(s) = {}
BY DEF WriteReset, Reset, ResetDraft, ResetRow, ResetKnown, ResetGrants, BatchInv, ShapeOk,
       tables

(* Types of all that a reset computes for one player; the streak stays. *)
LEMMA ResetTypes ==
    ASSUME BatchInv, NEW r \in Runners, runner[r].pc = "reset", NEW u \in Users,
           runner[r].season \in Int
    PROVE  /\ runner[r].read[u] \in Profile /\ profile[u] \in Profile
           /\ ResetKnown(r, u) \in Profile
           /\ SoftReset(ResetKnown(r, u)) \in Profile
           /\ Alike(SoftReset(ResetKnown(r, u)), ResetKnown(r, u))
           /\ ResetRow(r, u) \in Profile
           /\ Alike(ResetRow(r, u), profile[u])
           /\ ResetGrants(r, u) \subseteq GemRow
           /\ \A g \in ResetGrants(r, u) : g.key = SeasonKey(runner[r].season, u)
<1> DEFINE read == runner[r].read
           k == ResetKnown(r, u)
           season == runner[r].season
<1>1. read[u] \in Profile /\ profile[u] \in Profile
  BY DEF BatchInv, ReadOk, TablesOk
<1>2. k \in {read[u], [read[u] EXCEPT !.rating = profile[u].rating]}
  BY DEF ResetKnown
<1> HIDE DEF read, k, season
<1>3. k \in Profile
  <2>1. profile[u].rating \in Int
    BY <1>1 DEF Profile
  <2>2. [read[u] EXCEPT !.rating = profile[u].rating] \in Profile
    BY <1>1, <2>1 DEF Profile
  <2> QED
    BY <1>1, <1>2, <2>2
<1>4. SoftReset(k) \in Profile /\ Alike(SoftReset(k), k)
  BY <1>3, SoftResetType
<1>5. ResetRow(r, u) = Assigned(profile[u], SoftReset(k), k, FALSE)
  BY DEF ResetRow, k
<1> DEFINE row == profile[u]
           new == SoftReset(k)
           got == Assigned(row, new, k, FALSE)
<1>6. /\ got \in Profile
      /\ got.streak = Column(row, new, k, FALSE, "streak")
      /\ got.last = Column(row, new, k, FALSE, "last")
      /\ got.grace = Column(row, new, k, FALSE, "grace")
  <2>1. row \in Profile /\ new \in Profile /\ k \in Profile /\ FALSE \in BOOLEAN
    BY <1>1, <1>3, <1>4
  <2> HIDE DEF row, new
  <2> QED
    BY <2>1, AssignedType, ZenonT(60)
<1> HIDE DEF row, new, got
<1>7. got \in Profile /\ Alike(got, row)
  <2>1. new.streak = k.streak /\ new.last = k.last /\ new.grace = k.grace
    BY <1>4 DEF Alike, new
  <2> QED
    BY <1>6, <2>1 DEF Column, Alike
<1>8. /\ ResetGrants(r, u) \subseteq GemRow
      /\ \A g \in ResetGrants(r, u) : g.key = SeasonKey(season, u)
  <2> DEFINE amount == SeasonReward(read[u])
  <2>1. amount \in Nat
    BY <1>1, RewardTypes
  <2> HIDE DEF amount
  <2>2. \A g \in ResetGrants(r, u) : g = Gem(SeasonKey(season, u), amount) /\ g.amount > 0
    BY DEF ResetGrants, Granted, Payable, read, season, amount
  <2>3. SeasonKey(season, u) \in KeyKinds \X Users \X Int \X Nat
    BY DEF SeasonKey, KeyKinds, season
  <2> DEFINE key == SeasonKey(season, u)
  <2> HIDE DEF key
  <2>4. Gem(key, amount).amount > 0 => Gem(key, amount) \in GemRow
    BY <2>1, <2>3 DEF Gem, GemRow, key
  <2>5. Gem(key, amount).key = key
    BY DEF Gem
  <2> QED
    BY <2>2, <2>4, <2>5 DEF key
<1> QED
  BY <1>1, <1>3, <1>4, <1>5, <1>7, <1>8 DEF read, k, row, new, got, season

(* What the draft of a reset holds. *)
LEMMA ResetDraftIs ==
    ASSUME BatchInv, NEW r \in Runners, runner[r].pc = "reset", runner[r].season \in Int
    PROVE  /\ DraftTypes(ResetDraft(r))
           /\ DOMAIN ResetDraft(r).profiles = Users
           /\ \A u \in Users : ResetDraft(r).profiles[u] = ResetRow(r, u)
           /\ DOMAIN ResetDraft(r).days = {}
           /\ ResetDraft(r).gems = UNION {ResetGrants(r, u) : u \in Users}
<1> DEFINE v == ResetDraft(r)
<1>1. /\ v.profiles = [u \in Users |-> ResetRow(r, u)]
      /\ v.days = <<>> /\ DOMAIN <<>> = {}
      /\ v.gems = UNION {ResetGrants(r, u) : u \in Users}
  BY DEF ResetDraft
<1> HIDE DEF v
<1>2. \A u \in Users : ResetRow(r, u) \in Profile /\ ResetGrants(r, u) \subseteq GemRow
  BY ResetTypes
<1>3. DraftTypes(v)
  BY <1>1, <1>2 DEF DraftTypes
<1> QED
  BY <1>1, <1>3 DEF v

(* A reset holds all profiles, once nobody else holds one. *)
LEMMA WriteResetBatch ==
    ASSUME BatchInv, NEW r \in Runners, WriteReset(r), runner[r].season \in Int
    PROVE  BatchInv'
<1> DEFINE v == ResetDraft(r)
           q == Reset(r)
<1>1. /\ runner[r].pc = "reset"
      /\ runner' = [runner EXCEPT ![r] = q]
      /\ UNCHANGED <<clock, guests, ranking, state, profile, standing, gems, history, deaths>>
      /\ \A s \in Others(r) : LockedProfiles(s) = {}
  BY WriteResetIs
<1>2. DraftTypes(v) /\ DOMAIN v.days = {} /\ DOMAIN v.profiles = Users
  BY <1>1, ResetDraftIs
<1>3. q.pc = "closing" /\ DOMAIN q = Fields("closing") /\ q.draft = v
  BY DEF Reset, Fields
<1> HIDE DEF v, q
<1>4. ASSUME runner'[r] = q
      PROVE  /\ DraftOk(r)' /\ ReadOk(r)' /\ DueOk(r)'
             /\ LockedDays(r)' = {}
  <2>1. Draft(r)' = v /\ ~Batching(r)' /\ runner'[r].pc = "closing"
    BY <1>3, <1>4 DEF Draft, Batching
  <2>2. DraftTypes(v) => DraftTypes(Draft(r))'
    BY <2>1 DEF DraftTypes, BookOk
  <2>3. DraftOk(r)'
    BY <1>2, <2>1, <2>2 DEF DraftOk
  <2> QED
    BY <1>2, <1>3, <1>4, <2>1, <2>3 DEF ReadOk, DueOk, LockedDays
<1>5. ASSUME runner'[r] = q
      PROVE  /\ \A e \in LockedDays(r)' :
                   /\ state[e] = "CLOSED"
                   /\ \A f \in Days : f < e => state[f] = "SETTLED" \/ f \in LockedDays(r)'
             /\ \A s \in Others(r) :
                   /\ LockedDays(r)' \cap LockedDays(s) = {}
                   /\ LockedProfiles(r)' \cap LockedProfiles(s) = {}
  BY <1>1, <1>4, <1>5
<1>6. q.pc \in Steps /\ DOMAIN q = Fields(q.pc) /\ deaths' \in 0..MaxDeaths
  BY <1>1, <1>3 DEF Steps, BatchInv, TablesOk
<1> QED
  BY <1>1, <1>4, <1>5, <1>6, RunnerBatch

(* What a commit makes of the tables. *)
LEMMA PublishIs ==
    ASSUME BatchInv, NEW r \in Runners, Publish(r), runner[r].pc # "idle"
    PROVE  /\ DOMAIN profile' = Users /\ DOMAIN standing' = Days /\ DOMAIN state' = Days
           /\ DOMAIN Draft(r).profiles \subseteq Users /\ DOMAIN Draft(r).days \subseteq Days
           /\ \A u \in Users : profile'[u] = IF u \in DOMAIN Draft(r).profiles
                                             THEN Draft(r).profiles[u] ELSE profile[u]
           /\ \A d \in Days : standing'[d] = IF d \in DOMAIN Draft(r).days
                                             THEN Draft(r).days[d] ELSE standing[d]
           /\ \A d \in Days : state'[d] = IF d \in DOMAIN Draft(r).days
                                          THEN "SETTLED" ELSE state[d]
           /\ profile' \in [Users -> Profile]
           /\ state' \in [Days -> {"OPEN", "CLOSED", "SETTLED"}]
           /\ gems' = gems \cup Draft(r).gems
<1> DEFINE w == Draft(r)
           done == [d \in DOMAIN w.days |-> "SETTLED"]
<1>1. /\ profile' = Over(w.profiles, profile) /\ standing' = Over(w.days, standing)
      /\ state' = Over(done, state) /\ gems' = gems \cup w.gems
  BY DEF Publish, Draft
<1>2. DraftTypes(w)
  BY DEF BatchInv, DraftOk
<1>3. DOMAIN done = DOMAIN w.days /\ \A d \in DOMAIN w.days : done[d] = "SETTLED"
  OBVIOUS
<1>4. /\ profile \in [Users -> Profile] /\ DOMAIN profile = Users
      /\ DOMAIN standing = Days /\ DOMAIN state = Days
      /\ state \in [Days -> {"OPEN", "CLOSED", "SETTLED"}]
  BY DEF BatchInv, TablesOk
<1> HIDE DEF w, done
<1>5. DOMAIN w.profiles \subseteq Users /\ DOMAIN w.days \subseteq Days
  BY <1>2 DEF DraftTypes
<1>6. /\ profile' = [u \in Users |-> IF u \in DOMAIN w.profiles THEN w.profiles[u] ELSE profile[u]]
      /\ standing' = [d \in Days |-> IF d \in DOMAIN w.days THEN w.days[d] ELSE standing[d]]
      /\ state' = [d \in Days |-> IF d \in DOMAIN w.days THEN "SETTLED" ELSE state[d]]
  <2>1. /\ DOMAIN w.profiles \cup DOMAIN profile = Users
        /\ DOMAIN w.days \cup DOMAIN standing = Days
        /\ DOMAIN done \cup DOMAIN state = Days
    BY <1>3, <1>4, <1>5
  <2> QED
    BY <1>1, <1>3, <2>1 DEF Over
<1>7. profile' \in [Users -> Profile]
  BY <1>2, <1>4, <1>6 DEF DraftTypes
<1>8. state' \in [Days -> {"OPEN", "CLOSED", "SETTLED"}]
  BY <1>4, <1>6
<1> QED
  BY <1>1, <1>5, <1>6, <1>7, <1>8 DEF w

(* A commit settles the days of its draft; the runner goes on without one. *)
LEMMA PublishBatch ==
    ASSUME BatchInv, NEW r \in Runners, NEW q,
           Publish(r), runner[r].pc \in {"next", "closing"},
           q.pc \in Begins, q.pc # "reset", DOMAIN q = Fields(q.pc),
           q.pc # "idle" => q.draft = NoDraft,
           runner' = [runner EXCEPT ![r] = q],
           UNCHANGED <<clock, guests, ranking, deaths, history>>
    PROVE  BatchInv'
<1> DEFINE w == Draft(r)
<1>1. /\ DOMAIN profile' = Users /\ DOMAIN standing' = Days /\ DOMAIN state' = Days
      /\ DOMAIN w.profiles \subseteq Users /\ DOMAIN w.days \subseteq Days
      /\ \A d \in Days : standing'[d] = IF d \in DOMAIN w.days THEN w.days[d] ELSE standing[d]
      /\ \A d \in Days : state'[d] = IF d \in DOMAIN w.days THEN "SETTLED" ELSE state[d]
      /\ profile' \in [Users -> Profile]
      /\ state' \in [Days -> {"OPEN", "CLOSED", "SETTLED"}]
      /\ gems' = gems \cup w.gems
  BY PublishIs
<1>2. DraftTypes(w)
  BY DEF BatchInv, DraftOk
<1>3. LockedDays(r) = DOMAIN w.days
  BY DEF LockedDays, Draft
<1> HIDE DEF w
<1>4. /\ DOMAIN runner' = Runners /\ runner'[r] = q
      /\ \A s \in Runners : s # r => runner'[s] = runner[s]
  BY DEF BatchInv, ShapeOk
<1>5. TablesOk'
  <2>1. \A d \in Days : BookOk(standing'[d])
    BY <1>1, <1>2 DEF BatchInv, TablesOk, DraftTypes
  <2>2. (\A d \in Days : BookOk(standing[d]))'
    BY <2>1 DEF BookOk
  <2>3. gems' \subseteq GemRow
    BY <1>1, <1>2 DEF BatchInv, TablesOk, DraftTypes
  <2>4. /\ clock' \in 2..(2 * NumDays + 1) /\ guests' \subseteq Users
        /\ DOMAIN ranking' = Days
        /\ \A d \in Days : ranking'[d] \in Seq(Users) /\ IsInjective(ranking'[d])
        /\ deaths' \in 0..MaxDeaths /\ history' \in Histories
    BY DEF BatchInv, TablesOk
  <2> QED
    BY <1>1, <2>2, <2>3, <2>4 DEF TablesOk
<1>6. \A d \in LockedDays(r) : \A e \in Days : e < d => state'[e] = "SETTLED"
  BY <1>1, <1>3 DEF BatchInv, LockOk
<1>7. DaysOk'
  <2>1. \A d \in Days : 2 * d < clock' => state'[d] # "OPEN"
    BY <1>1 DEF BatchInv, DaysOk
  <2>2. \A d \in Days : state'[d] # "SETTLED" => DOMAIN standing'[d] = {}
    BY <1>1 DEF BatchInv, DaysOk
  <2>3. \A d, e \in Days : e < d /\ state'[d] = "SETTLED" => state'[e] = "SETTLED"
    BY <1>1, <1>3, <1>6 DEF BatchInv, DaysOk
  <2> QED
    BY <2>1, <2>2, <2>3 DEF DaysOk
<1>8. ShapeOk'
  BY <1>4 DEF BatchInv, ShapeOk, Begins
<1>9. \A d \in Days : /\ state[d] = "SETTLED" => state'[d] = "SETTLED"
                      /\ state[d] # "OPEN" => state'[d] # "OPEN"
                      /\ d \notin LockedDays(r) => state'[d] = state[d]
  BY <1>1, <1>3
<1>10. ASSUME NEW s \in Runners, s # r
       PROVE  /\ DraftOk(s)' /\ ReadOk(s)' /\ DueOk(s)'
              /\ LockedDays(s)' = LockedDays(s) /\ LockedProfiles(s)' = LockedProfiles(s)
  <2>1. runner'[s] = runner[s]
    BY <1>4, <1>10
  <2>2. DraftOk(s) /\ ReadOk(s) /\ DueOk(s)
    BY DEF BatchInv
  <2>3. DraftOk(s)' /\ ReadOk(s)'
    BY <2>1, <2>2 DEF DraftOk, Draft, Batching, DraftTypes, BookOk, ReadOk
  <2>4. DueOk(s)'
    <3> SUFFICES ASSUME Batching(s) PROVE DueOk(s)'
      BY <2>1 DEF DueOk, Batching
    <3> DEFINE due == runner[s].due
               v == Draft(s)
    <3>1. /\ due \in Seq(Days)
          /\ \A m, n \in DOMAIN due : m < n => due[m] < due[n]
          /\ \A n \in DOMAIN due :
                /\ state[due[n]] # "OPEN"
                /\ \A e \in DOMAIN v.days : e < due[n]
                /\ \A e \in Days : e < due[n] =>
                      state[e] = "SETTLED" \/ e \in DOMAIN v.days \/ \E m \in DOMAIN due : due[m] = e
      BY <2>2 DEF DueOk
    <3>2. due' = due /\ v' = v
      BY <2>1 DEF Draft
    <3> HIDE DEF due, v
    <3>3. \A n \in DOMAIN due : due[n] \in Days
      BY <3>1
    <3>4. \A n \in DOMAIN due :
                /\ state'[due[n]] # "OPEN"
                /\ \A e \in DOMAIN v.days : e < due[n]
                /\ \A e \in Days : e < due[n] =>
                      state'[e] = "SETTLED" \/ e \in DOMAIN v.days \/ \E m \in DOMAIN due : due[m] = e
      BY <1>9, <3>1, <3>3
    <3> QED
      BY <3>1, <3>2, <3>4 DEF DueOk, due, v
  <2> QED
    BY <2>1, <2>3, <2>4 DEF LockedDays, LockedProfiles
<1>11. /\ DraftOk(r)' /\ ReadOk(r)' /\ DueOk(r)'
       /\ LockedDays(r)' = {} /\ LockedProfiles(r)' = {}
  <2>1. q.pc \in {"idle", "claim"}
    BY DEF Begins
  <2>2. /\ NoDraft.profiles = <<>> /\ NoDraft.days = <<>> /\ NoDraft.gems = {}
        /\ DOMAIN <<>> = {}
    BY DEF NoDraft
  <2>3. q.pc # "idle" => Draft(r)' = NoDraft
    BY <1>4 DEF Draft
  <2>4. DraftOk(r)'
    BY <1>4, <2>1, <2>2, <2>3 DEF DraftOk, DraftTypes, Batching
  <2> QED
    BY <1>4, <2>1, <2>2, <2>4 DEF ReadOk, DueOk, Batching, LockedDays, LockedProfiles
<1>12. LockOk'
  <2>1. ASSUME NEW s \in Runners, NEW d \in LockedDays(s)'
        PROVE  /\ state'[d] = "CLOSED"
               /\ \A e \in Days : e < d => state'[e] = "SETTLED" \/ e \in LockedDays(s)'
    <3>1. s # r /\ d \in LockedDays(s) /\ LockedDays(s)' = LockedDays(s)
      BY <1>10, <1>11, <2>1
    <3>2. /\ state[d] = "CLOSED" /\ d \notin LockedDays(r)
          /\ \A e \in Days : e < d => state[e] = "SETTLED" \/ e \in LockedDays(s)
      BY <3>1 DEF BatchInv, LockOk
    <3>3. d \in Days
      BY <3>1 DEF BatchInv, LockedDays, DraftOk, DueOk, ReadOk, Draft, Batching, DraftTypes
    <3> QED
      BY <1>9, <3>1, <3>2, <3>3
  <2>2. \A s, t \in Runners : s # t =>
          /\ LockedDays(s)' \cap LockedDays(t)' = {}
          /\ LockedProfiles(s)' \cap LockedProfiles(t)' = {}
    BY <1>10, <1>11 DEF BatchInv, LockOk
  <2> QED
    BY <2>1, <2>2 DEF LockOk
<1>13. \A s \in Runners : (DraftOk(s) /\ ReadOk(s) /\ DueOk(s))'
  BY <1>10, <1>11
<1> QED
  BY <1>5, <1>7, <1>8, <1>12, <1>13 DEF BatchInv

(* A batch that commits keeps the invariant. *)
LEMMA CommitBatchBatch ==
    ASSUME BatchInv, NEW r \in Runners, CommitBatch(r) PROVE BatchInv'
<1> DEFINE new == [pc |-> "claim", draft |-> NoDraft]
           q == IF r \in Heartbeats THEN new ELSE Idle
<1>1. /\ runner[r].pc \in {"next", "closing"} /\ Publish(r)
      /\ runner' = [runner EXCEPT ![r] = q]
      /\ UNCHANGED <<clock, guests, ranking, deaths, history>>
  BY DEF CommitBatch
<1>2. /\ new.pc = "claim" /\ DOMAIN new = Fields("claim") /\ new.draft = NoDraft
      /\ Idle.pc = "idle" /\ DOMAIN Idle = Fields("idle")
  BY DEF Fields, Idle
<1> HIDE DEF new
<1>3. /\ q.pc \in Begins /\ q.pc # "reset" /\ DOMAIN q = Fields(q.pc)
      /\ q.pc # "idle" => q.draft = NoDraft
  BY <1>2 DEF Begins
<1> HIDE DEF q
<1> QED
  BY <1>1, <1>3, PublishBatch

(* So does a reset that commits. *)
LEMMA CommitResetBatch ==
    ASSUME BatchInv, NEW r \in Runners, CommitReset(r) PROVE BatchInv'
<1>1. /\ runner[r].pc \in {"next", "closing"} /\ Publish(r)
      /\ runner' = [runner EXCEPT ![r] = Idle]
      /\ UNCHANGED <<clock, guests, ranking, deaths, history>>
  BY DEF CommitReset
<1>2. Idle.pc = "idle" /\ DOMAIN Idle = Fields("idle")
  BY DEF Fields, Idle
<1>3. /\ Idle.pc \in Begins /\ Idle.pc # "reset" /\ DOMAIN Idle = Fields(Idle.pc)
      /\ Idle.pc # "idle" => Idle.draft = NoDraft
  BY <1>2 DEF Begins
<1> QED
  BY <1>1, <1>3, PublishBatch

(* The batches need that a claimed season is a number, which SeasonInv says. *)
LEMMA NextBatch == SeasonInv /\ BatchInv /\ [Next]_vars => BatchInv'
<1> SUFFICES ASSUME SeasonInv, BatchInv, [Next]_vars PROVE BatchInv'
  OBVIOUS
<1>1. CASE \/ Tick
           \/ \E d \in Days : CloseDay(d)
           \/ \E u \in Users : SaveProfile(u)
           \/ UNCHANGED vars
  BY <1>1, WorldBatch
<1>2. ASSUME NEW r \in Runners, WriteReset(r) PROVE BatchInv'
  <2>1. runner[r].season \in Int
    BY <1>2 DEF WriteReset, SeasonInv, ClaimInv, Claims
  <2> QED
    BY <1>2, <2>1, WriteResetBatch
<1>3. ASSUME NEW r \in Runners, Work(r) PROVE BatchInv'
  BY <1>2, <1>3, StartBatchBatch, LockWindowBatch, PayFieldBatch, CommitBatchBatch,
     ClaimSeasonBatch, CommitResetBatch DEF Work
<1>4. ASSUME NEW r \in Runners, Die(r) PROVE BatchInv'
  BY <1>4, DieBatch
<1> QED
  BY <1>1, <1>3, <1>4 DEF Next

(***************************************************************************)
(* The tables and the drafts hold what their types say: ranks without a    *)
(* double, window states, profiles, places and positive amounts of gems,   *)
(* whatever the jobs do at the same time and wherever they die             *)
(* (settlement.py:287, seasons.py:123).                                    *)
(***************************************************************************)
THEOREM SettlementTypes == Spec => []TypeOK
<1>1. BatchInv => TypeOK
  BY DEF BatchInv, TablesOk, ShapeOk, TypeOK, BookOk, GemRow
<1> QED
  BY <1>1, InitSeason, NextSeason, InitBatch, NextBatch, PTL DEF Spec

-----------------------------------------------------------------------------
(* The parts of the idempotency keys. *)
LEMMA KeyParts ==
    ASSUME NEW u, NEW d, NEW n, NEW amount
    PROVE  /\ StarterKey(u)[1] = "starter" /\ StarterKey(u)[2] = u
           /\ PlaceKey(d, u)[1] = "dr" /\ PlaceKey(d, u)[2] = u /\ PlaceKey(d, u)[3] = d
           /\ StreakKey(d, u, n)[1] = "streak" /\ StreakKey(d, u, n)[2] = u
           /\ StreakKey(d, u, n)[3] = d
           /\ SeasonKey(d, u)[1] = "season" /\ SeasonKey(d, u)[2] = u /\ SeasonKey(d, u)[3] = d
BY DEF StarterKey, PlaceKey, StreakKey, SeasonKey

(* The parts of a row of the gem ledger. *)
LEMMA GemParts ==
    ASSUME NEW key, NEW amount
    PROVE  Gem(key, amount).key = key /\ Gem(key, amount).amount = amount
BY DEF Gem

(* What the third part of GemsMatchPlaces says of each kind of gem. *)
Explained(g) ==
    /\ g.key[1] \in {"dr", "streak"} => g.key[2] \in DOMAIN standing[g.key[3]]
    /\ g.key[1] = "season" => g.key[3] \in Range(resets)
    /\ g.key[1] = "starter" => \E d \in Days : g.key[2] \in DOMAIN standing[d]

(* What EarnedOk says of each kind of gem. *)
Earned(r, g) ==
    /\ g.key[1] \in {"dr", "streak"} =>
          g.key[3] \in DOMAIN Draft(r).days /\ g.key[2] \in DOMAIN Draft(r).days[g.key[3]]
    /\ g.key[1] = "season" => runner[r].pc = "closing" /\ g.key[3] = runner[r].season
    /\ g.key[1] = "starter" => \E d \in DOMAIN Draft(r).days : g.key[2] \in DOMAIN Draft(r).days[d]

(* The second part of GemsMatchPlaces. *)
Rewarded ==
    \A d \in Days : \A u \in DOMAIN standing[d] :
          /\ standing[d][u].gems > 0 => Gem(PlaceKey(d, u), standing[d][u].gems) \in gems
          /\ Gem(StarterKey(u), 5) \in gems

(* A gem is of one of the four kinds. *)
LEMMA KindOf ==
    ASSUME NEW g \in GemRow
    PROVE  /\ g.key[1] \in {"starter", "dr", "streak", "season"}
           /\ g.key[2] \in Users
           /\ g.key[3] \in Int
<1>1. g.key \in KeyKinds \X Users \X Int \X Nat
  BY DEF GemRow
<1> DEFINE key == g.key
<1> HIDE DEF key
<1>2. key \in KeyKinds \X Users \X Int \X Nat => /\ key[1] \in KeyKinds /\ key[2] \in Users
                                                 /\ key[3] \in Int
  OBVIOUS
<1> QED
  BY <1>1, <1>2 DEF key, KeyKinds

(* GemsMatchPlaces, kind by kind. *)
LEMMA GemsMatchIs ==
    ASSUME gems \subseteq GemRow
    PROVE  GemsMatchPlaces <=> /\ \A g, h \in gems : g.key = h.key => g = h
                               /\ Rewarded
                               /\ \A g \in gems : Explained(g)
<1>1. ASSUME NEW g \in gems
      PROVE  (CASE g.key[1] \in {"dr", "streak"} -> g.key[2] \in DOMAIN standing[g.key[3]]
                [] g.key[1] = "season" -> g.key[3] \in Range(resets)
                [] OTHER -> \E d \in Days : g.key[2] \in DOMAIN standing[d])
             <=> Explained(g)
  <2>1. g.key[1] \in {"starter", "dr", "streak", "season"}
    BY KindOf
  <2> QED
    BY <2>1 DEF Explained
<1> QED
  BY <1>1 DEF GemsMatchPlaces, Rewarded

(* EarnedOk, kind by kind. *)
LEMMA EarnedIs ==
    ASSUME NEW r \in Runners, Draft(r).gems \subseteq GemRow
    PROVE  EarnedOk(r) <=> \A g \in Draft(r).gems : Earned(r, g)
<1>1. ASSUME NEW g \in Draft(r).gems
      PROVE  (CASE g.key[1] \in {"dr", "streak"} ->
                g.key[3] \in DOMAIN Draft(r).days /\ g.key[2] \in DOMAIN Draft(r).days[g.key[3]]
          [] g.key[1] = "season" -> runner[r].pc = "closing" /\ g.key[3] = runner[r].season
          [] OTHER -> \E d \in DOMAIN Draft(r).days : g.key[2] \in DOMAIN Draft(r).days[d])
             <=> Earned(r, g)
  <2>1. g.key[1] \in {"starter", "dr", "streak", "season"}
    BY KindOf
  <2> QED
    BY <2>1 DEF Earned
<1> QED
  BY <1>1 DEF EarnedOk

(* At first the gem ledger is empty. *)
LEMMA InitGems == Init => GemInv
<1> SUFFICES ASSUME Init PROVE GemInv
  OBVIOUS
<1>1. gems = {} /\ \A r \in Runners : runner[r] = Idle
  BY DEF Init
<1>2. \A d \in Days : DOMAIN standing[d] = {}
  BY DEF Init
<1>3. Idle.pc = "idle"
  BY DEF Idle
<1>4. GemsMatchPlaces
  BY <1>1, <1>2, GemsMatchIs DEF Rewarded
<1> QED
  BY <1>1, <1>3, <1>4 DEF GemInv

(* A step that commits nothing, and after which r's own draft is in order. *)
LEMMA RunnerGems ==
    ASSUME GemInv, NEW r \in Runners,
           \A s \in Runners : s # r => runner'[s] = runner[s],
           UNCHANGED <<standing, gems, resets>>,
           runner'[r].pc # "idle" => KeysOk(r)' /\ PaidOk(r)' /\ EarnedOk(r)'
    PROVE  GemInv'
<1>1. GemsMatchPlaces'
  BY DEF GemInv, GemsMatchPlaces, Range
<1>2. ASSUME NEW s \in Runners, s # r, runner'[s].pc # "idle"
      PROVE  KeysOk(s)' /\ PaidOk(s)' /\ EarnedOk(s)'
  <2>1. runner'[s] = runner[s] /\ KeysOk(s) /\ PaidOk(s) /\ EarnedOk(s)
    BY <1>2 DEF GemInv
  <2>2. KeysOk(s)'
    BY <2>1 DEF KeysOk, Draft, StarterOk
  <2>3. PaidOk(s)'
    BY <2>1 DEF PaidOk, Draft
  <2>4. EarnedOk(s)'
    BY <2>1, Zenon DEF EarnedOk, Draft
  <2> QED
    BY <2>2, <2>3, <2>4
<1>3. /\ (\A g \in gems : StarterOk(g))'
      /\ (\A g \in gems : g.key[1] \in {"dr", "streak"} => g.key[3] \in Days)'
  BY DEF GemInv, StarterOk
<1> QED
  BY <1>1, <1>2, <1>3 DEF GemInv

(* A step that changes neither a draft nor a table. *)
LEMMA QuietGems ==
    ASSUME BatchInv, GemInv, UNCHANGED <<runner, standing, gems, resets>>
    PROVE  GemInv'
<1>1. CASE Runners = {}
  <2>1. GemsMatchPlaces'
    BY DEF GemInv, GemsMatchPlaces, Range
  <2> QED
    BY <1>1, <2>1 DEF GemInv, StarterOk
<1>2. CASE Runners # {}
  <2>1. PICK r \in Runners : TRUE
    BY <1>2
  <2>2. runner'[r].pc # "idle" => KeysOk(r)' /\ PaidOk(r)' /\ EarnedOk(r)'
    <3> SUFFICES ASSUME runner[r].pc # "idle" PROVE KeysOk(r)' /\ PaidOk(r)' /\ EarnedOk(r)'
      OBVIOUS
    <3>1. runner'[r] = runner[r] /\ KeysOk(r) /\ PaidOk(r) /\ EarnedOk(r)
      BY DEF GemInv
    <3>2. KeysOk(r)'
      BY <3>1 DEF KeysOk, Draft, StarterOk
    <3>3. PaidOk(r)'
      BY <3>1 DEF PaidOk, Draft
    <3>4. EarnedOk(r)'
      BY <3>1, Zenon DEF EarnedOk, Draft
    <3> QED
      BY <3>2, <3>3, <3>4
  <2> QED
    BY <2>2, RunnerGems
<1> QED
  BY <1>1, <1>2

(* The steps that begin something, or lose it. *)
LEMMA FreshGems ==
    ASSUME BatchInv, GemInv, NEW r \in Runners, NEW q,
           runner' = [runner EXCEPT ![r] = q], q.pc # "idle" => q.draft = NoDraft,
           UNCHANGED <<standing, gems, resets>>
    PROVE  GemInv'
<1>1. runner'[r] = q /\ \A s \in Runners : s # r => runner'[s] = runner[s]
  BY DEF BatchInv, ShapeOk
<1>2. runner'[r].pc # "idle" => Draft(r)' = NoDraft
  BY <1>1 DEF Draft
<1>3. Draft(r)' = NoDraft => (KeysOk(r) /\ PaidOk(r) /\ EarnedOk(r))'
  <2>1. NoDraft.gems = {} /\ NoDraft.days = <<>> /\ DOMAIN <<>> = {}
    BY DEF NoDraft
  <2> QED
    BY <2>1 DEF KeysOk, PaidOk, EarnedOk
<1> QED
  BY <1>1, <1>2, <1>3, RunnerGems

(* Looking at the next window leaves the draft as it is. *)
LEMMA LockWindowKeeps ==
    ASSUME BatchInv, NEW r \in Runners, LockWindow(r)
    PROVE  /\ runner[r].pc = "next" /\ runner'[r].pc \in {"next", "pay"}
           /\ Draft(r)' = Draft(r)
           /\ \A s \in Runners : s # r => runner'[s] = runner[s]
           /\ UNCHANGED <<profile, standing, state, gems, resets, history>>
<1> DEFINE d == Head(runner[r].due)
           field == Saved(ranking[d])
           read == [u \in Range(field) |-> Seen(r, u)]
           locked == [pc |-> "pay", due |-> runner[r].due, draft |-> runner[r].draft,
                      field |-> field, read |-> read]
           skipped == [runner[r] EXCEPT !.due = Tail(@)]
<1>1. /\ runner[r].pc = "next" /\ DOMAIN runner[r] = Fields("next")
      /\ DOMAIN runner = Runners
      /\ runner' = IF StillClosed(d) THEN [runner EXCEPT ![r] = locked]
                   ELSE [runner EXCEPT ![r].due = Tail(@)]
      /\ UNCHANGED <<profile, standing, state, gems, resets, history>>
  BY DEF LockWindow, BatchInv, ShapeOk, tables
<1>2. locked.pc = "pay" /\ locked.draft = runner[r].draft
  OBVIOUS
<1>3. skipped.pc = "next" /\ skipped.draft = runner[r].draft
  BY <1>1 DEF Fields
<1>4. runner'[r] = IF StillClosed(d) THEN locked ELSE skipped
  BY <1>1
<1>5. \A s \in Runners : s # r => runner'[s] = runner[s]
  BY <1>1
<1> HIDE DEF locked, skipped
<1>6. runner'[r].pc \in {"next", "pay"} /\ runner'[r].draft = runner[r].draft
  BY <1>2, <1>3, <1>4
<1> QED
  BY <1>1, <1>5, <1>6 DEF Draft

(* Locking a window grants nothing. *)
LEMMA LockWindowGems ==
    ASSUME BatchInv, GemInv, NEW r \in Runners, LockWindow(r) PROVE GemInv'
<1>1. /\ runner[r].pc = "next" /\ runner'[r].pc \in {"next", "pay"}
      /\ Draft(r)' = Draft(r)
      /\ \A s \in Runners : s # r => runner'[s] = runner[s]
      /\ UNCHANGED <<standing, gems, resets>>
  BY LockWindowKeeps
<1>2. KeysOk(r) /\ PaidOk(r) /\ EarnedOk(r)
  BY <1>1 DEF GemInv
<1>3. Draft(r).gems \subseteq GemRow /\ Draft(r)'.gems \subseteq GemRow
  BY <1>1 DEF BatchInv, DraftOk, DraftTypes
<1>4. KeysOk(r)'
  BY <1>1, <1>2 DEF KeysOk, StarterOk
<1>5. PaidOk(r)'
  BY <1>1, <1>2 DEF PaidOk
<1>6. EarnedOk(r)'
  <2>1. ASSUME NEW g \in Draft(r).gems PROVE g.key[1] # "season"
    BY <1>1, <1>2, <1>3, EarnedIs DEF Earned
  <2>2. ASSUME NEW g \in Draft(r).gems
        PROVE  CASE g.key[1] \in {"dr", "streak"} ->
                  g.key[3] \in DOMAIN Draft(r).days /\ g.key[2] \in DOMAIN Draft(r).days[g.key[3]]
            [] g.key[1] = "season" -> runner'[r].pc = "closing" /\ g.key[3] = runner'[r].season
            [] OTHER -> \E d \in DOMAIN Draft(r).days : g.key[2] \in DOMAIN Draft(r).days[d]
    <3>1. g.key[1] \in {"starter", "dr", "streak", "season"} /\ g.key[1] # "season"
      BY <1>3, <2>1, KindOf
    <3>2. Earned(r, g)
      BY <1>2, <1>3, EarnedIs
    <3> QED
      BY <3>1, <3>2 DEF Earned
  <2> QED
    BY <1>1, <2>2 DEF EarnedOk
<1> QED
  BY <1>1, <1>4, <1>5, <1>6, RunnerGems

(* The gems that a payment grants a player are new and for that day. *)
LEMMA PayGrantsAre ==
    ASSUME BatchInv, NEW r \in Runners, runner[r].pc = "pay", NEW u \in Players(r),
           NEW g \in PayGrants(r, u)
    PROVE  /\ g \in GemRow
           /\ g.key[2] = u
           /\ g.key[1] \in {"starter", "dr", "streak"}
           /\ g.key[1] \in {"dr", "streak"} => g.key[3] = PayDay(r)
           /\ StarterOk(g)
           /\ \A h \in gems \cup Draft(r).gems : h.key # g.key
           /\ \A h \in PayGrants(r, u) : h.key = g.key => h = g
<1> DEFINE d == PayDay(r)
           n == PayPos(r, u)
           size == PaySize(r)
           streak == PayAfter(r, u).streak
           a == Gem(StarterKey(u), 5)
           b == Gem(PlaceKey(d, u), GemsForPlace(n, size))
           c == Gem(StreakKey(d, u, streak), MilestoneGems(streak))
<1>1. /\ u \in Users /\ d \in Days /\ n \in Nat /\ size \in Nat /\ PayAfter(r, u) \in Profile
      /\ PayWanted(r, u) \subseteq GemRow
  BY PayTypes
<1>2. streak \in Nat
  BY <1>1 DEF Profile
<1>3. \A h \in PayGrants(r, u) :
        h \in PayWanted(r, u) /\ \A k \in gems \cup Draft(r).gems : k.key # h.key
  BY DEF PayGrants, Granted, Draft
<1>4. \A h \in PayWanted(r, u) : h \in {a, b, c}
  <2> HIDE DEF d, n, size, streak
  <2>1. PayWanted(r, u) = DayGems(d, u, n, size, streak)
    BY DEF PayWanted, d, n, size, streak
  <2> QED
    BY <1>1, <1>2, <2>1, DayGemsType
<1>5. /\ a.key = StarterKey(u) /\ b.key = PlaceKey(d, u) /\ c.key = StreakKey(d, u, streak)
  BY GemParts
<1>6. /\ a.key[1] = "starter" /\ b.key[1] = "dr" /\ c.key[1] = "streak"
      /\ a.key[2] = u /\ b.key[2] = u /\ c.key[2] = u /\ b.key[3] = d /\ c.key[3] = d
  <2> HIDE DEF d, streak, a, b, c
  <2> QED
    BY <1>5, KeyParts
<1>7. StarterOk(a) /\ StarterOk(b) /\ StarterOk(c)
  BY <1>6 DEF StarterOk
<1> HIDE DEF a, b, c, d
<1> QED
  BY <1>1, <1>3, <1>4, <1>6, <1>7 DEF d

(* A payment writes the standings and their gems into one draft. *)
LEMMA PayFieldGems ==
    ASSUME BatchInv, GemInv, NEW r \in Runners, PayField(r) PROVE GemInv'
<1> DEFINE w == Draft(r)
           v == PayDraft(r)
           d == PayDay(r)
<1>1. /\ runner[r].pc = "pay"
      /\ runner' = [runner EXCEPT ![r] = Paid(r)]
      /\ UNCHANGED <<standing, gems, resets>>
  BY PayFieldIs
<1>2. /\ DOMAIN v.profiles = DOMAIN w.profiles \cup Players(r)
      /\ DOMAIN v.days = DOMAIN w.days \cup {d}
      /\ v.days[d] = PayBook(r)
      /\ \A e \in DOMAIN w.days : e # d => v.days[e] = w.days[e]
      /\ DOMAIN PayBook(r) = Players(r)
      /\ \A u \in Players(r) : PayBook(r)[u] = PayPlace(r, u)
      /\ v.gems = w.gems \cup UNION {PayGrants(r, u) : u \in Players(r)}
      /\ DraftTypes(v)
  BY <1>1, PayDraftIs
<1>3. /\ d \in Days /\ state[d] = "CLOSED"
      /\ \A e \in DOMAIN w.days : e # d
  <2>1. d \in Days /\ state[d] = "CLOSED" /\ \A e \in DOMAIN w.days : e < d
    BY <1>1, PayDayIs
  <2>2. d \in Int
    BY <2>1, Constants
  <2> QED
    BY <2>1, <2>2
<1>4. /\ runner'[r] = Paid(r) /\ Paid(r).pc = "next" /\ Paid(r).draft = v
      /\ \A s \in Runners : s # r => runner'[s] = runner[s]
  BY <1>1 DEF BatchInv, ShapeOk, Paid
<1>5. Draft(r)' = v /\ runner'[r].pc = "next"
  BY <1>4 DEF Draft
<1>6. KeysOk(r) /\ PaidOk(r) /\ EarnedOk(r)
  BY <1>1 DEF GemInv
<1>7. w.gems \subseteq GemRow
  BY <1>1 DEF BatchInv, DraftOk, DraftTypes
<1>8. \A g \in w.gems : Earned(r, g) /\ g.key[1] # "season"
  BY <1>1, <1>6, <1>7, EarnedIs DEF Earned
<1>9. \A u \in Players(r) : \A g \in PayGrants(r, u) :
           /\ g \in GemRow
           /\ g.key[2] = u
           /\ g.key[1] \in {"starter", "dr", "streak"}
           /\ g.key[1] \in {"dr", "streak"} => g.key[3] = d
           /\ StarterOk(g)
           /\ \A h \in gems \cup w.gems : h.key # g.key
           /\ \A h \in PayGrants(r, u) : h.key = g.key => h = g
  BY <1>1, PayGrantsAre
<1> HIDE DEF v, d
<1>10. KeysOk(r)'
  <2>1. ASSUME NEW g \in v.gems
        PROVE  /\ g.key[2] \in DOMAIN v.profiles /\ StarterOk(g)
               /\ \A h \in gems : h.key # g.key
               /\ \A h \in v.gems : h.key = g.key => h = g
    <3>1. CASE g \in w.gems
      BY <1>2, <1>6, <1>9, <3>1 DEF KeysOk
    <3>2. CASE g \notin w.gems
      <4>1. PICK u \in Players(r) : g \in PayGrants(r, u)
        BY <1>2, <3>2
      <4>2. ASSUME NEW h \in v.gems, h.key = g.key PROVE h = g
        <5>1. h \notin w.gems
          BY <1>9, <4>1, <4>2
        <5>2. PICK x \in Players(r) : h \in PayGrants(r, x)
          BY <1>2, <5>1
        <5>3. x = u
          BY <1>9, <4>1, <4>2, <5>2
        <5> QED
          BY <1>9, <4>1, <4>2, <5>2, <5>3
      <4> QED
        BY <1>2, <1>9, <4>1, <4>2
    <3> QED
      BY <3>1, <3>2
  <2> QED
    BY <1>1, <1>5, <2>1 DEF KeysOk, StarterOk
<1>11. PaidOk(r)'
  <2>1. ASSUME NEW e \in DOMAIN v.days, NEW u \in DOMAIN v.days[e]
        PROVE  /\ v.days[e][u].gems > 0 => Gem(PlaceKey(e, u), v.days[e][u].gems) \in v.gems
               /\ Gem(StarterKey(u), 5) \in gems \cup v.gems
    <3>1. CASE e # d
      BY <1>2, <1>6, <2>1, <3>1 DEF PaidOk
    <3>2. CASE e = d
      <4>1. u \in Players(r) /\ v.days[e][u] = PayPlace(r, u)
        BY <1>2, <2>1, <3>2
      <4> DEFINE amount == GemsForPlace(PayPos(r, u), PaySize(r))
                 streak == PayAfter(r, u).streak
                 b == Gem(PlaceKey(d, u), amount)
                 a == Gem(StarterKey(u), 5)
      <4>2. v.days[e][u].gems = amount
        BY <4>1 DEF PayPlace
      <4>3. \A g : g \in PayGrants(r, u) <=>
               /\ g \in {a, b, Gem(StreakKey(d, u, streak), MilestoneGems(streak))}
               /\ Payable(g) /\ \A h \in gems \cup w.gems : h.key # g.key
        BY DEF PayGrants, Granted, PayWanted, DayGems, Draft, d
      <4> HIDE DEF amount, streak
      <4>4. /\ b.key = PlaceKey(d, u) /\ b.amount = amount
            /\ a.key = StarterKey(u) /\ a.amount = 5
        BY GemParts
      <4> HIDE DEF a, b
      <4>5. ASSUME amount > 0 PROVE b \in v.gems
        <5>1. ASSUME NEW h \in gems PROVE h.key # PlaceKey(d, u)
          <6>1. d \in Days => ~(u \in DOMAIN standing[d])
            BY <1>3 DEF BatchInv, DaysOk
          <6>2. gems \subseteq GemRow
            BY DEF BatchInv, TablesOk
          <6>3. Explained(h)
            BY <6>2, GemsMatchIs DEF GemInv
          <6> QED
            BY <1>3, <6>1, <6>3, KeyParts DEF Explained
        <5>2. ASSUME NEW h \in w.gems PROVE h.key # PlaceKey(d, u)
          <6>1. Earned(r, h)
            BY <1>8
          <6> QED
            BY <1>3, <6>1, KeyParts DEF Earned
        <5>3. Payable(b)
          BY <4>4, <4>5 DEF Payable
        <5>4. b \in PayGrants(r, u)
          BY <4>3, <4>4, <5>1, <5>2, <5>3
        <5> QED
          BY <1>2, <4>1, <5>4
      <4>6. a \in gems \cup v.gems
        <5>1. CASE \E h \in gems \cup w.gems : h.key = StarterKey(u)
          <6>1. PICK h \in gems \cup w.gems : h.key = StarterKey(u)
            BY <5>1
          <6>2. StarterOk(h)
            BY <1>6, <6>1 DEF GemInv, KeysOk
          <6>3. h = a
            BY <6>1, <6>2, KeyParts DEF StarterOk, a
          <6> QED
            BY <1>2, <6>1, <6>3
        <5>2. CASE ~ \E h \in gems \cup w.gems : h.key = StarterKey(u)
          <6>1. Payable(a)
            BY <4>4 DEF Payable
          <6>2. a \in PayGrants(r, u)
            BY <4>3, <4>4, <5>2, <6>1
          <6> QED
            BY <1>2, <4>1, <6>2
        <5> QED
          BY <5>1, <5>2
      <4> QED
        BY <3>2, <4>2, <4>5, <4>6 DEF a, b
    <3> QED
      BY <3>1, <3>2
  <2> QED
    BY <1>1, <1>5, <2>1 DEF PaidOk
<1>12. EarnedOk(r)'
  <2>1. ASSUME NEW g \in v.gems
        PROVE  /\ g.key[1] \in {"dr", "streak"} =>
                    g.key[3] \in DOMAIN v.days /\ g.key[2] \in DOMAIN v.days[g.key[3]]
               /\ g.key[1] # "season"
               /\ g.key[1] = "starter" => \E e \in DOMAIN v.days : g.key[2] \in DOMAIN v.days[e]
    <3>1. CASE g \in w.gems
      BY <1>2, <1>3, <1>8, <3>1 DEF Earned
    <3>2. CASE g \notin w.gems
      <4>1. PICK u \in Players(r) : g \in PayGrants(r, u)
        BY <1>2, <3>2
      <4> QED
        BY <1>2, <1>9, <4>1
    <3> QED
      BY <3>1, <3>2
  <2>2. v.gems \subseteq GemRow
    BY <1>2 DEF DraftTypes
  <2>3. ASSUME NEW g \in v.gems
        PROVE  CASE g.key[1] \in {"dr", "streak"} ->
                  g.key[3] \in DOMAIN v.days /\ g.key[2] \in DOMAIN v.days[g.key[3]]
            [] g.key[1] = "season" -> runner'[r].pc = "closing" /\ g.key[3] = runner'[r].season
            [] OTHER -> \E e \in DOMAIN v.days : g.key[2] \in DOMAIN v.days[e]
    <3>1. g.key[1] \in {"starter", "dr", "streak", "season"}
      BY <2>2, KindOf
    <3> QED
      BY <2>1, <3>1
  <2> QED
    BY <1>5, <2>3 DEF EarnedOk
<1> QED
  BY <1>1, <1>4, <1>10, <1>11, <1>12, RunnerGems

(* A reset grants gems for the season it has claimed. *)
LEMMA WriteResetGems ==
    ASSUME BatchInv, GemInv, NEW r \in Runners, WriteReset(r), runner[r].season \in Int
    PROVE  GemInv'
<1> DEFINE v == ResetDraft(r)
           season == runner[r].season
<1>1. /\ runner[r].pc = "reset"
      /\ runner' = [runner EXCEPT ![r] = Reset(r)]
      /\ UNCHANGED <<standing, gems, resets>>
  BY WriteResetIs
<1>2. /\ DraftTypes(v) /\ DOMAIN v.profiles = Users /\ DOMAIN v.days = {}
      /\ v.gems = UNION {ResetGrants(r, u) : u \in Users}
  BY <1>1, ResetDraftIs
<1>3. /\ runner'[r] = Reset(r) /\ Reset(r).pc = "closing" /\ Reset(r).draft = v
      /\ Reset(r).season = season
      /\ \A s \in Runners : s # r => runner'[s] = runner[s]
  BY <1>1 DEF BatchInv, ShapeOk, Reset
<1>4. Draft(r)' = v /\ runner'[r].pc = "closing" /\ runner'[r].season = season
  BY <1>3 DEF Draft
<1>5. \A u \in Users : \A g \in ResetGrants(r, u) :
        /\ g.key = SeasonKey(season, u)
        /\ \A h \in gems : h.key # g.key
        /\ \A h \in ResetGrants(r, u) : h = g
  <2>1. ASSUME NEW u \in Users, NEW g \in ResetGrants(r, u)
        PROVE  /\ g = Gem(SeasonKey(season, u), SeasonReward(runner[r].read[u]))
               /\ \A h \in gems : h.key # g.key
    BY <2>1 DEF ResetGrants, Granted
  <2>2. \A u \in Users : \A g \in ResetGrants(r, u) : g.key = SeasonKey(season, u)
    BY <2>1, GemParts
  <2> QED
    BY <2>1, <2>2
<1> HIDE DEF v, season
<1>6. \A g \in v.gems : /\ g.key[1] = "season" /\ g.key[2] \in Users /\ g.key[3] = season
                        /\ \E u \in Users : g.key[2] = u /\ g \in ResetGrants(r, u)
  <2> TAKE g \in v.gems
  <2>1. PICK u \in Users : g \in ResetGrants(r, u)
    BY <1>2
  <2>2. g.key = SeasonKey(season, u)
    BY <1>5, <2>1
  <2> QED
    BY <2>1, <2>2, KeyParts
<1>7. KeysOk(r)'
  <2>1. ASSUME NEW g \in v.gems
        PROVE  /\ g.key[2] \in DOMAIN v.profiles /\ StarterOk(g)
               /\ \A h \in gems : h.key # g.key
               /\ \A h \in v.gems : h.key = g.key => h = g
    BY <1>2, <1>5, <1>6 DEF StarterOk
  <2> QED
    BY <1>1, <1>4, <2>1 DEF KeysOk, StarterOk
<1>8. PaidOk(r)'
  BY <1>2, <1>4 DEF PaidOk
<1>9. EarnedOk(r)'
  <2>1. ASSUME NEW g \in v.gems
        PROVE  CASE g.key[1] \in {"dr", "streak"} ->
                  g.key[3] \in DOMAIN v.days /\ g.key[2] \in DOMAIN v.days[g.key[3]]
            [] g.key[1] = "season" -> runner'[r].pc = "closing" /\ g.key[3] = runner'[r].season
            [] OTHER -> \E e \in DOMAIN v.days : g.key[2] \in DOMAIN v.days[e]
    BY <1>4, <1>6
  <2> QED
    BY <1>4, <2>1 DEF EarnedOk
<1> QED
  BY <1>1, <1>3, <1>7, <1>8, <1>9, RunnerGems

(* A commit puts the gems of a draft beside what they are for. *)
LEMMA PublishGems ==
    ASSUME BatchInv, GemInv, BatchInv', NEW r \in Runners, NEW q,
           Publish(r), runner[r].pc \in {"next", "closing"},
           q.pc # "idle" => q.draft = NoDraft,
           runner' = [runner EXCEPT ![r] = q],
           \/ resets' = resets /\ runner[r].pc = "next"
           \/ resets' = Append(resets, runner[r].season),
           resets \in Seq(Int), runner[r].pc = "closing" => runner[r].season \in Int
    PROVE  GemInv'
<1> DEFINE w == Draft(r)
<1>1. /\ DOMAIN w.days \subseteq Days
      /\ \A d \in Days : standing'[d] = IF d \in DOMAIN w.days THEN w.days[d] ELSE standing[d]
      /\ gems' = gems \cup w.gems
  BY PublishIs
<1>2. /\ DraftTypes(w) /\ KeysOk(r) /\ PaidOk(r) /\ EarnedOk(r)
  BY DEF BatchInv, DraftOk, GemInv
<1>3. LockedProfiles(r) = DOMAIN w.profiles /\ LockedDays(r) = DOMAIN w.days
  BY DEF LockedProfiles, LockedDays, Draft
<1>4. gems \subseteq GemRow /\ w.gems \subseteq GemRow /\ gems' \subseteq GemRow
  BY <1>2 DEF BatchInv, TablesOk, DraftTypes
<1>5. /\ \A g, h \in gems : g.key = h.key => g = h
      /\ Rewarded
      /\ \A g \in gems : Explained(g)
  BY <1>4, GemsMatchIs DEF GemInv
<1>6. \A g \in w.gems : Earned(r, g)
  BY <1>2, <1>4, EarnedIs
<1>7. /\ runner'[r] = q
      /\ \A s \in Runners : s # r => runner'[s] = runner[s]
  BY DEF BatchInv, ShapeOk
<1>8. \A d \in Days : standing[d] = standing'[d] \/ (d \in DOMAIN w.days /\ DOMAIN standing[d] = {})
  BY <1>1, <1>3 DEF BatchInv, DaysOk, LockOk
<1>9. Range(resets) \subseteq Range(resets')
      /\ (runner[r].pc = "closing" => runner[r].season \in Range(resets'))
  <2>1. CASE resets' = resets /\ runner[r].pc = "next"
    BY <2>1
  <2>2. CASE resets' = Append(resets, runner[r].season) /\ runner[r].pc = "closing"
    <3> DEFINE x == runner[r].season
    <3> HIDE DEF x
    <3>1. x \in Int /\ resets' = Append(resets, x)
      BY <2>2 DEF x
    <3>2. /\ DOMAIN resets = 1..Len(resets) /\ DOMAIN resets' = 1..(Len(resets) + 1)
          /\ Len(resets) \in Nat
          /\ \A n \in 1..Len(resets) : resets'[n] = resets[n]
          /\ resets'[Len(resets) + 1] = x
      BY <3>1
    <3>3. Len(resets) + 1 \in DOMAIN resets' /\ \A n \in DOMAIN resets : n \in DOMAIN resets'
      BY <3>2
    <3> QED
      BY <3>2, <3>3 DEF Range, x
  <2>3. CASE resets' = Append(resets, runner[r].season) /\ runner[r].pc = "next"
    <3> DEFINE x == runner[r].season
    <3> HIDE DEF x
    <3>1. resets' = Append(resets, x)
      BY <2>3 DEF x
    <3>2. /\ DOMAIN resets = 1..Len(resets) /\ Len(resets) \in Nat
          /\ DOMAIN resets' = 1..(Len(resets) + 1)
          /\ \A n \in 1..Len(resets) : resets'[n] = resets[n]
      BY <3>1
    <3>3. \A n \in DOMAIN resets : n \in DOMAIN resets' /\ resets'[n] = resets[n]
      BY <3>2
    <3>4. Range(resets) \subseteq Range(resets')
      BY <3>3 DEF Range
    <3> QED
      BY <2>3, <3>4
  <2> QED
    BY <2>1, <2>2, <2>3
<1> HIDE DEF w
<1>10. \A g, h \in gems' : g.key = h.key => g = h
  BY <1>1, <1>2, <1>5 DEF KeysOk, w
<1>11. Rewarded'
  <2>1. ASSUME NEW d \in Days, NEW u \in DOMAIN standing'[d]
        PROVE  /\ standing'[d][u].gems > 0 => Gem(PlaceKey(d, u), standing'[d][u].gems) \in gems'
               /\ Gem(StarterKey(u), 5) \in gems'
    <3>1. CASE d \in DOMAIN w.days
      BY <1>1, <1>2, <2>1, <3>1 DEF PaidOk, w
    <3>2. CASE d \notin DOMAIN w.days
      BY <1>1, <1>5, <2>1, <3>2 DEF Rewarded
    <3> QED
      BY <3>1, <3>2
  <2> QED
    BY <2>1 DEF Rewarded
<1>12. (\A g \in gems : g.key[1] \in {"dr", "streak"} => g.key[3] \in Days)'
  <2>1. \A g \in w.gems : g.key[1] \in {"dr", "streak"} => g.key[3] \in Days
    BY <1>1, <1>6 DEF Earned, w
  <2> QED
    BY <1>1, <2>1 DEF GemInv
<1>13. (\A g \in gems : Explained(g))'
  <2>1. ASSUME NEW g \in gems
        PROVE  /\ g.key[1] \in {"dr", "streak"} => g.key[2] \in DOMAIN standing'[g.key[3]]
               /\ g.key[1] = "season" => g.key[3] \in Range(resets')
               /\ g.key[1] = "starter" => \E d \in Days : g.key[2] \in DOMAIN standing'[d]
    <3>1. Explained(g) /\ (g.key[1] \in {"dr", "streak"} => g.key[3] \in Days)
      BY <1>5 DEF GemInv
    <3> QED
      BY <1>8, <1>9, <3>1 DEF Explained
  <2>2. ASSUME NEW g \in w.gems
        PROVE  /\ g.key[1] \in {"dr", "streak"} => g.key[2] \in DOMAIN standing'[g.key[3]]
               /\ g.key[1] = "season" => g.key[3] \in Range(resets')
               /\ g.key[1] = "starter" => \E d \in Days : g.key[2] \in DOMAIN standing'[d]
    <3>1. Earned(r, g)
      BY <1>6
    <3> QED
      BY <1>1, <1>9, <3>1 DEF Earned, w
  <2> QED
    BY <1>1, <2>1, <2>2 DEF Explained
<1>14. GemsMatchPlaces'
  <2>1. (gems \subseteq GemRow)'
    BY <1>4
  <2>2. (\A g, h \in gems : g.key = h.key => g = h)'
    BY <1>10
  <2>3. (gems \subseteq GemRow =>
           (GemsMatchPlaces <=> /\ \A g, h \in gems : g.key = h.key => g = h
                                /\ Rewarded
                                /\ \A g \in gems : Explained(g)))'
    BY GemsMatchIs, PTL
  <2> QED
    BY <1>11, <1>13, <2>1, <2>2, <2>3
<1>15. (\A g \in gems : StarterOk(g))'
  BY <1>1, <1>2 DEF GemInv, KeysOk, StarterOk, w
<1>16. ASSUME NEW s \in Runners, runner'[s].pc # "idle"
       PROVE  KeysOk(s)' /\ PaidOk(s)' /\ EarnedOk(s)'
  <2>1. CASE s = r
    <3>1. Draft(r)' = NoDraft
      BY <1>7, <1>16, <2>1 DEF Draft
    <3>2. NoDraft.gems = {} /\ NoDraft.days = <<>> /\ DOMAIN <<>> = {}
      BY DEF NoDraft
    <3> QED
      BY <2>1, <3>1, <3>2 DEF KeysOk, PaidOk, EarnedOk
  <2>2. CASE s # r
    <3>1. runner'[s] = runner[s] /\ KeysOk(s) /\ PaidOk(s) /\ EarnedOk(s)
      BY <1>7, <1>16, <2>2 DEF GemInv
    <3>2. LockedProfiles(s) = DOMAIN Draft(s).profiles
      BY <1>16, <3>1 DEF LockedProfiles, Draft
    <3>3. KeysOk(s)'
      <4>1. ASSUME NEW g \in Draft(s).gems, NEW h \in w.gems PROVE h.key # g.key
        <5>1. g.key[2] \in LockedProfiles(s) /\ h.key[2] \in LockedProfiles(r)
          BY <1>2, <1>3, <3>1, <3>2 DEF KeysOk, w
        <5>2. LockedProfiles(s) \cap LockedProfiles(r) = {}
          BY <2>2 DEF BatchInv, LockOk
        <5> QED
          BY <5>1, <5>2
      <4> QED
        BY <1>1, <3>1, <4>1 DEF KeysOk, Draft, StarterOk
    <3>4. PaidOk(s)'
      BY <1>1, <3>1 DEF PaidOk, Draft
    <3>5. EarnedOk(s)'
      BY <3>1, Zenon DEF EarnedOk, Draft
    <3> QED
      BY <3>3, <3>4, <3>5
  <2> QED
    BY <2>1, <2>2
<1> QED
  BY <1>12, <1>14, <1>15, <1>16 DEF GemInv

(* Every step keeps the invariant of the gems. *)
LEMMA NextGems == SeasonInv /\ BatchInv /\ BatchInv' /\ GemInv /\ [Next]_vars => GemInv'
<1> SUFFICES ASSUME SeasonInv, BatchInv, BatchInv', GemInv, [Next]_vars PROVE GemInv'
  OBVIOUS
<1>1. CASE \/ Tick
           \/ \E d \in Days : CloseDay(d)
           \/ \E u \in Users : SaveProfile(u)
           \/ UNCHANGED vars
  <2>1. UNCHANGED <<runner, standing, gems, resets>>
    BY <1>1 DEF Tick, CloseDay, SaveProfile, vars, tables
  <2> QED
    BY <2>1, QuietGems
<1>2. ASSUME NEW r \in Runners, StartBatch(r) PROVE GemInv'
  <2> DEFINE due == InOrder(DueDays)
             q == [pc |-> "next", due |-> due, draft |-> NoDraft]
  <2>1. runner' = [runner EXCEPT ![r] = q] /\ UNCHANGED <<standing, gems, resets>>
    BY <1>2 DEF StartBatch, tables
  <2> HIDE DEF due
  <2>2. q.pc # "idle" => q.draft = NoDraft
    OBVIOUS
  <2> HIDE DEF q
  <2> QED
    BY <2>1, <2>2, FreshGems
<1>3. ASSUME NEW r \in Runners, ClaimSeason(r) PROVE GemInv'
  <2> DEFINE new == [pc |-> "reset", season |-> EndedSeason, draft |-> NoDraft, read |-> profile]
             q == IF EndedSeason \in Range(resets) THEN Idle ELSE new
  <2>1. runner' = [runner EXCEPT ![r] = q] /\ UNCHANGED <<standing, gems, resets>>
    BY <1>3 DEF ClaimSeason, tables
  <2>2. new.draft = NoDraft /\ Idle.pc = "idle"
    BY DEF Idle
  <2> HIDE DEF new
  <2>3. q.pc # "idle" => q.draft = NoDraft
    BY <2>2
  <2> HIDE DEF q
  <2> QED
    BY <2>1, <2>3, FreshGems
<1>4. ASSUME NEW r \in Runners, Die(r) PROVE GemInv'
  <2>1. runner' = [runner EXCEPT ![r] = Idle] /\ UNCHANGED <<standing, gems, resets>>
    BY <1>4 DEF Die, Surviving
  <2>2. Idle.pc # "idle" => Idle.draft = NoDraft
    BY DEF Idle
  <2> QED
    BY <2>1, <2>2, FreshGems
<1>5. ASSUME NEW r \in Runners, WriteReset(r) PROVE GemInv'
  <2>1. runner[r].season \in Int
    BY <1>5 DEF WriteReset, SeasonInv, ClaimInv, Claims
  <2> QED
    BY <1>5, <2>1, WriteResetGems
<1>6. ASSUME NEW r \in Runners, CommitBatch(r) PROVE GemInv'
  <2> DEFINE new == [pc |-> "claim", draft |-> NoDraft]
             q == IF r \in Heartbeats THEN new ELSE Idle
  <2>1. /\ runner[r].pc = "next" /\ Publish(r) /\ resets' = resets
        /\ runner' = [runner EXCEPT ![r] = q]
    BY <1>6 DEF CommitBatch
  <2>2. new.draft = NoDraft /\ Idle.pc = "idle"
    BY DEF Idle
  <2> HIDE DEF new
  <2>3. q.pc # "idle" => q.draft = NoDraft
    BY <2>2
  <2>4. resets \in Seq(Int)
    BY DEF SeasonInv
  <2> HIDE DEF q
  <2> QED
    BY <2>1, <2>3, <2>4, PublishGems
<1>7. ASSUME NEW r \in Runners, CommitReset(r) PROVE GemInv'
  <2>1. /\ runner[r].pc = "closing" /\ Publish(r)
        /\ resets' = Append(resets, runner[r].season)
        /\ runner' = [runner EXCEPT ![r] = Idle]
    BY <1>7 DEF CommitReset
  <2>2. Idle.pc # "idle" => Idle.draft = NoDraft
    BY DEF Idle
  <2>3. resets \in Seq(Int) /\ runner[r].season \in Int
    BY <2>1 DEF SeasonInv, ClaimInv, Claims
  <2> QED
    BY <2>1, <2>2, <2>3, PublishGems
<1>8. ASSUME NEW r \in Runners, Work(r) PROVE GemInv'
  BY <1>2, <1>3, <1>5, <1>6, <1>7, <1>8, LockWindowGems, PayFieldGems DEF Work
<1> QED
  BY <1>1, <1>4, <1>8 DEF Next

(***************************************************************************)
(* Gems and what they are paid for are committed together: each key once,  *)
(* the gems of each place as its standing says, no gem for a day that is   *)
(* not settled or a season that is not closed (settlement.py:229,          *)
(* seasons.py:113).                                                        *)
(***************************************************************************)
THEOREM SettlementGemsMatchPlaces == Spec => []GemsMatchPlaces
<1>1. GemInv => GemsMatchPlaces
  BY DEF GemInv
<1> QED
  BY <1>1, InitSeason, NextSeason, InitBatch, NextBatch, InitGems, NextGems, PTL DEF Spec

-----------------------------------------------------------------------------
(* Streaks are folded over days. *)
N == INSTANCE FoldFacts WITH Op <- LAMBDA p, d : NextStreak(p, d)

(* The folds of the two properties are folds that FoldFacts speaks of. *)
LEMMA StreakIs ==
    ASSUME NEW p, NEW st, NEW u
    PROVE  StreakOf(p, st, u) = N!Fold(p, Ascending(Played(st, u)))
BY DEF StreakOf, N!Fold, N!FoldLeft, N!MapThenFoldSet, N!Max, FoldLeft, MapThenFoldSet, Max

(* The same for the ratings. *)
LEMMA RatingIs ==
    ASSUME NEW x, NEW st, NEW u
    PROVE  RatingOf(x, st, u) = F!Fold(x, PlacesOf(st, u))
BY DEF RatingOf, F!Fold, F!FoldLeft, F!MapThenFoldSet, F!Max, FoldLeft, MapThenFoldSet, Max

(* Two tables of standings say the same of u on day d. *)
SameOn(u, a, b, d) ==
    /\ u \in DOMAIN a[d] <=> u \in DOMAIN b[d]
    /\ u \in DOMAIN a[d] => a[d][u] = b[d][u]

(* What is the same on every day folds to the same. *)
LEMMA SameFolds ==
    ASSUME NEW u, NEW a, NEW b, \A d \in Days : SameOn(u, a, b, d)
    PROVE  /\ \A p : StreakOf(p, a, u) = StreakOf(p, b, u)
           /\ \A x : RatingOf(x, a, u) = RatingOf(x, b, u)
<1>1. Played(a, u) = Played(b, u)
  BY DEF SameOn, Played
<1>2. \A p : StreakOf(p, a, u) = StreakOf(p, b, u)
  BY <1>1, StreakIs
<1> DEFINE days == Ascending(Played(a, u))
<1>3. \A n \in DOMAIN days : a[days[n]][u] = b[days[n]][u]
  <2>1. Played(a, u) \in SUBSET Days
    BY DEF Played
  <2>2. days \in Seq(Played(a, u))
    BY <2>1, AscendingList
  <2> HIDE DEF days
  <2>3. \A n \in DOMAIN days : days[n] \in Played(a, u)
    BY <2>2
  <2> QED
    BY <2>3 DEF SameOn, Played
<1>4. PlacesOf(a, u) = PlacesOf(b, u)
  <2>1. PlacesOf(a, u) = [n \in DOMAIN days |-> a[days[n]][u]]
    BY DEF PlacesOf
  <2>2. PlacesOf(b, u) = [n \in DOMAIN days |-> b[days[n]][u]]
    BY <1>1 DEF PlacesOf
  <2> HIDE DEF days
  <2> QED
    BY <1>3, <2>1, <2>2
<1>5. \A x : RatingOf(x, a, u) = RatingOf(x, b, u)
  BY <1>4, RatingIs
<1> QED
  BY <1>2, <1>5

(* A place on a day after all the others is folded last. *)
LEMMA LaterFolds ==
    ASSUME NEW u, NEW a, NEW b, NEW d \in Days,
           \A e \in Days : e # d => SameOn(u, a, b, e),
           u \notin DOMAIN a[d], u \in DOMAIN b[d],
           \A e \in Played(a, u) : e < d
    PROVE  /\ \A p : StreakOf(p, b, u) = NextStreak(StreakOf(p, a, u), d)
           /\ \A x : RatingOf(x, b, u) = RatingAfter(RatingOf(x, a, u), b[d][u])
<1> DEFINE S == Played(a, u)
           days == Ascending(S)
           more == Ascending(Played(b, u))
           c == Len(days)
<1>1. S \in SUBSET Days /\ d \notin S
  BY DEF Played
<1>2. Played(b, u) = S \cup {d}
  BY DEF SameOn, Played
<1>3. more = Append(days, d)
  BY <1>1, <1>2, AscendingLater
<1>4. days \in Seq(S) /\ days \in Seq(Days)
  BY <1>1, AscendingList
<1> HIDE DEF S, days, more
<1>5. \A p : StreakOf(p, b, u) = NextStreak(StreakOf(p, a, u), d)
  <2> SUFFICES ASSUME NEW p PROVE StreakOf(p, b, u) = NextStreak(StreakOf(p, a, u), d)
    OBVIOUS
  <2>1. N!Fold(p, Append(days, d)) = NextStreak(N!Fold(p, days), d)
    BY <1>4, N!FoldAppend
  <2>2. StreakOf(p, a, u) = N!Fold(p, days) /\ StreakOf(p, b, u) = N!Fold(p, more)
    BY StreakIs DEF S, days, more
  <2> QED
    BY <1>3, <2>1, <2>2
<1> DEFINE old == PlacesOf(a, u)
           new == PlacesOf(b, u)
           X == {a[e][u] : e \in S} \cup {b[d][u]}
<1>6. /\ c \in Nat /\ DOMAIN days = 1..c /\ DOMAIN more = 1..(c + 1)
      /\ more[c + 1] = d
      /\ \A n \in 1..c : more[n] = days[n] /\ days[n] \in S
  BY <1>3, <1>4
<1>7. old = [n \in 1..c |-> a[days[n]][u]] /\ new = [n \in 1..(c + 1) |-> b[more[n]][u]]
  <2>1. old = [n \in DOMAIN days |-> a[days[n]][u]] /\ new = [n \in DOMAIN more |-> b[more[n]][u]]
    BY DEF PlacesOf, S, days, more
  <2> QED
    BY <1>6, <2>1
<1> HIDE DEF c
<1>8. old \in Seq(X) /\ Len(old) = c
  <2>1. \A n \in 1..c : a[days[n]][u] \in X
    BY <1>6
  <2> HIDE DEF X, old
  <2> QED
    BY <1>6, <1>7, <2>1
<1>9. b[d][u] \in X
  OBVIOUS
<1>10. \A n \in 1..c : b[more[n]][u] = a[days[n]][u]
  BY <1>1, <1>6 DEF SameOn, S, Played
<1>11. b[more[c + 1]][u] = b[d][u]
  BY <1>6
<1>12. new = Append(old, b[d][u])
  <2> DEFINE y == b[d][u]
  <2>1. \A n \in 1..c : old[n] = b[more[n]][u]
    BY <1>6, <1>7, <1>10
  <2>2. \A n \in 1..(c + 1) : n = c + 1 \/ n \in 1..c
    BY <1>6
  <2>3. new = [n \in 1..(c + 1) |-> IF n = c + 1 THEN y ELSE old[n]]
    BY <1>6, <1>7, <1>11, <2>1, <2>2
  <2> HIDE DEF new, old, X, y
  <2>4. y \in X
    BY <1>9 DEF y
  <2>5. /\ Append(old, y) \in Seq(X) /\ Len(Append(old, y)) = c + 1
        /\ \A n \in 1..(c + 1) : Append(old, y)[n] = IF n = c + 1 THEN y ELSE old[n]
    BY <1>6, <1>8, <2>4
  <2> DEFINE t == Append(old, y)
  <2>6. t = [n \in DOMAIN t |-> t[n]] /\ DOMAIN t = 1..(c + 1)
    <3> HIDE DEF t
    <3>1. t \in Seq(X) /\ Len(t) = c + 1
      BY <2>5 DEF t
    <3> QED
      BY <3>1
  <2>7. \A n \in 1..(c + 1) : t[n] = IF n = c + 1 THEN y ELSE old[n]
    BY <2>5
  <2> HIDE DEF t
  <2>8. new = t
    BY <2>3, <2>6, <2>7
  <2> QED
    BY <2>8 DEF t, y
<1>13. \A x : RatingOf(x, b, u) = RatingAfter(RatingOf(x, a, u), b[d][u])
  <2> SUFFICES ASSUME NEW x
               PROVE  RatingOf(x, b, u) = RatingAfter(RatingOf(x, a, u), b[d][u])
    OBVIOUS
  <2> HIDE DEF X, old, new
  <2>1. F!Fold(x, Append(old, b[d][u])) = RatingAfter(F!Fold(x, old), b[d][u])
    BY <1>8, <1>9, F!FoldAppend
  <2>2. RatingOf(x, a, u) = F!Fold(x, old) /\ RatingOf(x, b, u) = F!Fold(x, new)
    BY RatingIs DEF old, new
  <2> QED
    BY <1>12, <2>1, <2>2
<1> QED
  BY <1>5, <1>13

(* The fold of a profile is a profile. *)
LEMMA StreakType ==
    ASSUME NEW p \in Profile, NEW st, NEW u
    PROVE  StreakOf(p, st, u) \in Profile
<1> DEFINE days == Ascending(Played(st, u))
<1>1. Played(st, u) \in SUBSET Days
  BY DEF Played
<1>2. days \in Seq(Days)
  BY <1>1, AscendingList
<1> HIDE DEF days
<1>3. \A q \in Profile, d \in Days : NextStreak(q, d) \in Profile
  BY NextStreakType
<1>4. N!Fold(p, days) \in Profile
  BY <1>2, <1>3, N!FoldType
<1> QED
  BY <1>4, StreakIs DEF days

(* The streak columns depend on the streak columns alone. *)
LEMMA NextStreakAlike ==
    ASSUME NEW p \in Profile, NEW q \in Profile, Alike(p, q), NEW d \in Days
    PROVE  Alike(NextStreak(p, d), NextStreak(q, d))
<1>0. d \in Int
  BY Constants
<1>1. /\ p.streak = q.streak /\ p.last = q.last /\ p.grace = q.grace
  BY DEF Alike
<1> DEFINE A(z) == [z EXCEPT !.streak = z.streak + 1, !.last = d]
           B(z) == [z EXCEPT !.streak = z.streak + 1, !.last = d, !.grace = d]
           C(z) == [z EXCEPT !.streak = 1, !.last = d]
<1>2. Alike(A(p), A(q)) /\ Alike(B(p), B(q)) /\ Alike(C(p), C(q))
  BY <1>1 DEF Profile, Alike
<1> DEFINE y == d - 1
           x == d - 2
           G(z) == z.last = x /\ z.streak >= 1 /\ GraceAvailable(z.grace, d)
<1>3. d # y /\ d # x /\ y # x
  BY <1>0
<1>4. \A z : NextStreak(z, d) = CASE z.last = d -> z
                                  [] z.last = y -> A(z)
                                  [] G(z) -> B(z)
                                  [] OTHER -> C(z)
  BY DEF NextStreak
<1>5. G(p) <=> G(q)
  BY <1>1
<1>6. \A z : G(z) => z.last = x
  OBVIOUS
<1> HIDE DEF A, B, C, G, x, y
<1>7. ASSUME NEW z
      PROVE  /\ z.last = d => NextStreak(z, d) = z
             /\ z.last = y => NextStreak(z, d) = A(z)
             /\ G(z) => NextStreak(z, d) = B(z)
             /\ z.last # d /\ z.last # y /\ ~G(z) => NextStreak(z, d) = C(z)
  <2>1. CASE z.last = d
    BY <1>3, <1>4, <1>6, <2>1, Zenon
  <2>2. CASE z.last = y
    BY <1>3, <1>4, <1>6, <2>2, Zenon
  <2>3. CASE G(z)
    BY <1>3, <1>4, <1>6, <2>3, Zenon
  <2>4. CASE z.last # d /\ z.last # y /\ ~G(z)
    BY <1>4, <2>4, Zenon
  <2> QED
    BY <2>1, <2>2, <2>3, <2>4, Zenon
<1> QED
  BY <1>1, <1>2, <1>5, <1>7, Zenon

(* A view, day by day. *)
LEMMA ViewIs ==
    ASSUME BatchInv, NEW r \in Runners, runner[r].pc # "idle"
    PROVE  \A e \in Days : View(r)[e] = IF e \in DOMAIN Draft(r).days
                                        THEN Draft(r).days[e] ELSE standing[e]
<1>1. DOMAIN standing = Days
  BY DEF BatchInv, TablesOk
<1> DEFINE days == Draft(r).days
<1> HIDE DEF days
<1>2. /\ \A x \in DOMAIN days : Over(days, standing)[x] = days[x]
      /\ \A x \in DOMAIN standing : x \notin DOMAIN days => Over(days, standing)[x] = standing[x]
  BY OverIs
<1> QED
  BY <1>1, <1>2 DEF View, days

(* A day in a draft has no committed standings yet. *)
LEMMA DraftDays ==
    ASSUME BatchInv, NEW r \in Runners, runner[r].pc # "idle", NEW e \in DOMAIN Draft(r).days
    PROVE  e \in Days /\ state[e] = "CLOSED" /\ DOMAIN standing[e] = {}
<1>1. e \in Days /\ e \in LockedDays(r)
  BY DEF BatchInv, DraftOk, DraftTypes, LockedDays, Draft
<1>2. state[e] = "CLOSED"
  BY <1>1 DEF BatchInv, LockOk
<1> QED
  BY <1>1, <1>2 DEF BatchInv, DaysOk

(* Who is not in a draft is seen there as in the committed standings. *)
LEMMA Unlocked ==
    ASSUME BatchInv, NEW r \in Runners, runner[r].pc # "idle",
           NEW u, u \notin DOMAIN Draft(r).profiles, NEW e \in Days
    PROVE  SameOn(u, View(r), standing, e)
<1>1. CASE e \in DOMAIN Draft(r).days
  <2>1. u \notin DOMAIN Draft(r).days[e]
    BY <1>1 DEF BatchInv, DraftOk
  <2> QED
    BY <1>1, <2>1, ViewIs, DraftDays DEF SameOn
<1>2. CASE e \notin DOMAIN Draft(r).days
  BY <1>2, ViewIs DEF SameOn
<1> QED
  BY <1>1, <1>2

(* Alike is an equivalence. *)
LEMMA AlikeFacts ==
    /\ \A p : Alike(p, p)
    /\ \A p, q : Alike(p, q) => Alike(q, p)
    /\ \A p, q, z : Alike(p, q) /\ Alike(q, z) => Alike(p, z)
BY DEF Alike

(* A transaction reads the profile that its view of the standings explains. *)
LEMMA SeenFollows ==
    ASSUME BatchInv, NEW r \in Runners, runner[r].pc # "idle", NEW u \in Users
    PROVE  /\ StreakInv => Alike(Seen(r, u), StreakOf(history[u], View(r), u))
           /\ RatingInv /\ Len(resets) = 1 /\ Batching(r) =>
                 Seen(r, u).rating = RatingOf(history[u].rating, View(r), u)
<1>1. CASE u \in DOMAIN Draft(r).profiles
  <2>1. Seen(r, u) = Draft(r).profiles[u] /\ u \in LockedProfiles(r)
    BY <1>1 DEF Seen, Draft, LockedProfiles
  <2> QED
    BY <2>1 DEF StreakInv, StreakOk, RatingInv, RatingOk
<1>2. CASE u \notin DOMAIN Draft(r).profiles
  <2>1. Seen(r, u) = profile[u]
    BY <1>2 DEF Seen, Draft
  <2>2. \A e \in Days : SameOn(u, View(r), standing, e)
    BY <1>2, Unlocked
  <2>3. /\ \A p : StreakOf(p, View(r), u) = StreakOf(p, standing, u)
        /\ \A x : RatingOf(x, View(r), u) = RatingOf(x, standing, u)
    BY <2>2, SameFolds
  <2> QED
    BY <2>1, <2>3 DEF StreakInv, RatingInv
<1> QED
  BY <1>1, <1>2

(* Only one runner has days locked: they are the first that are not settled. *)
LEMMA OneLocker ==
    ASSUME BatchInv, NEW r \in Runners, NEW s \in Runners,
           LockedDays(r) # {}, LockedDays(s) # {}
    PROVE  r = s
<1> SUFFICES ASSUME r # s PROVE FALSE
  OBVIOUS
<1>1. PICK d : d \in LockedDays(r)
  OBVIOUS
<1>2. PICK e : e \in LockedDays(s)
  OBVIOUS
<1>3. ASSUME NEW x \in Runners, x \in {r, s} PROVE LockedDays(x) \subseteq Days
  <2>1. CASE runner[x].pc = "pay"
    <3>1. PayDay(x) \in Days /\ LockedDays(x) = DOMAIN Draft(x).days \cup {PayDay(x)}
      BY <2>1, PayDayIs
    <3>2. DOMAIN Draft(x).days \subseteq Days
      BY <2>1 DEF BatchInv, DraftOk, DraftTypes
    <3> QED
      BY <3>1, <3>2
  <2>2. CASE runner[x].pc # "pay"
    BY <2>2 DEF BatchInv, DraftOk, DraftTypes, LockedDays, Draft
  <2> QED
    BY <2>1, <2>2
<1>4. d \in Days /\ e \in Days /\ Days \subseteq Int
  BY <1>1, <1>2, <1>3, Constants
<1>5. LockedDays(r) \cap LockedDays(s) = {}
  BY DEF BatchInv, LockOk
<1>6. d < e \/ e < d
  BY <1>1, <1>2, <1>4, <1>5
<1>7. /\ state[d] = "CLOSED" /\ state[e] = "CLOSED"
      /\ d < e => state[d] = "SETTLED" \/ d \in LockedDays(s)
      /\ e < d => state[e] = "SETTLED" \/ e \in LockedDays(r)
  BY <1>1, <1>2, <1>4 DEF BatchInv, LockOk
<1> QED
  BY <1>1, <1>2, <1>5, <1>6, <1>7

(* At first everybody is what the history says. *)
LEMMA InitFollows == Init => StreakInv /\ RatingInv
<1> SUFFICES ASSUME Init PROVE StreakInv /\ RatingInv
  OBVIOUS
<1>1. /\ profile = history /\ standing = [d \in Days |-> <<>>]
      /\ resets = <<Season[0]>> /\ runner = [r \in Runners |-> Idle]
  BY DEF Init
<1>2. ASSUME NEW u \in Users
      PROVE  /\ StreakOf(history[u], standing, u) = history[u]
             /\ RatingOf(history[u].rating, standing, u) = history[u].rating
  <2>1. Played(standing, u) = {}
    BY <1>1 DEF Played
  <2>2. Ascending(Played(standing, u)) = <<>>
    <3>1. {} \in SUBSET Days
      OBVIOUS
    <3>2. Ascending({}) \in Seq({})
      BY <3>1, AscendingList
    <3> QED
      BY <2>1, <3>2
  <2>3. PlacesOf(standing, u) = <<>>
    BY <2>2 DEF PlacesOf
  <2> QED
    BY <2>2, <2>3, StreakIs, RatingIs, N!FoldEmpty, F!FoldEmpty
<1>3. \A r \in Runners : runner[r].pc = "idle"
  BY <1>1 DEF Idle
<1>4. \A r \in Runners : StreakOk(r) /\ RatingOk(r)
  BY <1>3 DEF StreakOk, RatingOk, Batching, LockedProfiles
<1>5. Len(resets) # 0
  BY <1>1
<1> QED
  BY <1>1, <1>2, <1>4, <1>5, AlikeFacts DEF StreakInv, RatingInv

(* A step of runner r that commits nothing keeps what it carries itself. *)
LEMMA RunnerFollows ==
    ASSUME BatchInv, StreakInv, RatingInv, NEW r \in Runners,
           \A s \in Runners : s # r => runner'[s] = runner[s],
           UNCHANGED <<profile, standing, history, resets>>,
           StreakOk(r)', Len(resets) = 1 => RatingOk(r)'
    PROVE  StreakInv' /\ RatingInv'
<1>1. ASSUME NEW s \in Runners, s # r
      PROVE  /\ StreakOk(s)'
             /\ Len(resets) = 1 => RatingOk(s)'
  <2>1. runner'[s] = runner[s]
    BY <1>1
  <2>2. /\ LockedProfiles(s)' = LockedProfiles(s)
        /\ Draft(s)' = Draft(s) /\ View(s)' = View(s)
        /\ \A u : Seen(s, u)' = Seen(s, u)
        /\ Batching(s)' <=> Batching(s)
    BY <2>1 DEF LockedProfiles, Draft, View, Seen, Batching
  <2>3. StreakOk(s) /\ (Len(resets) = 1 => RatingOk(s))
    BY DEF StreakInv, RatingInv
  <2>4. StreakOk(s)'
    BY <2>1, <2>2, <2>3 DEF StreakOk
  <2>5. Len(resets) = 1 => RatingOk(s)'
    BY <2>1, <2>2, <2>3 DEF RatingOk
  <2> QED
    BY <2>4, <2>5
<1>2. \A s \in Runners : StreakOk(s)' /\ (Len(resets) = 1 => RatingOk(s)')
  BY <1>1
<1> QED
  BY <1>2 DEF StreakInv, RatingInv

(* A transaction that begins or ends has read and written nothing. *)
LEMMA FreshFollows ==
    ASSUME BatchInv, StreakInv, RatingInv, NEW r \in Runners, NEW q,
           runner' = [runner EXCEPT ![r] = q],
           q.pc # "pay", q.pc # "idle" => q.draft = NoDraft,
           UNCHANGED <<profile, standing, history, resets>>
    PROVE  StreakInv' /\ RatingInv'
<1>1. runner'[r] = q /\ \A s \in Runners : s # r => runner'[s] = runner[s]
  BY DEF BatchInv, ShapeOk
<1>2. LockedProfiles(r)' = {}
  BY <1>1 DEF LockedProfiles, NoDraft
<1>3. StreakOk(r)' /\ RatingOk(r)'
  BY <1>1, <1>2 DEF StreakOk, RatingOk
<1> QED
  BY <1>1, <1>3, RunnerFollows

(* A step that changes neither a runner nor a profile. *)
LEMMA QuietFollows ==
    ASSUME StreakInv, RatingInv, UNCHANGED <<runner, profile, standing, history, resets>>
    PROVE  StreakInv' /\ RatingInv'
<1>1. ASSUME NEW s \in Runners
      PROVE  StreakOk(s)' /\ (Len(resets) = 1 => RatingOk(s)')
  <2>1. /\ LockedProfiles(s)' = LockedProfiles(s)
        /\ Draft(s)' = Draft(s) /\ View(s)' = View(s)
        /\ \A u : Seen(s, u)' = Seen(s, u)
        /\ Batching(s)' <=> Batching(s)
    BY DEF LockedProfiles, Draft, View, Seen, Batching
  <2>2. StreakOk(s) /\ (Len(resets) = 1 => RatingOk(s))
    BY DEF StreakInv, RatingInv
  <2>3. StreakOk(s)'
    BY <2>1, <2>2 DEF StreakOk
  <2>4. Len(resets) = 1 => RatingOk(s)'
    BY <2>1, <2>2 DEF RatingOk
  <2> QED
    BY <2>3, <2>4
<1> QED
  BY <1>1 DEF StreakInv, RatingInv

(* Locking a window reads the profiles as the transaction sees them. *)
LEMMA LockWindowFollows ==
    ASSUME BatchInv, StreakInv, RatingInv, NEW r \in Runners, LockWindow(r)
    PROVE  StreakInv' /\ RatingInv'
<1>1. /\ runner[r].pc = "next" /\ runner'[r].pc \in {"next", "pay"}
      /\ Draft(r)' = Draft(r)
      /\ \A s \in Runners : s # r => runner'[s] = runner[s]
      /\ UNCHANGED <<profile, standing, resets, history>>
  BY LockWindowKeeps
<1>2. /\ LockedProfiles(r)' = LockedProfiles(r) /\ View(r)' = View(r)
      /\ \A u : Seen(r, u)' = Seen(r, u)
      /\ Batching(r)
  BY <1>1 DEF LockedProfiles, Draft, View, Seen, Batching
<1>3. runner'[r].pc = "pay" => \A u \in DOMAIN runner'[r].read : runner'[r].read[u] = Seen(r, u)
  <2> DEFINE d == Head(runner[r].due)
             field == Saved(ranking[d])
             read == [u \in Range(field) |-> Seen(r, u)]
             locked == [pc |-> "pay", due |-> runner[r].due, draft |-> runner[r].draft,
                        field |-> field, read |-> read]
             skipped == [runner[r] EXCEPT !.due = Tail(@)]
  <2>1. /\ DOMAIN runner[r] = Fields("next") /\ DOMAIN runner = Runners
        /\ runner' = IF StillClosed(d) THEN [runner EXCEPT ![r] = locked]
                     ELSE [runner EXCEPT ![r].due = Tail(@)]
    BY DEF LockWindow, BatchInv, ShapeOk
  <2>2. locked.read = read
    OBVIOUS
  <2>3. skipped.pc = "next"
    BY <1>1, <2>1 DEF Fields
  <2>4. runner'[r] = IF StillClosed(d) THEN locked ELSE skipped
    BY <2>1
  <2>5. \A u \in DOMAIN read : read[u] = Seen(r, u)
    OBVIOUS
  <2> HIDE DEF locked, skipped, read
  <2> QED
    BY <2>2, <2>3, <2>4, <2>5
<1>4. StreakOk(r)'
  BY <1>1, <1>2, <1>3, AlikeFacts DEF StreakInv, StreakOk
<1>5. Len(resets) = 1 => RatingOk(r)'
  BY <1>1, <1>2, <1>3 DEF RatingInv, RatingOk
<1> QED
  BY <1>1, <1>4, <1>5, RunnerFollows

(***************************************************************************)
(* A row that is paid: what was read is still what the transaction sees,   *)
(* so assigning the columns that differ makes the row what was computed.   *)
(***************************************************************************)
LEMMA PayRowIs ==
    ASSUME BatchInv, NEW r \in Runners, runner[r].pc = "pay", NEW u \in Players(r)
    PROVE  /\ Alike(runner[r].read[u], Seen(r, u)) =>
                 Alike(PayRow(r, u), NextStreak(runner[r].read[u], PayDay(r)))
           /\ runner[r].read[u].rating = Seen(r, u).rating =>
                 PayRow(r, u).rating = PayAfter(r, u).rating
<1> DEFINE read == runner[r].read[u]
           seen == Seen(r, u)
           new == PayAfter(r, u)
           always == PayGrants(r, u) # {}
<1>1. read \in Profile /\ seen \in Profile /\ new \in Profile /\ PayDay(r) \in Days
      /\ RatingDelta(PayPos(r, u), PaySize(r)) \in Int
  BY PayTypes
<1>2. Alike(new, NextStreak(read, PayDay(r)))
  BY <1>1, AfterType DEF PayAfter
<1>3. PayRow(r, u) = Assigned(seen, new, read, always) /\ always \in BOOLEAN
  BY DEF PayRow
<1> HIDE DEF read, seen, new, always
<1>4. /\ PayRow(r, u).rating = Column(seen, new, read, always, "rating")
      /\ PayRow(r, u).streak = Column(seen, new, read, always, "streak")
      /\ PayRow(r, u).last = Column(seen, new, read, always, "last")
      /\ PayRow(r, u).grace = Column(seen, new, read, always, "grace")
  BY <1>1, <1>3, AssignedType
<1>5. Alike(read, seen) => Alike(PayRow(r, u), new)
  BY <1>4 DEF Alike, Column
<1>6. read.rating = seen.rating => PayRow(r, u).rating = new.rating
  BY <1>4 DEF Column
<1>7. Alike(read, seen) => Alike(PayRow(r, u), NextStreak(read, PayDay(r)))
  BY <1>2, <1>5, AlikeFacts
<1> QED
  BY <1>6, <1>7 DEF read, seen, new

(* A payment folds its day last: it is later than all the days of its view. *)
LEMMA PayFieldFollows ==
    ASSUME BatchInv, StreakInv, RatingInv, NEW r \in Runners, PayField(r)
    PROVE  StreakInv' /\ RatingInv'
<1> DEFINE d == PayDay(r)
           v == PayDraft(r)
<1>1. /\ runner[r].pc = "pay"
      /\ runner' = [runner EXCEPT ![r] = Paid(r)]
      /\ UNCHANGED <<profile, standing, state, resets, history>>
  BY PayFieldIs
<1>2. /\ runner'[r] = Paid(r)
      /\ \A s \in Runners : s # r => runner'[s] = runner[s]
  BY <1>1 DEF BatchInv, ShapeOk
<1>3. runner'[r].pc = "next" /\ Draft(r)' = v
  BY <1>2 DEF Paid, Draft
<1>4. /\ DOMAIN v.profiles = DOMAIN Draft(r).profiles \cup Players(r)
      /\ \A u \in Players(r) : v.profiles[u] = PayRow(r, u)
      /\ \A u \in DOMAIN Draft(r).profiles : u \notin Players(r) =>
           v.profiles[u] = Draft(r).profiles[u]
      /\ DOMAIN v.days = DOMAIN Draft(r).days \cup {d}
      /\ v.days[d] = PayBook(r)
      /\ \A e \in DOMAIN Draft(r).days : e # d => v.days[e] = Draft(r).days[e]
      /\ DOMAIN PayBook(r) = Players(r)
      /\ \A u \in Players(r) : PayBook(r)[u] = PayPlace(r, u)
  BY <1>1, PayDraftIs
<1>5. /\ d \in Days /\ state[d] = "CLOSED"
      /\ \A e \in DOMAIN Draft(r).days : e < d
      /\ \A e \in Days : e < d => state[e] = "SETTLED" \/ e \in DOMAIN Draft(r).days
  BY <1>1, PayDayIs
<1> HIDE DEF d, v
<1>6. d \notin DOMAIN Draft(r).days /\ DOMAIN standing[d] = {}
  <2>1. d \in Int
    BY <1>5, Constants
  <2> QED
    BY <1>5, <2>1 DEF BatchInv, DaysOk
<1>7. \A e \in Days : View(r)[e] = IF e \in DOMAIN Draft(r).days
                                   THEN Draft(r).days[e] ELSE standing[e]
  BY <1>1, ViewIs
<1>8. \A e \in Days : View(r)'[e] = IF e \in DOMAIN v.days THEN v.days[e] ELSE standing[e]
  <2>1. DOMAIN standing = Days
    BY DEF BatchInv, TablesOk
  <2> DEFINE days == v.days
  <2>2. View(r)' = Over(days, standing)
    BY <1>1, <1>3 DEF View
  <2> HIDE DEF days
  <2>3. /\ \A x \in DOMAIN days : Over(days, standing)[x] = days[x]
        /\ \A x \in DOMAIN standing : x \notin DOMAIN days => Over(days, standing)[x] = standing[x]
    BY OverIs
  <2> QED
    BY <2>1, <2>2, <2>3 DEF days
<1> DEFINE old == View(r)
           new == View(r)'
<1>9. /\ \A e \in Days : e # d => new[e] = old[e]
      /\ new[d] = PayBook(r) /\ DOMAIN old[d] = {}
  BY <1>4, <1>5, <1>6, <1>7, <1>8
<1>10. LockedProfiles(r)' = DOMAIN v.profiles
  BY <1>3 DEF LockedProfiles, Draft
<1>11. \A e \in Days : \A u \in DOMAIN old[e] : e < d
  <2> SUFFICES ASSUME NEW e \in Days, NEW u \in DOMAIN old[e] PROVE e < d
    OBVIOUS
  <2>1. CASE e \in DOMAIN Draft(r).days
    BY <1>5, <2>1
  <2>2. CASE e \notin DOMAIN Draft(r).days
    <3>1. state[e] = "SETTLED"
      BY <1>7, <2>2 DEF BatchInv, DaysOk
    <3>2. e \in Int /\ d \in Int
      BY <1>5, Constants
    <3>3. ~(d < e) /\ d # e
      BY <1>5, <3>1 DEF BatchInv, DaysOk
    <3> QED
      BY <3>2, <3>3
  <2> QED
    BY <2>1, <2>2
<1> HIDE DEF old, new
<1>12. ASSUME NEW u \in Players(r)
       PROVE  /\ Alike(v.profiles[u], StreakOf(history[u], new, u))
              /\ Len(resets) = 1 => v.profiles[u].rating = RatingOf(history[u].rating, new, u)
  <2>1. u \in Users /\ u \in DOMAIN runner[r].read /\ runner[r].read[u] \in Profile
    BY <1>1, PayTypes
  <2>2. /\ \A p : StreakOf(p, new, u) = NextStreak(StreakOf(p, old, u), d)
        /\ \A x : RatingOf(x, new, u) = RatingAfter(RatingOf(x, old, u), new[d][u])
    <3>1. \A e \in Days : e # d => SameOn(u, old, new, e)
      BY <1>9 DEF SameOn
    <3>2. u \notin DOMAIN old[d] /\ u \in DOMAIN new[d]
      BY <1>4, <1>9
    <3>3. \A e \in Played(old, u) : e < d
      BY <1>11 DEF Played
    <3> QED
      BY <1>5, <3>1, <3>2, <3>3, LaterFolds
  <2> DEFINE read == runner[r].read[u]
             was == StreakOf(history[u], old, u)
  <2>3. Alike(read, Seen(r, u)) /\ Alike(Seen(r, u), was)
    BY <1>1, <2>1, SeenFollows DEF StreakInv, StreakOk, old
  <2>4. was \in Profile
    <3>1. history[u] \in Profile
      BY <2>1, Constants DEF BatchInv, TablesOk
    <3> QED
      BY <3>1, StreakType
  <2>5. v.profiles[u] = PayRow(r, u) /\ new[d][u] = PayPlace(r, u)
    BY <1>4, <1>9
  <2>6. Alike(PayRow(r, u), NextStreak(read, d))
    BY <1>1, <2>3, PayRowIs DEF d
  <2>7. Alike(NextStreak(read, d), NextStreak(was, d))
    <3> HIDE DEF read, was
    <3>1. read \in Profile /\ Alike(read, was)
      BY <2>1, <2>3, AlikeFacts DEF read
    <3> QED
      BY <1>5, <2>4, <3>1, NextStreakAlike
  <2>8. Alike(v.profiles[u], StreakOf(history[u], new, u))
    <3> HIDE DEF read
    <3> QED
      BY <2>2, <2>5, <2>6, <2>7, AlikeFacts
  <2>9. ASSUME Len(resets) = 1
        PROVE  v.profiles[u].rating = RatingOf(history[u].rating, new, u)
    <3>1. read.rating = Seen(r, u).rating
      BY <1>1, <2>1, <2>9 DEF RatingInv, RatingOk
    <3>2. Seen(r, u).rating = RatingOf(history[u].rating, old, u)
      BY <1>1, <2>1, <2>9, SeenFollows DEF Batching, old
    <3>3. PayRow(r, u).rating = PayAfter(r, u).rating
      BY <1>1, <3>1, PayRowIs
    <3>4. PayPlace(r, u).before = read.rating /\ PayPlace(r, u).after = PayAfter(r, u).rating
      BY DEF PayPlace
    <3>5. RatingAfter(read.rating, PayPlace(r, u)) = PayPlace(r, u).after
      BY <3>4 DEF RatingAfter
    <3> HIDE DEF read
    <3> QED
      BY <2>2, <2>5, <3>1, <3>2, <3>3, <3>4, <3>5
  <2> QED
    BY <2>8, <2>9
<1>13. ASSUME NEW u \in DOMAIN Draft(r).profiles, u \notin Players(r)
       PROVE  /\ Alike(v.profiles[u], StreakOf(history[u], new, u))
              /\ Len(resets) = 1 => v.profiles[u].rating = RatingOf(history[u].rating, new, u)
  <2>1. \A e \in Days : SameOn(u, old, new, e)
    BY <1>4, <1>9, <1>13 DEF SameOn
  <2>2. /\ \A p : StreakOf(p, old, u) = StreakOf(p, new, u)
        /\ \A x : RatingOf(x, old, u) = RatingOf(x, new, u)
    BY <2>1, SameFolds
  <2>3. u \in LockedProfiles(r) /\ Batching(r)
    BY <1>1, <1>13 DEF LockedProfiles, Draft, Batching
  <2>4. v.profiles[u] = Draft(r).profiles[u]
    BY <1>4, <1>13
  <2> QED
    BY <2>2, <2>3, <2>4 DEF StreakInv, StreakOk, RatingInv, RatingOk, old
<1>14. \A u \in DOMAIN v.profiles :
          /\ Alike(v.profiles[u], StreakOf(history[u], new, u))
          /\ Len(resets) = 1 => v.profiles[u].rating = RatingOf(history[u].rating, new, u)
  BY <1>4, <1>12, <1>13
<1>15. StreakOk(r)'
  BY <1>1, <1>3, <1>10, <1>14 DEF StreakOk, new
<1>16. Len(resets) = 1 => RatingOk(r)'
  BY <1>1, <1>3, <1>10, <1>14 DEF RatingOk, new
<1> QED
  BY <1>1, <1>2, <1>15, <1>16, RunnerFollows

(* A reset writes profiles with the streaks they have. *)
LEMMA WriteResetFollows ==
    ASSUME BatchInv, StreakInv, RatingInv, NEW r \in Runners, WriteReset(r),
           runner[r].season \in Int
    PROVE  StreakInv' /\ RatingInv'
<1> DEFINE v == ResetDraft(r)
<1>1. /\ runner[r].pc = "reset"
      /\ runner' = [runner EXCEPT ![r] = Reset(r)]
      /\ UNCHANGED <<profile, standing, resets, history>>
  BY WriteResetIs
<1>2. /\ runner'[r] = Reset(r)
      /\ \A s \in Runners : s # r => runner'[s] = runner[s]
  BY <1>1 DEF BatchInv, ShapeOk
<1>3. runner'[r].pc = "closing" /\ Draft(r)' = v
  BY <1>2 DEF Reset, Draft
<1>4. /\ DOMAIN v.profiles = Users /\ DOMAIN v.days = {}
      /\ \A u \in Users : v.profiles[u] = ResetRow(r, u)
  BY <1>1, ResetDraftIs
<1> HIDE DEF v
<1>5. LockedProfiles(r)' = Users
  BY <1>3, <1>4 DEF LockedProfiles, Draft
<1>6. \A e \in Days : View(r)'[e] = standing[e]
  <2>1. DOMAIN standing = Days
    BY DEF BatchInv, TablesOk
  <2> DEFINE days == v.days
  <2>2. View(r)' = Over(days, standing)
    BY <1>1, <1>3 DEF View
  <2> HIDE DEF days
  <2>3. \A x \in DOMAIN standing : x \notin DOMAIN days => Over(days, standing)[x] = standing[x]
    BY OverIs
  <2> QED
    BY <1>4, <2>1, <2>2, <2>3 DEF days
<1> DEFINE new == View(r)'
<1> HIDE DEF new
<1>7. ASSUME NEW u \in Users
      PROVE  Alike(v.profiles[u], StreakOf(history[u], new, u))
  <2>1. \A e \in Days : SameOn(u, new, standing, e)
    BY <1>6 DEF SameOn, new
  <2>2. \A p : StreakOf(p, new, u) = StreakOf(p, standing, u)
    BY <2>1, SameFolds
  <2>3. Alike(ResetRow(r, u), profile[u])
    BY <1>1, ResetTypes
  <2>4. Alike(profile[u], StreakOf(history[u], standing, u))
    BY DEF StreakInv
  <2> QED
    BY <1>4, <2>2, <2>3, <2>4, AlikeFacts
<1>8. StreakOk(r)'
  BY <1>1, <1>3, <1>5, <1>7 DEF StreakOk, new
<1>9. RatingOk(r)'
  BY <1>3 DEF RatingOk, Batching
<1> QED
  BY <1>1, <1>2, <1>8, <1>9, RunnerFollows

(***************************************************************************)
(* A commit makes the runner's view the standings.  Another runner's view  *)
(* of the players it holds itself, and what it read, stay as they are.     *)
(***************************************************************************)
LEMMA PublishFollows ==
    ASSUME BatchInv, StreakInv, RatingInv, NEW r \in Runners, NEW q,
           Publish(r), runner[r].pc \in {"next", "closing"},
           q.pc # "pay", q.pc # "idle" => q.draft = NoDraft,
           runner' = [runner EXCEPT ![r] = q],
           Len(resets') # 0,
           Len(resets') = 1 => Len(resets) = 1 /\ runner[r].pc = "next",
           UNCHANGED history
    PROVE  StreakInv' /\ RatingInv'
<1> DEFINE w == Draft(r)
           view == View(r)
<1>1. runner'[r] = q /\ \A s \in Runners : s # r => runner'[s] = runner[s]
  BY DEF BatchInv, ShapeOk
<1>2. /\ DOMAIN standing' = Days
      /\ DOMAIN w.profiles \subseteq Users /\ DOMAIN w.days \subseteq Days
      /\ \A u \in Users : profile'[u] = IF u \in DOMAIN w.profiles
                                        THEN w.profiles[u] ELSE profile[u]
      /\ \A e \in Days : standing'[e] = IF e \in DOMAIN w.days THEN w.days[e] ELSE standing[e]
  BY PublishIs
<1>3. \A e \in Days : standing'[e] = view[e]
  BY <1>2, ViewIs
<1>4. ASSUME NEW u
      PROVE  /\ \A p : StreakOf(p, standing', u) = StreakOf(p, view, u)
             /\ \A x : RatingOf(x, standing', u) = RatingOf(x, view, u)
  <2> DEFINE new == standing'
  <2>1. \A e \in Days : SameOn(u, new, view, e)
    BY <1>3 DEF SameOn
  <2> HIDE DEF new, view
  <2>2. /\ \A p : StreakOf(p, new, u) = StreakOf(p, view, u)
        /\ \A x : RatingOf(x, new, u) = RatingOf(x, view, u)
    BY <2>1, SameFolds
  <2> QED
    BY <2>2 DEF new
<1>5. ASSUME NEW u, u \notin DOMAIN w.profiles
      PROVE  /\ \A e \in Days : SameOn(u, view, standing, e)
             /\ \A p : StreakOf(p, view, u) = StreakOf(p, standing, u)
             /\ \A x : RatingOf(x, view, u) = RatingOf(x, standing, u)
  <2>1. \A e \in Days : SameOn(u, view, standing, e)
    BY <1>5, Unlocked
  <2> HIDE DEF view
  <2> QED
    BY <2>1, SameFolds
<1>6. LockedProfiles(r) = DOMAIN w.profiles
  BY DEF LockedProfiles, Draft
<1> HIDE DEF w, view
<1>7. ASSUME NEW u \in Users
      PROVE  /\ Alike(profile'[u], StreakOf(history[u], standing', u))
             /\ Len(resets') = 1 =>
                   profile'[u].rating = RatingOf(history[u].rating, standing', u)
  <2>1. CASE u \in DOMAIN w.profiles
    <3>1. Alike(w.profiles[u], StreakOf(history[u], view, u))
      BY <1>6, <2>1 DEF StreakInv, StreakOk, w, view
    <3>2. Len(resets') = 1 => w.profiles[u].rating = RatingOf(history[u].rating, view, u)
      BY <1>6, <2>1 DEF RatingInv, RatingOk, Batching, w, view
    <3> QED
      BY <1>2, <1>4, <2>1, <3>1, <3>2
  <2>2. CASE u \notin DOMAIN w.profiles
    <3>1. Alike(profile[u], StreakOf(history[u], standing, u))
      BY DEF StreakInv
    <3>2. Len(resets') = 1 => profile[u].rating = RatingOf(history[u].rating, standing, u)
      BY DEF RatingInv
    <3> QED
      BY <1>2, <1>4, <1>5, <2>2, <3>1, <3>2
  <2> QED
    BY <2>1, <2>2
<1>8. StreakOk(r)' /\ RatingOk(r)'
  <2>1. LockedProfiles(r)' = {}
    BY <1>1 DEF LockedProfiles, NoDraft
  <2> QED
    BY <1>1, <2>1 DEF StreakOk, RatingOk
<1>9. ASSUME NEW s \in Runners, s # r, NEW u \in LockedProfiles(s)
      PROVE  /\ \A p : StreakOf(p, View(s)', u) = StreakOf(p, View(s), u)
             /\ \A x : RatingOf(x, View(s)', u) = RatingOf(x, View(s), u)
  <2>1. runner[s].pc # "idle" /\ runner'[s] = runner[s]
    BY <1>1, <1>9 DEF LockedProfiles
  <2>2. u \notin DOMAIN w.profiles
    BY <1>6, <1>9 DEF BatchInv, LockOk
  <2>3. \A e \in Days : SameOn(u, standing', standing, e)
    BY <1>3, <1>5, <2>2 DEF SameOn
  <2> DEFINE days == Draft(s).days
             a == View(s)'
             b == View(s)
  <2>4. \A e \in Days : b[e] = IF e \in DOMAIN days THEN days[e] ELSE standing[e]
    BY <2>1, ViewIs
  <2>5. a = Over(days, standing')
    BY <2>1 DEF View, Draft
  <2> HIDE DEF days, a, b
  <2>6. \A e \in Days : a[e] = IF e \in DOMAIN days THEN days[e] ELSE standing'[e]
    <3> DEFINE new == standing'
    <3>1. a = Over(days, new) /\ DOMAIN new = Days
      BY <1>2, <2>5
    <3> HIDE DEF new
    <3>2. /\ \A x \in DOMAIN days : Over(days, new)[x] = days[x]
          /\ \A x \in DOMAIN new : x \notin DOMAIN days => Over(days, new)[x] = new[x]
      BY OverIs, ZenonT(60)
    <3>3. \A e \in Days : a[e] = IF e \in DOMAIN days THEN days[e] ELSE new[e]
      BY <3>1, <3>2
    <3> QED
      BY <3>3 DEF new
  <2>7. \A e \in Days : SameOn(u, a, b, e)
    BY <2>3, <2>4, <2>6 DEF SameOn
  <2>8. /\ \A p : StreakOf(p, a, u) = StreakOf(p, b, u)
        /\ \A x : RatingOf(x, a, u) = RatingOf(x, b, u)
    BY <2>7, SameFolds
  <2> QED
    BY <2>8 DEF a, b
<1>10. ASSUME NEW s \in Runners, s # r, runner[s].pc = "pay", NEW u \in DOMAIN runner[s].read
       PROVE  /\ Alike(runner[s].read[u], Seen(s, u)')
              /\ Len(resets') = 1 => runner[s].read[u].rating = (Seen(s, u)').rating
  <2>1. /\ Alike(runner[s].read[u], Seen(s, u))
        /\ Len(resets') = 1 => runner[s].read[u].rating = Seen(s, u).rating
    BY <1>10 DEF StreakInv, StreakOk, RatingInv, RatingOk
  <2>2. u \in Users
    BY <1>10 DEF BatchInv, ReadOk, Range
  <2>3. Seen(s, u)' = IF u \in DOMAIN Draft(s).profiles THEN Seen(s, u) ELSE profile'[u]
    BY <1>1, <1>10 DEF Seen, Draft
  <2>4. u \notin DOMAIN Draft(s).profiles => Seen(s, u) = profile[u]
    BY DEF Seen, Draft
  <2>5. CASE u \in DOMAIN w.profiles /\ runner[r].pc = "next"
    <3>1. DOMAIN w.days # {}
      BY <2>5 DEF BatchInv, DraftOk, Batching, w
    <3>2. LockedDays(r) # {}
      BY <2>5, <3>1 DEF LockedDays, Draft, w
    <3>3. LockedDays(s) # {}
      BY <1>10, PayDayIs
    <3> QED
      BY <1>10, <3>2, <3>3, OneLocker
  <2>6. CASE u \in DOMAIN w.profiles /\ runner[r].pc = "closing"
    <3>1. DOMAIN w.days = {}
      BY <2>6 DEF BatchInv, DraftOk, Batching, w
    <3>2. \A e \in Days : SameOn(u, view, standing, e)
      BY <1>2, <1>3, <3>1 DEF SameOn
    <3>3. \A p : StreakOf(p, view, u) = StreakOf(p, standing, u)
      BY <3>2, SameFolds
    <3>4. Alike(w.profiles[u], StreakOf(history[u], view, u))
      BY <1>6, <2>6 DEF StreakInv, StreakOk, w, view
    <3>5. Alike(profile[u], StreakOf(history[u], standing, u))
      BY <2>2 DEF StreakInv
    <3>6. Alike(profile[u], profile'[u])
      BY <1>2, <2>2, <2>6, <3>3, <3>4, <3>5, AlikeFacts
    <3>7. Alike(Seen(s, u), Seen(s, u)')
      BY <2>3, <2>4, <3>6, AlikeFacts
    <3>8. Len(resets') # 1
      BY <2>6
    <3> QED
      BY <2>1, <3>7, <3>8, AlikeFacts
  <2>7. CASE u \notin DOMAIN w.profiles
    <3>1. profile'[u] = profile[u]
      BY <1>2, <2>2, <2>7
    <3> QED
      BY <2>1, <2>3, <2>4, <3>1
  <2> QED
    BY <2>5, <2>6, <2>7
<1>11. ASSUME NEW s \in Runners, s # r
       PROVE  StreakOk(s)' /\ (Len(resets') = 1 => RatingOk(s)')
  <2>1. runner'[s] = runner[s]
    BY <1>1, <1>11
  <2>2. /\ LockedProfiles(s)' = LockedProfiles(s) /\ Draft(s)' = Draft(s)
        /\ Batching(s)' <=> Batching(s)
    BY <2>1 DEF LockedProfiles, Draft, Batching
  <2>3. StreakOk(s) /\ (Len(resets') = 1 => RatingOk(s))
    BY DEF StreakInv, RatingInv
  <2>4. StreakOk(s)'
    BY <1>9, <1>10, <1>11, <2>1, <2>2, <2>3 DEF StreakOk
  <2>5. Len(resets') = 1 => RatingOk(s)'
    BY <1>9, <1>10, <1>11, <2>1, <2>2, <2>3 DEF RatingOk
  <2> QED
    BY <2>4, <2>5
<1>12. \A s \in Runners : StreakOk(s)' /\ (Len(resets') = 1 => RatingOk(s)')
  BY <1>8, <1>11
<1> QED
  BY <1>7, <1>12 DEF StreakInv, RatingInv

(* Every step keeps the invariants of the streaks and the ratings. *)
LEMMA NextFollows ==
    SeasonInv /\ BatchInv /\ StreakInv /\ RatingInv /\ [Next]_vars => StreakInv' /\ RatingInv'
<1> SUFFICES ASSUME SeasonInv, BatchInv, StreakInv, RatingInv, [Next]_vars
             PROVE  StreakInv' /\ RatingInv'
  OBVIOUS
<1> DEFINE Goal == StreakInv' /\ RatingInv'
<1>1. CASE \/ Tick
           \/ \E d \in Days : CloseDay(d)
           \/ \E u \in Users : SaveProfile(u)
           \/ UNCHANGED vars
  <2>1. UNCHANGED <<runner, profile, standing, history, resets>>
    BY <1>1 DEF Tick, CloseDay, SaveProfile, vars, tables
  <2> QED
    BY <2>1, QuietFollows
<1>2. ASSUME NEW r \in Runners, StartBatch(r) PROVE Goal
  <2> DEFINE due == InOrder(DueDays)
             q == [pc |-> "next", due |-> due, draft |-> NoDraft]
  <2>1. runner' = [runner EXCEPT ![r] = q] /\ UNCHANGED <<profile, standing, history, resets>>
    BY <1>2 DEF StartBatch, tables
  <2> HIDE DEF due
  <2>2. q.pc # "pay" /\ (q.pc # "idle" => q.draft = NoDraft)
    OBVIOUS
  <2> HIDE DEF q
  <2> QED
    BY <2>1, <2>2, FreshFollows
<1>3. ASSUME NEW r \in Runners, ClaimSeason(r) PROVE Goal
  <2> DEFINE new == [pc |-> "reset", season |-> EndedSeason, draft |-> NoDraft, read |-> profile]
             q == IF EndedSeason \in Range(resets) THEN Idle ELSE new
  <2>1. runner' = [runner EXCEPT ![r] = q] /\ UNCHANGED <<profile, standing, history, resets>>
    BY <1>3 DEF ClaimSeason, tables
  <2>2. new.pc = "reset" /\ new.draft = NoDraft /\ Idle.pc = "idle"
    BY DEF Idle
  <2> HIDE DEF new
  <2>3. q.pc # "pay" /\ (q.pc # "idle" => q.draft = NoDraft)
    BY <2>2
  <2> HIDE DEF q
  <2> QED
    BY <2>1, <2>3, FreshFollows
<1>4. ASSUME NEW r \in Runners, Die(r) PROVE Goal
  <2>1. /\ runner' = [runner EXCEPT ![r] = Idle]
        /\ UNCHANGED <<profile, standing, history, resets>>
    BY <1>4 DEF Die
  <2>2. Idle.pc = "idle"
    BY DEF Idle
  <2> QED
    BY <2>1, <2>2, FreshFollows
<1>5. ASSUME NEW r \in Runners, WriteReset(r) PROVE Goal
  <2>1. runner[r].season \in Int
    BY <1>5 DEF WriteReset, SeasonInv, ClaimInv, Claims
  <2> QED
    BY <1>5, <2>1, WriteResetFollows
<1>6. ASSUME NEW r \in Runners, CommitBatch(r) PROVE Goal
  <2> DEFINE new == [pc |-> "claim", draft |-> NoDraft]
             q == IF r \in Heartbeats THEN new ELSE Idle
  <2>1. /\ runner[r].pc = "next" /\ Publish(r) /\ resets' = resets /\ history' = history
        /\ runner' = [runner EXCEPT ![r] = q]
    BY <1>6 DEF CommitBatch
  <2>2. new.pc = "claim" /\ new.draft = NoDraft /\ Idle.pc = "idle"
    BY DEF Idle
  <2> HIDE DEF new
  <2>3. q.pc # "pay" /\ (q.pc # "idle" => q.draft = NoDraft)
    BY <2>2
  <2>4. Len(resets') # 0
    BY <2>1 DEF RatingInv
  <2> HIDE DEF q
  <2> QED
    BY <2>1, <2>3, <2>4, PublishFollows
<1>7. ASSUME NEW r \in Runners, CommitReset(r) PROVE Goal
  <2>1. /\ runner[r].pc = "closing" /\ Publish(r) /\ history' = history
        /\ resets' = Append(resets, runner[r].season)
        /\ runner' = [runner EXCEPT ![r] = Idle]
    BY <1>7 DEF CommitReset
  <2>2. Idle.pc = "idle"
    BY DEF Idle
  <2>3. resets \in Seq(Int) /\ runner[r].season \in Int
    BY <2>1 DEF SeasonInv, ClaimInv, Claims
  <2>4. Len(resets') = Len(resets) + 1 /\ Len(resets) \in Nat /\ Len(resets) # 0
    BY <2>1, <2>3 DEF RatingInv
  <2>5. Len(resets') # 0 /\ Len(resets') # 1
    BY <2>4
  <2> QED
    BY <2>1, <2>2, <2>5, PublishFollows
<1>8. ASSUME NEW r \in Runners, Work(r) PROVE Goal
  BY <1>2, <1>3, <1>5, <1>6, <1>7, <1>8, LockWindowFollows, PayFieldFollows DEF Work
<1> QED
  BY <1>1, <1>4, <1>8 DEF Next

(***************************************************************************)
(* The streak a profile shows is the one that settling its days one after  *)
(* the other gives, also when jobs race, catch up over several days or die *)
(* (settlement.py:210).                                                    *)
(***************************************************************************)
THEOREM SettlementStreakFollowsDays == Spec => []StreakFollowsDays
<1>1. StreakInv => StreakFollowsDays
  BY DEF StreakInv, StreakFollowsDays, Alike, StreakOf, PlacedDays, Played
<1> QED
  BY <1>1, InitSeason, NextSeason, InitBatch, NextBatch, InitFollows, NextFollows, PTL DEF Spec

(***************************************************************************)
(* Until a season is reset, each place starts from the rating the place    *)
(* before it ended with, and the last ends with the rating of the profile, *)
(* although ratings are computed from rows nothing has locked yet          *)
(* (settlement.py:207).                                                    *)
(***************************************************************************)
THEOREM SettlementRatingFollowsPlaces == Spec => []RatingFollowsPlaces
<1>1. RatingInv => RatingFollowsPlaces
  BY DEF RatingInv, RatingFollowsPlaces, RatingOf, PlacesOf, Places, PlacedDays, Played
<1> QED
  BY <1>1, InitSeason, NextSeason, InitBatch, NextBatch, InitFollows, NextFollows, PTL DEF Spec
=============================================================================
