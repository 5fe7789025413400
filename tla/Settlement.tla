----------------------------- MODULE Settlement -----------------------------
(***************************************************************************)
(* The nightly jobs: settle_due_windows and settle_window rank a closed    *)
(* day, move ratings and streaks and pay gems; apply_season_reset closes a *)
(* month.  The heartbeat (jobs/daemon.py, jobs/run.py `both') runs the     *)
(* first and then the second, each in a transaction of its own; a settle   *)
(* cron runs the first alone.  Several runners may be at work at once, and *)
(* each may die at any step.                                               *)
(*                                                                         *)
(* Days are consecutive ET dates.  The clock ticks twice a day: at 2*d the *)
(* window of day d closes (midnight) and day d+1 starts, at 2*d+1 it is    *)
(* due (00:15).  The first state is the midnight that ends day 1.  What a  *)
(* runner has written and not committed is in its `draft'; the rows in     *)
(* there are locked.                                                       *)
(***************************************************************************)
EXTENDS Integers, FiniteSets, SequencesExt

CONSTANTS
    Users,
    Runners,        \* processes that run the jobs
    Heartbeats,     \* those of them that also close the season
    MaxDeaths,      \* bound on the runs that die
    NumDays,
    Week,           \* the ISO week of a day
    Season,         \* the month of a day
    Never,          \* a date that is NULL
    Histories,      \* what the profiles may hold before the first day
    NewGuests       \* who is a guest on the first day

Days == 1..NumDays

(* Dates before the first day occur in the histories. *)
Dates == -6..NumDays

Profile ==
    [rating : Int, streak : Nat, last : Dates \cup {Never},
     grace : Dates \cup {Never}, xp : Nat]

ASSUME SettlementAssumption ==
    /\ IsFiniteSet(Users)
    /\ NumDays \in Nat \ {0}
    /\ Heartbeats \subseteq Runners
    /\ MaxDeaths \in Nat
    /\ Week \in [Dates -> Int]
    /\ Season \in [0..(NumDays + 1) -> Int]
    /\ Histories \subseteq [Users -> Profile]
    /\ NewGuests \subseteq Users

VARIABLES
    clock,
    guests,         \* users that have not saved their profile yet
    ranking,        \* who submitted a day's entry, best first
    state,          \* the state of each day's window
    profile,        \* the committed profiles (and duel stats)
    standing,       \* the standings of each settled day
    gems,           \* the gem ledger: key and amount
    resets,         \* season_resets, in the order of commit
    runner,
    deaths,
    history         \* the profiles before the first day

vars == <<clock, guests, ranking, state, profile, standing, gems, resets,
          runner, deaths, history>>

tables == <<state, profile, standing, gems, resets>>

Place == [place : Nat \ {0}, size : Nat, gems : Nat, before : Int, after : Int]

(* Idempotency keys: starter:u, dr:d:u, streak:u:n:d and season:s:u. *)
StarterKey(u) == <<"starter", u, 0, 0>>
PlaceKey(d, u) == <<"dr", u, d, 0>>
StreakKey(d, u, n) == <<"streak", u, d, n>>
SeasonKey(s, u) == <<"season", u, s, 0>>

NoDraft == [profiles |-> <<>>, days |-> <<>>, gems |-> {}]

Idle == [pc |-> "idle"]

TypeOK ==
    /\ clock \in 2..(2 * NumDays + 1)
    /\ guests \subseteq Users
    /\ \A d \in Days : ranking[d] \in Seq(Users) /\ IsInjective(ranking[d])
    /\ state \in [Days -> {"OPEN", "CLOSED", "SETTLED"}]
    /\ profile \in [Users -> Profile]
    /\ \A d \in Days : \A u \in DOMAIN standing[d] : standing[d][u] \in Place
    /\ \A g \in gems : g.amount \in Nat \ {0}
    /\ \A r \in Runners :
          runner[r].pc \in {"idle", "next", "pay", "claim", "reset", "closing"}
    /\ deaths \in 0..MaxDeaths
    /\ history \in Histories

Init ==
    /\ clock = 2
    /\ guests = NewGuests
    /\ ranking = [d \in Days |-> <<>>]
    /\ state = [d \in Days |-> "OPEN"]
    /\ history \in Histories
    /\ profile = history
    /\ standing = [d \in Days |-> <<>>]
    /\ gems = {}
    /\ resets = <<Season[0]>>
    /\ runner = [r \in Runners |-> Idle]
    /\ deaths = 0

-----------------------------------------------------------------------------
(* The world around the jobs *)

Today == (clock \div 2) + 1

Tick ==
    /\ clock < 2 * NumDays + 1
    /\ \A d \in Days : 2 * d <= clock => state[d] # "OPEN"
    /\ clock' = clock + 1
    /\ UNCHANGED <<guests, ranking, tables, runner, deaths, history>>

(* Some users play the day; the window closes with their entries submitted. *)
CloseDay(d) ==
    /\ state[d] = "OPEN"
    /\ clock = 2 * d
    /\ \E players \in SUBSET Users : \E order \in SetToSeqs(players) :
          ranking' = [ranking EXCEPT ![d] = order]
    /\ state' = [state EXCEPT ![d] = "CLOSED"]
    /\ UNCHANGED <<clock, guests, profile, standing, gems, resets, runner, deaths,
                   history>>

(* A guest saves the profile: from now on an ordinary user. *)
SaveProfile(u) ==
    /\ u \in guests
    /\ guests' = guests \ {u}
    /\ UNCHANGED <<clock, ranking, tables, runner, deaths, history>>

-----------------------------------------------------------------------------
(* The rules *)

(* round(n / 2), ties to the even neighbour as Python does. *)
HalfEven(n) == IF n % 4 = 3 THEN (n + 1) \div 2 ELSE n \div 2

(* round((score - 0.5) * 64), for score = (size - place) / (size - 1). *)
RatingDelta(place, size) ==
    IF size <= 1 THEN 0
    ELSE LET n == 64 * (size - place) - 32 * (size - 1)   \* over size - 1
             m == 2 * n + size - 1                        \* round half up
         IN  IF m % (2 * (size - 1)) = 0 /\ (m \div (2 * (size - 1))) % 2 = 1
             THEN m \div (2 * (size - 1)) - 1
             ELSE m \div (2 * (size - 1))

CeilShare(size, percent) == (size * percent + 99) \div 100

GemsForPlace(place, size) ==
    CASE place = 1 -> 12
      [] place \in {2, 3} -> 7
      [] place > 3 /\ place <= CeilShare(size, 10) -> 4
      [] place > 3 /\ place > CeilShare(size, 10) /\ place <= CeilShare(size, 25) -> 2
      [] place > 3 /\ place > CeilShare(size, 25) /\ place <= CeilShare(size, 50) -> 1
      [] OTHER -> 0

MilestoneGems(n) == CASE n = 3 -> 1 [] n = 5 -> 2 [] n = 7 -> 3 [] OTHER -> 0

GraceAvailable(used, d) == used = Never \/ Week[used] # Week[d]

(* next_streak: the streak fields of a profile after playing day d. *)
NextStreak(p, d) ==
    CASE p.last = d -> p
      [] p.last = d - 1 -> [p EXCEPT !.streak = @ + 1, !.last = d]
      [] p.last = d - 2 /\ p.streak >= 1 /\ GraceAvailable(p.grace, d) ->
            [p EXCEPT !.streak = @ + 1, !.last = d, !.grace = d]
      [] OTHER -> [p EXCEPT !.streak = 1, !.last = d]

(* Season rewards, by division_for_rating and tier_for_xp. *)
DivisionReward(rating) ==
    CASE rating >= 1900 -> 25 [] rating >= 1700 /\ rating < 1900 -> 15
      [] rating >= 1500 /\ rating < 1700 -> 10 [] rating >= 1300 /\ rating < 1500 -> 6
      [] rating >= 1100 /\ rating < 1300 -> 3 [] OTHER -> 0

TierReward(xp) ==
    CASE xp >= 700 -> 12 [] xp >= 300 /\ xp < 700 -> 6
      [] xp >= 100 /\ xp < 300 -> 3 [] OTHER -> 0

SeasonReward(p) == DivisionReward(p.rating) + TierReward(p.xp)

SoftReset(p) ==
    [p EXCEPT !.rating = 1000 + HalfEven(@ - 1000), !.xp = HalfEven(@)]

-----------------------------------------------------------------------------
(* Transactions *)

(* A table with new rows written over the old ones. *)
Over(new, old) ==
    [x \in DOMAIN new \cup DOMAIN old |-> IF x \in DOMAIN new THEN new[x] ELSE old[x]]

(* The days of S, oldest first. *)
Ascending(S) ==
    CHOOSE days \in SetToSeqs(S) : \A m, n \in DOMAIN days : m < n => days[m] < days[n]

(* The window and profile rows a runner has locked. *)
LockedDays(r) ==
    IF runner[r].pc = "idle" THEN {}
    ELSE DOMAIN runner[r].draft.days
         \cup (IF runner[r].pc = "pay" THEN {Head(runner[r].due)} ELSE {})

LockedProfiles(r) ==
    IF runner[r].pc = "idle" THEN {} ELSE DOMAIN runner[r].draft.profiles

Others(r) == Runners \ {r}

(* A transaction sees its own writes over the committed rows. *)
Seen(r, u) ==
    IF u \in DOMAIN runner[r].draft.profiles
    THEN runner[r].draft.profiles[u] ELSE profile[u]

(* Mutant: windows are settled from OPEN, which the transition ended. *)
DueDays_Open == {d \in Days : state[d] = "OPEN" /\ 2 * d + 1 <= clock}

DueDays == {d \in Days : state[d] = "CLOSED" /\ 2 * d + 1 <= clock}

(* Mutant: the query has no ORDER BY; the newest row happens to come first. *)
InOrder_Newest(S) == Reverse(Ascending(S))

InOrder(S) == Ascending(S)

(* settle_due_windows: the due windows, in the order of their dates. *)
StartBatch(r) ==
    /\ runner[r].pc = "idle"
    /\ runner' = [runner EXCEPT ![r] =
                    [pc |-> "next", due |-> InOrder(DueDays), draft |-> NoDraft]]
    /\ UNCHANGED <<clock, guests, ranking, tables, deaths, history>>

(* Mutant: the state is not looked at again under the lock. *)
StillClosed_Trusting(d) == TRUE

StillClosed(d) == state[d] = "CLOSED"

(* The players of a ranking that have saved their profile. *)
Saved(order) ==
    FoldLeft(LAMBDA field, u : IF u \in guests THEN field ELSE Append(field, u),
             <<>>, order)

(***************************************************************************)
(* SELECT ... FOR UPDATE of the next window: skipped if another runner has *)
(* settled it meanwhile, otherwise its field is read, and each player's    *)
(* profile, which nothing locks yet.                                       *)
(***************************************************************************)
LockWindow(r) ==
    /\ runner[r].pc = "next"
    /\ runner[r].due # <<>>
    /\ LET d == Head(runner[r].due)
           field == Saved(ranking[d])
       IN  /\ \A s \in Others(r) : d \notin LockedDays(s)
           /\ runner' =
                IF StillClosed(d)
                THEN [runner EXCEPT ![r] =
                        [pc |-> "pay", due |-> @.due, draft |-> @.draft, field |-> field,
                         read |-> [u \in Range(field) |-> Seen(r, u)]]]
                ELSE [runner EXCEPT ![r].due = Tail(@)]
    /\ UNCHANGED <<clock, guests, ranking, tables, deaths, history>>

(* A row after new values are assigned to an object that was read earlier. *)
Assigned(row, new, read, refreshed) ==
    [f \in DOMAIN row |-> IF new[f] # read[f] \/ (refreshed /\ f \in {"rating", "streak", "last"})
                          THEN new[f] ELSE row[f]]

(* Appends to the draft what is not in the gem ledger under that key yet. *)
Granted(r, wanted) ==
    {g \in wanted : \A h \in gems \cup runner[r].draft.gems : h.key # g.key}

Gem(key, amount) == [key |-> key, amount |-> amount]

(* Mutant: a reward of nothing is written to the ledger as a row of zero. *)
Payable_Zero(g) == TRUE

Payable(g) == g.amount > 0

(* One player's gems for day d, with place n of a field of that size. *)
DayGems(d, u, n, size, streak) ==
    {g \in {Gem(StarterKey(u), 5), Gem(PlaceKey(d, u), GemsForPlace(n, size)),
            Gem(StreakKey(d, u, streak), MilestoneGems(streak))} : Payable(g)}

(***************************************************************************)
(* settle_window, the loop over the field; it waits for the profile rows.  *)
(* Rating and streak are computed from the unlocked read.  A gem that is   *)
(* granted loads the row afresh under its lock; otherwise a column is      *)
(* written only if its value differs from the one read.                    *)
(***************************************************************************)
PayField(r) ==
    /\ runner[r].pc = "pay"
    /\ LET d == Head(runner[r].due)
           field == runner[r].field
           read == runner[r].read
           size == Len(field)
           Pos(u) == CHOOSE n \in 1..size : field[n] = u
           After(u) == [NextStreak(read[u], d) EXCEPT !.rating = @ + RatingDelta(Pos(u), size)]
           Grants(u) == Granted(r, DayGems(d, u, Pos(u), size, After(u).streak))
           Row(u) == Assigned(Seen(r, u), After(u), read[u], Grants(u) # {})
           places == [u \in Range(field) |->
                        [place |-> Pos(u), size |-> size,
                         gems |-> GemsForPlace(Pos(u), size),
                         before |-> read[u].rating, after |-> After(u).rating]]
       IN  /\ \A s \in Others(r) : LockedProfiles(s) \cap Range(field) = {}
           /\ runner' = [runner EXCEPT ![r] =
                [pc |-> "next", due |-> Tail(@.due),
                 draft |->
                   [profiles |-> Over([u \in Range(field) |-> Row(u)], @.draft.profiles),
                    days |-> Over([e \in {d} |-> places], @.draft.days),
                    gems |-> @.draft.gems \cup UNION {Grants(u) : u \in Range(field)}]]]
    /\ UNCHANGED <<clock, guests, ranking, tables, deaths, history>>

Publish(r) ==
    LET draft == runner[r].draft
    IN  /\ profile' = Over(draft.profiles, profile)
        /\ standing' = Over(draft.days, standing)
        /\ state' = Over([d \in DOMAIN draft.days |-> "SETTLED"], state)
        /\ gems' = gems \cup draft.gems

(* The batch commits; a heartbeat goes on to the season. *)
CommitBatch(r) ==
    /\ runner[r].pc = "next"
    /\ runner[r].due = <<>>
    /\ Publish(r)
    /\ runner' = [runner EXCEPT ![r] =
                    IF r \in Heartbeats THEN [pc |-> "claim", draft |-> NoDraft] ELSE Idle]
    /\ UNCHANGED <<clock, guests, ranking, resets, deaths, history>>

(* ended_season_key: the month before the one of today's date. *)
EndedSeason == Season[Today] - 1

(* Mutant: season_resets is looked at first and inserted into last. *)
ClaimFree_Unclaimed(r) == TRUE

(* An insert waits for another transaction's open claim of the same key. *)
ClaimFree(r) == \A s \in Others(r) : runner[s].pc \notin {"reset", "closing"}

(***************************************************************************)
(* apply_season_reset: the claim of the ended season waits for another     *)
(* open claim and does nothing if it is taken; then everybody is read.     *)
(***************************************************************************)
ClaimSeason(r) ==
    /\ runner[r].pc = "claim"
    /\ ClaimFree(r)
    /\ runner' = [runner EXCEPT ![r] =
                    IF EndedSeason \in Range(resets) THEN Idle
                    ELSE [pc |-> "reset", season |-> EndedSeason,
                          draft |-> NoDraft, read |-> profile]]
    /\ UNCHANGED <<clock, guests, ranking, tables, deaths, history>>

Participated(p) == p.rating # 1000 \/ p.xp > 0

(***************************************************************************)
(* Rewards are for the standing that was read.  A granted one loads the    *)
(* profile afresh under its lock, and the rating halved is then that one.  *)
(***************************************************************************)
WriteReset(r) ==
    /\ runner[r].pc = "reset"
    /\ \A s \in Others(r) : LockedProfiles(s) = {}
    /\ LET read == runner[r].read
           Grants(u) == Granted(r, {g \in {Gem(SeasonKey(runner[r].season, u),
                                               SeasonReward(read[u]))} :
                                      Payable(g) /\ Participated(read[u])})
           Known(u) == IF Grants(u) = {} THEN read[u]
                       ELSE [read[u] EXCEPT !.rating = profile[u].rating]
           Row(u) == Assigned(profile[u], SoftReset(Known(u)), Known(u), FALSE)
       IN  runner' = [runner EXCEPT ![r] =
             [pc |-> "closing", season |-> @.season,
              draft |-> [profiles |-> [u \in Users |-> Row(u)], days |-> <<>>,
                         gems |-> UNION {Grants(u) : u \in Users}]]]
    /\ UNCHANGED <<clock, guests, ranking, tables, deaths, history>>

CommitReset(r) ==
    /\ runner[r].pc = "closing"
    /\ Publish(r)
    /\ resets' = Append(resets, runner[r].season)
    /\ runner' = [runner EXCEPT ![r] = Idle]
    /\ UNCHANGED <<clock, guests, ranking, deaths, history>>

(* Mutant: the gem ledger commits its own rows. *)
Surviving_Gems(r) == gems \cup runner[r].draft.gems

Surviving(r) == gems

(* The process dies, or PostgreSQL picks it to break a deadlock. *)
Die(r) ==
    /\ runner[r].pc # "idle"
    /\ deaths < MaxDeaths
    /\ deaths' = deaths + 1
    /\ gems' = Surviving(r)
    /\ runner' = [runner EXCEPT ![r] = Idle]
    /\ UNCHANGED <<clock, guests, ranking, state, profile, standing, resets, history>>

-----------------------------------------------------------------------------
Work(r) ==
    \/ StartBatch(r)
    \/ LockWindow(r)
    \/ PayField(r)
    \/ CommitBatch(r)
    \/ ClaimSeason(r)
    \/ WriteReset(r)
    \/ CommitReset(r)

Next ==
    \/ Tick
    \/ \E d \in Days : CloseDay(d)
    \/ \E u \in Users : SaveProfile(u)
    \/ \E r \in Runners : Work(r) \/ Die(r)

(* Time passes, days close, and the jobs are scheduled over and over again. *)
Fairness ==
    /\ WF_vars(Tick)
    /\ WF_vars(\E d \in Days : CloseDay(d))
    /\ \A r \in Runners : WF_vars(Work(r))

Spec == Init /\ [][Next]_vars

FairSpec == Spec /\ Fairness

-----------------------------------------------------------------------------
Settled(d) == state[d] = "SETTLED"

(* The days on which u got a place, oldest first. *)
PlacedDays(u) == Ascending({d \in Days : u \in DOMAIN standing[d]})

(* The places u got on them. *)
Places(u) == [n \in DOMAIN PlacedDays(u) |-> standing[PlacedDays(u)[n]][u]]

(* The rating after a place that starts from the rating before it, or none. *)
RatingAfter(rating, place) == IF rating = place.before THEN place.after ELSE -1

(***************************************************************************)
(* Until a season is reset, the places u got explain u's rating exactly:   *)
(* each starts from where the one before it ended, also when two jobs find *)
(* the same window due or one of them dies halfway through a field.        *)
(***************************************************************************)
RatingFollowsPlaces ==
    Len(resets) = 1 =>
        \A u \in Users :
            FoldLeft(RatingAfter, history[u].rating, Places(u)) = profile[u].rating

(***************************************************************************)
(* The streak a profile shows is the one that settling u's days one after  *)
(* the other, in the order of their dates, would give: a catch-up over     *)
(* several days and racing jobs leave neither a gap nor a double count.    *)
(***************************************************************************)
StreakFollowsDays ==
    \A u \in Users :
        LET p == FoldLeft(NextStreak, history[u], PlacedDays(u))
        IN  /\ profile[u].streak = p.streak
            /\ profile[u].last = p.last
            /\ profile[u].grace = p.grace

(***************************************************************************)
(* Gems and what they are paid for are committed together: each key once,  *)
(* a place's gems as its standing says, none for a day that is not settled *)
(* or a season that is not closed.                                         *)
(***************************************************************************)
GemsMatchPlaces ==
    /\ \A g, h \in gems : g.key = h.key => g = h
    /\ \A d \in Days : \A u \in DOMAIN standing[d] :
          /\ standing[d][u].gems > 0 => Gem(PlaceKey(d, u), standing[d][u].gems) \in gems
          /\ Gem(StarterKey(u), 5) \in gems
    /\ \A g \in gems :
          CASE g.key[1] \in {"dr", "streak"} -> g.key[2] \in DOMAIN standing[g.key[3]]
            [] g.key[1] = "season" -> g.key[3] \in Range(resets)
            [] OTHER -> \E d \in Days : g.key[2] \in DOMAIN standing[d]

(***************************************************************************)
(* "closed exactly once (a claimed season_resets row)": two heartbeats at  *)
(* the turn of the month do not both halve the ratings.                    *)
(***************************************************************************)
SeasonClosedOnce == IsInjective(resets)

(***************************************************************************)
(* Every day that has ended is settled and its season closed in the end,   *)
(* whatever jobs died and however many days had piled up.                  *)
(***************************************************************************)
EveryNightIsDone ==
    \A d \in Days :
        clock >= 2 * d + 1 ~> Settled(d) /\ Season[d + 1] - 1 \in Range(resets)

(***************************************************************************)
(* "Reward is based on the FINAL standing": when a season is closed, its   *)
(* days are settled.                                                       *)
(***************************************************************************)
SeasonFinal ==
    \A d \in Days : Season[d] \in Range(resets) => Settled(d)
=============================================================================
