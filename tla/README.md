# Rot Royale: TLA+ models and proofs

TLA+ modules for the game-critical parts of Rot Royale: in the backend
(`src/backend/app`) the two currency ledgers, the contest engine, the nightly
settlement and season jobs and the gem duels; across client and server the live
friend duel, the ranked run as its screen plays it, and the offline outbox with
the session it depends on. TLC checks them on small instances. TLAPS proves what
they keep safe for every instance.

Everything here is translated from the Python and TypeScript source. The database is modelled
as the code uses it: PostgreSQL at READ COMMITTED, one transaction per request
that commits or rolls back at the request's boundary (`core/db.py get_session`),
row locks, unique indexes, savepoints, deadlock detection.

## 1. The system

FastAPI services over PostgreSQL, a React/Capacitor client, and jobs started by
cron (`render.yaml`) or by a daemon: a heartbeat every two minutes (`both`:
transitions, settlement, season) and a separate settlement cron.

| Component (code) | State | Operations | What is hard | What makes it correct |
|---|---|---|---|---|
| Coin and gem ledgers (`ledger.py`, `gem_ledger.py`) | ledger rows, cached balance in the profile, unique idempotency keys | `record_coin_delta`, `record_gem_delta` inside any request | concurrent requests on one profile, races for one key, savepoint rollback, deadlock, crash | cache = sum of rows, unbroken `balance_after`, never negative, a key paid once, serializable |
| Contest engine (`contest.py`, `royale_rounds.py`, `scoring.py`) | window, entry, round answers, round results | `enter_contest`, `answer_round`, `submit_entry` | almost everything is read without a lock: double taps, two devices, a resend, the close racing an answer, deploys during a day | one row per round in order, per-round scoring equals batch scoring, nothing lands after the ranking, one second chance, same questions for all |
| Scheduler (`scheduler.py`) | `window.state` | `ensure_windows`, `transition_windows` | a tick that comes late, or never inside the window | every window is closed and settled |
| Settlement (`settlement.py`, `rating.py`, `jobs/`) | standings, rating, streak, gems | `settle_due_windows`, `settle_window` | two runners, several days due at once, death in the middle of a batch, unlocked profile reads | a day is ranked once; ratings, streaks and gems are those of the places |
| Seasons (`seasons.py`) | `season_resets`, rating, duel XP | `apply_season_reset` | two heartbeats at the turn of the month; settlement of the last day | closed once, after its last day |
| Gem duels (`duel.py`, `bots.py`) | match, rounds, stats | create, submit round, finalize, clean up expired | neither a submit nor the clean-up locks the match it reads | an ended duel stays ended and is paid once; entry and pool balance; a duel never hangs |
| Friend duels (`friend_duel.py`, hub and sockets of `api/friend_duel.py`, `LiveDuel.tsx`) | duel row, answers, rounds; sockets in the process; two screens | challenge, accept, cancel, join, answer, expire | sends cross after their commits, reconnects with stale snapshots, leaked or superseded sockets, unlocked status writes | row and rounds agree, what a screen shows was true, nobody waits for what will not come, play goes on |
| Ranked run (`Contest.tsx`, `lib/pacing.ts`, `modules/*`, `contest.py`, `cognition.py`) | phase of the screen, refs, calls under way; entry, instances | enter, round by round, guess, tap, video answers, reveal, answer | a run cannot be entered twice, so every lost reply, unmount or missed verdict may strand it | the report is the run the server recorded, every run comes to its report |
| Cognition (`cognition.py`) | instances | guess, tap, video answer, resolve | two answers of one video at once | an instance that got its answers completes |
| Offline play and session (`offline/*`, `api/session.ts`, `api/client.ts`, `offline_sync.py`) | outbox, provisional ladder, tokens; entries, progress | finish a play, drain, restore, refresh, sign in and out | lost and late replies, kills between send and removal, a token that expires in the drain, two accounts on one device | a play is settled once and for its player, leaves the outbox only for a reason, no silent sign-out |
| Campaign, practice (online) | progress, sessions | play, claim | double claim | each play counted once |
| Shop, unlocks, missions, achievements | inventory, claims | buy, claim | double purchase, double claim | paid and delivered together, once |
| Rot rating, skills, learning | floats per user | update per answer, daily convergence | a convergence run twice | once per day |
| Social, notifications, accounts, content tools, frontend | various | various | exactly-once push gate | outside the core |

How they interact: the contest engine produces submitted entries; settlement
reads them once the window is CLOSED and the grace period is over, moves ratings
and streaks and pays through the gem ledger; the season job reads and rewrites
the same profiles. Every component that pays or charges goes through the
ledgers. The hazards of this code are listed, each at its line, in
`PROJECT.json`, with the properties that cover them.

## 2. The modules

| Module | What it is |
|---|---|
| `AtomicLedger` | what a ledger promises: a request's movements happen in one instant or not at all, a key is paid once, no balance is negative |
| `Ledger` | the code: one action per database round trip of `record_*_delta`, many requests at once. Implements `AtomicLedger` (`SerializesRequests`) |
| `LedgerProofs` | balances, keys and sums of `Ledger`, and that it implements `AtomicLedger` |
| `Contest` | one window, its entries and the requests in flight |
| `ContestProofs` | nothing is submitted into a ranked field; rounds are recorded once, in order, for good, and score as a batch; types |
| `Settlement` | the nightly jobs on several runners, days and a turn of the month |
| `SettlementProofs` | a season is closed once; a day is settled once, and gems, streaks and ratings are those of the standings; types |
| `Duel` | one player's gem duels: overlapping round submits and the clean-up of expired matches |
| `LiveDuel` | one friend duel: the row, the hub, the socket handlers, both screens |
| `OfflineSync` | one device with its outbox and session, and the server that settles what it sends |
| `RankedRun` | one player's ranked run: the screen, its round modules, and the server's side |
| `DuelProofs` | a win is paid once, the gems add up, rounds stay in order, the last one decides, an ended duel stays ended; types |
| `OfflineSyncProofs` | a play is settled once, what may empty the outbox or take the token, and the drain keeps the order of play; types |
| `LiveDuelProofs` | the row of a friend duel agrees with its rounds, the screens show what was true, and nobody is left waiting, whatever sockets and processes do; types |
| `RankedRunProofs` | the report is the run, for every plan of rounds; types |
| `FoldFacts` | what folds over sequences and finite sets do when an element is added: the lemmas the sums, scores, streaks and ratings rest on |
| `MCLedger`, `MCContest`, `MCSettlement`, `MCDuel`, `MCLiveDuel`, `MCOfflineSync`, `MCRankedRun` | the constants of the small instances |

### Ledger

A transaction runs a *program*, the movements its request makes in order. A call
is the actions `AlreadyGranted`/`NotYetGranted` (the idempotency pre-check),
`LockProfile` (`SELECT ... FOR UPDATE` with `populate_existing`), then
`InsertRow`, `LoseInsertRace` (the savepoint conflict) or `Insufficient`.
`Commit`, `Crash` and `BreakDeadlock` end a transaction. `rows`/`kept` are the
table and its committed part, `cache`/`saved` the two versions of the balance in
the profile, `seen` the session's identity map: the copy that would go stale
without `populate_existing`.

### Contest

A request is a record in `req` with its program counter and what it has read:
`Start*` reads and checks, `Judge*` decides what to write, `InsertEntry`/`Flush`
take the row locks and meet the unique indexes, `Commit*` publish, `GiveUp` is
a refusal, an error or a dead process. Between any two of them other requests,
the scheduler, the clock and a content deploy may act. `slot` says whether the window is a
royale day (mixed rounds, a pinned plan, no batch submit) or one of the older
trivia windows (batch submit or per-round answers). Interactive rounds are played
through the cognition endpoints; of those the contest sees only the outcome
(`PlayInteractive`).

Points keep the streak multiplier and the halving of a second chance, doubled
to stay integers; the speed bonus is left out (the worst speed counts). Content
is a version number, so "the same questions" means the same versions.

### Settlement

A runner collects the due days (`StartBatch`), locks one after the other and
reads its field (`LockWindow`), pays it (`PayField`: places, rating, streak with
grace, gems by place and by milestone, standings) and commits the whole batch
(`CommitBatch`). A heartbeat then claims the ended season (`ClaimSeason`), writes
rewards and the soft reset (`WriteReset`) and commits (`CommitReset`). What is
written and not committed is in the runner's `draft`; `Die` drops it. Which
columns an UPDATE writes follows the session: only those assigned a value that
differs from the one loaded, and a granted gem loads the row afresh
(`Assigned`). The clock has two ticks a day, midnight and 00:15 ET.

The field of one window is paid in one step: its locks are all held until the
commit, and interleavings inside the payments are the subject of `Ledger`.

### Duel

A submit is `OpenMatch` (loads the match), `PlayRound` (counts the recorded
rounds, scores, flushes: from here on it holds the row), `PayOut` when the match
is decided (the keyed credit, the statistics are loaded) and `Commit`; a
clean-up is `Scan`, `LoadStats`, `CommitCleanup`. `tx` holds what each has read.
`PlayRound` reads the recorded rounds and writes in one step: if another commit
came between, the unique index refuses the round, which is `GiveUp`. `Update` is
the session's UPDATE again: only the columns that differ from what was loaded.
`Decision` and `TiebreakWinners` are the rules of `duel_logic.py`; answers are
the few ways a round can go (`Plays`), and average speed and the seed leave the
last tie-break open. XP, tier, training counters and bonuses are left out.

### LiveDuel

`duel`, `answered`, `rounds` and `record` are the rows; `room` is the hub's
registry, `handler` the task behind a socket with what it has loaded, `client` the screen. A
handler runs in steps at its awaits: it loads the duel, joins the room, sends
the state; it answers under the row lock, commits, and only then acknowledges or
sends the result, so sends of two handlers cross. Answers to the challenge and
the expiry read a status without a lock and write it later. A socket may drop, a
player may leave, the server may restart with an empty hub, a deadline may pass
(`MaxMishaps`). A send and its receipt are one step; pings, notices, XP, tier and
the perfect and comeback flags are left out.

### OfflineSync

`made` is what was played, `outbox` what still waits, `prov` and `ladder` what
the device shows as cleared; `entry`, `credits` and `progress` are the server's. A drain
takes the list once and sends it in order (`offline/sync.ts`); its request may be
served and its reply lost, or be served long after the device has given up.
Restore, refresh with rotation, sign-in with its `/me`, sign-out, reconnect and
return to the foreground are the actions of the session. `fetches` are the calls of
`refreshMe` under way, one after each reconciled record and one by a screen: nobody
awaits them, a 401 makes them wait for the shared refresh or ends the session, and
their reply puts its profile into the store whenever it comes. `made`, `lost`,
`locked` and `players` are history. Merged: `/me` into the sign-in (with
`SignInHalfway` when it fails), the removal of a record and the sending of the
next, a second restore at once. Levels are those of the downloaded bundle, the
order of `created_at` is that of play, and IndexedDB does not fail.

### RankedRun

The screen is `view`: the phase of the pacing reducer, the round, the refs that
let a round end once (`answered`), the log of verdicts, and the state of the
round's module. `calls` are the calls under way; a call of an unmounted screen is
served and heard by nobody (`Hears`). No module cancels its last timer or call when
it is unmounted, so a round that was over for its player goes on without a screen
(`orphan`, left behind by `NetworkLost`) and may still submit its tap, fetch its
reveal and send its answer. The server's half is `ServeEnter`,
`ServeAnswer`, `ServeGuess`, `ServeTap`, `ServeReveal` and, since two of a
video's three answers are not awaited, `CountAnswers` and `CommitAnswer`: a
transaction counts what it sees and commits later. `Fail` loses a call before,
in or after the server. Whether an answer is right is a choice, and so is
everything that hangs on a clock (a second pick too late is wrong). The flash
round's waves are one step, and the change round's images load at once (the code
waits `LOAD_TIMEOUT_MS` for them at most). A clip ends or fails (`ClipEnds`), or
stalls for ever (`ClipStalls`). A late
serve after the client gave up is a call that is served and then fails. The
deadline of `request()` does not cover the body of a response
(`api/client.ts:790`); here every call is answered or fails.

## 3. The runs

| Run | Instance | What it shows |
|---|---|---|
| `ledger` | 2 users, 3 transactions, 4 programs | the balances, keys and rows stay consistent through lock waits, a deadlock of opposite payment orders, key races, an uncovered debit and crashes; the committed outcome is that of an atomic ledger; every started request ends |
| `contest` | 1 player, 2 requests, 3 rounds (trivia, interactive, memory flash), royale and old schedule | rounds recorded once each and in order, scores equal to a batch re-score, no late submit, nothing recorded is ever replaced, the window settles |
| `contest_retry` (violation) | 1 player, 2 requests, 1 round | two first attempts both read "no second chance yet": the wrong one is offered it, the right one is scored in full |
| `contest_deploy` (violation) | 2 players, 1 round | a deploy between two enters of one Daily Royale: its plan is pinned, the trivia bank is not. (The claim is about the royale; the older trivia windows are not part of it.) |
| `settlement` | 2 users, 2 heartbeats, 2 days with a new month and week between them, one death | ratings follow places, streaks follow days, gems match places, one reset per season, every night gets done |
| `settlement_season` (violation) | 1 heartbeat, 2 days | the month is closed at midnight, a quarter of an hour before its last day is settled |
| `duel` | 1 match of 3 + 1 rounds won by two, 2 requests, 1 heartbeat | the gems add up, a win is paid once although two submits may both finalize it, rounds stay in order, the last round always decides, an ended duel stays ended, every duel ends |
| `duel_cleanup` (violation) | the same, 2 + 1 rounds | the clean-up turns a win that was just paid into an abandoned duel |
| `duel_count` (violation) | the same, 3 + 1 rounds | a submit that overlaps the last one's commit counts on from stale counters: two wins are recorded and the match goes on |
| `live_duel` | 2 players, 2 answers to the challenge, 1 normal and 1 sudden-death round, 1 mishap | rows, rounds and records agree, screens show only what was true, nobody waits in vain except where named, a duel that is played ends |
| `offline` | 2 accounts, 2 levels and practice, 2 plays, 1 time offline, 2 mishaps | a play is settled once, the chain of levels holds, records and tokens go only for a reason, a session has a profile, the queue empties, the session returns |
| `ranked_run` | 6 rounds: trivia, estimate, change, video, flash, trivia; 3 guesses, 3 mishaps | the report is the run the server recorded, rounds that outlive their screen included; every run comes to its report except where named |

The five violations are findings: the source states one thing
(quoted in `PROJECT.json`) and does another.

What the passing runs had to leave open. A property that holds except in cases
the code allows names these cases, and they are worth knowing:

- `RunEnds`: a moment without network unmounts the ranked run (`App.tsx:309`);
  when it is back the screen enters again, is refused, and the run stays in
  progress for ever, although comments in `App.tsx` and
  `useAndroidBackButton.ts` say that nothing may drop a player out of a scored
  run. The same end has a failed enter, answer, tap or video answer, the death
  of the app and the close of the window; `goodwill.py reset_stranded_entries` repairs such
  entries. If the reply to the last guess of an estimate is lost, the module
  guesses on, is refused every time and never reports its end
  (`EstimateRound.tsx:190` has a `finally` and no `catch`): `GuessLost`. A video's
  clip is left only when it has ended or failed to load (`VideoRound.tsx:276-288`);
  one whose autoplay is refused, or whose loading never ends, holds the round for
  ever: `ClipStalled`. Video answers in flight at once may each miss the other
  (`cognition.py:663`).
- `TypeOK` of `OfflineSync`: a session has a profile, but not the other way round, and
  not always its own. The reply of a `refreshMe` that was under way at a sign-out
  sets the profile of a session that is over; one that was under way at a change of
  account puts the first account's profile into the second's session
  (`api/session.ts:138`).
- `ChainKept`, `SafeDeparture`: an offline level is marked cleared whether it was
  passed or not, so the next may be refused on sync and its record is dropped; a
  401 in the drain drops the record too.
- `CreditedOnce`, `EveryPlayIsJudged`: the outbox belongs to the device. After a
  change of account plays are credited to the wrong one, or block the queue for
  ever when the key is already taken.
- `NotLeftWaiting`: nothing tells a socket that the duel expired; a state
  message may be older than its socket's registration; an acknowledgement may
  follow the result. In all of these leaving and coming back helps (`PlayGoesOn`).
  A comment at `friend_duel.py:383` says a resent answer gets the resolved view;
  the round counter's test before it (line 374) refuses the resend.
- `ShownScoreIsReal`: a result that a handler sends late, to a screen that has come
  back meanwhile and stands behind the next one, leaves it on a question that is over
  (`stale`); its answer is refused and it can come back again. This takes three
  rounds and two reconnects and is beyond the `live_duel` instance: an instance of
  2 + 1 rounds with two mishaps showed it. That one is too large to finish (11
  million states were visited with the exception in place); the proof of
  `LiveShownScoreIsReal` covers it and every other.
- `RoundsAgree`, `PlayGoesOn`: an accept read before the duel ended makes it
  active again, since its status is written without a lock.

Why the bounds are enough. The ledger's races are between two transactions on
one user, a deadlock needs two users, and the third transaction lets one of them
be late. An entry belongs to one player and entries share only the window, so one
player with two requests shows the contest's races. The two-player run is there
for what players share. Three rounds are one of each kind, and make a
streak that can grow, break and be read stale. Two days are the least that can
pile up, two runners the least that can race, and the start history (a streak of
two, its grace used, a rating next to a division border, a duel tier) puts the
milestone and the reward tiers in reach. A duel's races are between two
submits, or a submit and the clean-up, of one match; three normal rounds and a
sudden death are the least with every branch of the decision, stale counters
included. `Patience`, `Horizon`, `MaxDeploys` and
`MaxDeaths` bound time, deploys and deaths. A friend duel of one normal round
can end, go to sudden death or be drawn, and two answers to the challenge are
the least that race. Two accounts, two levels above each other and two plays are the least
in which an order, a dependency and a change of account exist (a million states,
under two minutes). A run of
six rounds has every kind of round once and trivia first and last; three guesses give a first, a
middle and a last one; three mishaps let a second chance, a lost guess and a
failed reveal meet in one run (a quarter of a million states). The duel, live duel, offline and ranked runs do not check for
deadlock: a player whose duels, plays or run are over may stop.

Fairness. A request that the server has started goes on (`WF` of `Proceed`):
nothing in the code suspends one for ever, and PostgreSQL ends deadlocks. The
scheduler and the jobs are started again and again (`WF` of `TransitionWindows`,
`Settle`, `Work`), and the clock ticks. A row lock is
granted in the order of its waiters, so a clean-up that waits for a match that
retries keep locking gets its turn (`SF` of `CommitCleanup`); and a heartbeat does
not fail for ever (`<>[][~GiveUp(t)]_vars`), since every beat starts anew. No
fairness of these makes a player play, a process die or content be deployed.
In the client's modules timers run and started requests end (`WF` of the steps that
answer or fail them). `LiveDuel` lets a countdown answer for a player, as the
screen does, and a player whose screen is closed or stuck come back to a duel
that is listed. `OfflineSync` lets the device find a network and be opened again.
`RankedRun` asks only that some step of the screen or the server is taken as long as
one is possible: every wait of the screen has a timer (the splash, the reveal, a
pick, the waves, a tap, a video's questions) or a call that is answered or fails, and
a clip ends, fails or stalls, whichever comes. An estimate has no time limit (it is
"guess-limited rather than time-limited", `EstimateRound.tsx:22`), so it needs an
assumption about the player, stated by itself: an estimate on screen is guessed
(`WF` of `Guess`). That the player starts a run, taps early, leaves an error card or
keeps the app open is not assumed.

## 4. The proofs

Every type invariant, safety invariant and action property of the passing runs is
a theorem for all values of the constants, and so is the refinement of the ledger.
What follows is the argument of each proof, and the invariant it needs.

- `LedgerProofs`: `LedgerTypes` (in particular: no balance below zero),
  `LedgerAuditTrail`, `LedgerGrantedOnce`. The properties are not inductive by
  themselves. The strengthening `IInv` adds: a lock belongs to a running
  transaction and only its rows are uncommitted (`LockInv`); one about to insert
  holds the lock and has the newest balance in hand (`SessionInv`); the newest
  balance is that of the newest row (`NewestInv`); a key lies in its owner's
  ledger (`OwnerInv`). Assumed: every caller builds the user id into the key
  (`LedgerAssumption`), true of every key in the source. From `SessionInv` and
  `NewestInv` an insert continues the audit trail; from `OwnerInv` a key can only
  be taken in one place, which the index guards.
  `LedgerCacheIsSum`: the balance of the newest row is the sum of the rows, because
  every row continues the one before it (`AuditTrail`). `LedgerSerializes`, the
  refinement, needs `SerialInv`: a running transaction is at a movement of its program
  (`ProgramInv`), and what it has done so far is what posting the movements behind
  it, one after the other, does to any balances and keys that agree with the profiles
  and keys it holds locked (`PostedInv`). Others change only what it does not hold, so
  at its commit the whole program is posted to the committed state in one step; every
  other step is a stutter.
- `ContestProofs`: `ContestNoLateSubmit`. The invariant `SettledInv` says that a
  request in flight arrived before the close and is at most `Patience` old, and
  that a window is settled only `Grace` after the close. From `Patience <= Grace`
  (`ContestAssumption`) no request is in flight when a window is settled, so no
  entry changes after the ranking. The assumption is what the code relies on:
  the wait before settlement is 15 minutes and nothing else stops an answer that
  was let in at 23:59:59 and commits late.
  `ContestTypes`, `ContestWellFormed`, `ContestScoreAgrees` and `ContestRecorded`
  share `RecordInv`. Each recorded row is scored from the rows before it (`RowsOk`,
  `EntryOk`). What a request in flight has read without a lock is a beginning of what
  is recorded now (`PriorOk`, `Begins`), what it is about to write goes on from there
  (`JudgedOk`), and once it has flushed a row nothing is recorded after what it read,
  for the unique index makes others wait or refuses them (`FlushedOk`, `Clash`). So
  whatever is committed is the next row. That the batch scorer `BatchRows` gives the
  same rows follows by appending one answer to its fold (`BatchStep`).
  `NothingAssumption` says that an entry is not SQL's NULL.
- `SettlementProofs`: `SettlementSeasonClosedOnce`. The invariant says that a
  runner with an uncommitted claim (`Claims`) is alone and its season is not in
  `season_resets` yet. `SettlementTypes` stands on `BatchInv`. A batch
  goes through its days in the order of their dates and leaves out only settled ones
  (`DueOk`), so a locked day is not settled yet and all earlier ones are settled or
  locked by the same runner; and no row is locked by two (`LockOk`). Hence only one
  runner at a time settles days at all. `SettlementGemsMatchPlaces` (`GemInv`): the
  gems in a draft are new to the ledger (`KeysOk`), are for places in the draft or the
  claimed season (`EarnedOk`), and a place in a draft has its gems there or in the
  ledger (`PaidOk`). `SettlementStreakFollowsDays` (`StreakInv`): what a runner will
  write is what the days explain, folded in the order of their dates over the standings
  as it sees them (`View`), and a profile it read is still current when it pays,
  because no other runner settles meanwhile. A day that is paid is later than those a
  profile has, so it is one more step of the fold (`FoldFacts`).
  `SettlementRatingFollowsPlaces` (`RatingInv`) is the same of the ratings, until the
  season is reset, which is where the property stops. Assumed: `Users` is finite.
- `RankedRunProofs`: `RunReported`, that `ReportIsTheRun` holds for any plan of
  rounds, number of guesses and number of mishaps. The property looks at screen
  and entry only and is not inductive: when a verdict arrives it is right because
  of what its call did to the entry before. `RunInv` adds this: while the screen
  holds, the call of its answer is either not served, and then the entry stands
  at the round, or answered, and then the reply says what was stored
  (`HoldingInv`); a reply exists only for a round or a screen that waits for it, and a
  fresh `ok` of enter comes with an untouched entry (`ReplyInv`); an entry that does not
  exist has no other call under way (`EntryInv`); a round that outlived its screen
  belongs to a run that was entered, and no round is on a screen beside it
  (`OrphanInv`), so its late answer cannot be taken for another round's. `OffRound`,
  `SameRound`, `ServesModule`, `OrphanKeeps` and `AnswerServed` each prove a group of
  steps at once.
  `RunTypes` is the type invariant. It needs two facts about the server
  (`TypeInv`): the tries of an instance stay within its kind because the server
  stops counting, and only a video's answers are counted.
- `DuelProofs`: `DuelWinsPaidOnce`, `DuelRoundsInOrder`, `DuelNeverHangs`,
  `DuelNeverReopened`. Every transaction writes a match it loaded before, so the
  invariant `DuelInv` says what is still true of it by then (`TxOk`): the match
  it loaded was in progress and had no winner (`Loaded`); a submit that holds the
  row holds the next round of it (`RoundHeld`), since a row is locked once
  (`LockInv`) and every commit of a round takes that lock; a credit under way is
  the first, and a win without one was credited by another submit (`Credits`). An
  ended match stays ended because an UPDATE writes only the columns that differ
  from those loaded (`UpdateFields`): the status of a match loaded in progress is
  written with a result or not at all. `DuelGemsAddUp` follows
  from the same invariant: opening a duel takes its entry once, since it was absent,
  and a commit that credits a pool adds one to what was credited, each a step of a sum
  over a finite set. `DuelTypes` is the type invariant. Assumed: a match has a normal
  round, and `Duels` is finite.
- `LiveDuelProofs`: `LiveRoundsAgree`. `RoundsAgree` says too little about the
  status to be inductive: `LiveInv` adds that nothing is played before the
  accept and that after a single accept a match that is active has no winner
  (`Undecided`), so the submit that decides it books the records once. A
  win appended to the rounds is one more in the count of exactly one player
  (`CountAppend`), and no step of a socket, a screen or the process touches the
  tables (`TablesStep`). Assumed: two different players, of whom none is "none".
  `LiveShownScoreIsReal`: the screens need an invariant of their own, `ScreenInv`.
  What a handler has loaded or is about to send was true of the row, and stays part
  of what was played because rounds are only added (`SnapTrue`, `ResultTrue`,
  `Past`). A score on a screen is the score after some n, and n is the next question
  or the one revealed unless the screen is `stale` (`ViewTrue`). That a result which
  is up to date can only reach a screen at the round it ends is the heart of it
  (`PostKeeps`): the hub sends to a handler that has joined (`RoomTrue`), a screen
  that has joined and was sent nothing out of date has answered nothing beyond its
  question (`Fresh`), and the round is over only when both have answered it.
  `LiveNotLeftWaiting` needs two more invariants. `PlaceInv` says where a screen
  is: one in the duel has a socket whose handler has joined (`Placed`) and is the
  one the hub knows (`Registered`), and one in the lobby is alone (`Alone`).
  `AskedInv` says that a screen behind the duel still has the result of its
  question coming, from its own handler or the other player's (`Pending`), and that
  one which waits on the duel's question has its answer recorded or on the way
  (`Answering`); and both have never answered the question of the duel
  (`HalfAnswered`). When nothing is under way, nothing is pending and nothing is on
  the way. `LiveTypes` adds that there are never more accepts than requests, counted
  with those that have read the challenge as pending (`ChallengeInv`), no round
  beyond sudden death (`RoundsInv`), and nothing in the hub but sockets (`RoomInv`).
  Assumed: finitely many requests.
- `OfflineSyncProofs`: `PlaysCreditedOnce`, `DeparturesSafe`, `TokenStays`. The
  invariant `SyncInv` says that whatever is queued, sent or late is a play that
  was made (`QueueInv`), that every account the device remembers in a token, a
  drain or a restore has signed in on it (`AccountsInv`), and that the server's
  entry and credit of a play come into being together (`ServerInv`). If the
  accounts never crossed there is one player, so all of these are the same.
  `OfflineTypes` needs to know who attends a refresh (`Attended`): a drain, a restore
  or a `refreshMe` that waits for new tokens waits for one in flight, so none is left
  waiting when it ends.
  `ChainAlwaysKept`: why a level is refused as locked
  must be traced back through the whole life of the outbox. `ChainInv` does so in
  three parts. The drain sends a prefix of the outbox, oldest first (`DrainOrder`). What has left the
  outbox is stored, refused, dropped or did not pass, and a stored pass is
  progress (`Accounted`). What the device shows as open is cleared on the server
  or stands on a level that was played before (`Grounded`). So when a record
  is refused as locked, the level below was played earlier, is out of the outbox
  already, and is not progress: one of the excuses of `ChainKept` holds. None of
  the facts used is ever lost: progress, entries, players and history only grow.

`FoldFacts` proves what the folds of the community modules do with one more element,
for sequences and for finite sets. These are the inductions over data the results
above need. The library's induction theorems are out of the provers' reach, so it
argues from least elements: a set of numbers with a member has a least one because
`<` is well-founded, and a length or size at which a fact fails first is impossible.
It has the operation as a CONSTANT `Op` and is instantiated for each. The models are
written for this: sums over sets are `SumFunctionOnSet`, several rows are written by
`Over`, a list in the order of dates is `Ascending`, and a field is filtered by the
fold `Saved`.

Only model-checked: liveness under fairness (`RunEnds`, `PlayGoesOn`,
`EveryPlayIsJudged`, `SessionReturns`, `RequestsEnd`, `EveryWindowSettles`,
`EveryNightIsDone`, `EveryDuelEnds`), which is out of the prover's reach. The
properties of the violation runs are false.

## 5. What is not modelled, and the plan

Left out for good: pure generators and scorers of round types (data, no
control), float arithmetic (Glicko-2, skill models), share images and text,
third-party sign-in, push delivery, content tools, the look of the client.
`ensure_windows` only creates or deletes windows without entries. Coins do not
move in a settlement (every contest amount in `core/constants.py` is zero). The
order of commit and response and the race of two friends who challenge each
other at once are listed as hazards without a property. Most of the client's
source is not modelled on purpose: screens that show what the server returns,
texts in five languages, styles, sounds and animation have no control worth a
model, and the lines the modules map are those that decide something.

Next, in this order:

1. Abstract specifications, proved to be implemented: `Duel` over a match that
   ends once and is paid once; `OfflineSync` over a queue that is settled once per
   play; `LiveDuel` over a duel played round by round by two who both answer.
2. `Settlement`: that a day's ranking is the same whichever runner does it.
3. Shop and missions: what is bought is paid, once. Campaign levels and practice
   played online.
4. The client's guest save gate and the hub's stale knowledge of an entry, which
   `RankedRun` leaves out.
