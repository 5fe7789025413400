------------------------------ MODULE OfflineSync ------------------------------
(***************************************************************************)
(* One device of Rot Royale that plays without a network, and the server   *)
(* it syncs with: the session (store/session.ts, api/session.ts), the      *)
(* shared token refresh (api/client.ts), the outbox of finished offline    *)
(* plays (offline/db.ts) and its drain (offline/sync.ts), the campaign     *)
(* ladder the device shows offline (offline/campaignLocal.ts), and the     *)
(* server transaction that stores a play (services/offline_sync.py).       *)
(* The network loses requests and replies, the app is killed and started   *)
(* again, tokens expire, and the player signs out and in.                  *)
(***************************************************************************)
EXTENDS Integers, FiniteSets, Sequences, FiniteSetsExt

CONSTANTS Users,        \* the accounts that may sign in on the device
          Owner,        \* the account signed in when the run starts
          NoUser,       \* no account: an absent token, a signed-out session
          MaxLevel,     \* campaign levels of the one world modelled; 0 is practice
          MaxRecords,   \* bound: offline plays finished on the device
          MaxDrops,     \* bound: times the device goes offline
          MaxMishaps    \* bound: requests that fail while online, kills, expiries, sign-outs

ASSUME OfflineAssumption ==
  /\ NoUser \notin Users /\ Owner \in Users
  /\ MaxLevel \in Nat /\ MaxRecords \in Nat
  /\ MaxDrops \in Nat /\ MaxMishaps \in Nat

VARIABLES
  online,    \* store/network.ts: connectivity, as the device knows it
  token,     \* the persisted refresh token, by its account
  status,    \* session status of the store
  access,    \* account of the in-memory access token; NoUser: none, or expired
  me,        \* the profile in the store
  flight,    \* refreshInFlight: the account of the token being refreshed
  restore,   \* restoreSession: [pc, tries, as]
  outbox,    \* ids of the records queued in IndexedDB; ids grow with created_at
  drain,     \* drainOutbox: [pc, todo, as]
  fetches,   \* refreshMe calls under way, by the record that made them; 0: a screen
  play,      \* the offline play on screen: its level, or NoPlay
  prov,      \* levels marked cleared offline, per user id (localStorage)
  ladder,    \* levels cleared in the ladder cached last (one per device)
  late,      \* requests the device gave up on and the server may still serve
  made,      \* every record ever queued, in order: made[i] has client_id i
  entry,     \* entries.offline_client_id: the account that stored record i
  credits,   \* how often record i was settled (coins, progress, sharpness)
  progress,  \* levels the server holds as cleared, per account
  live,      \* accounts whose refresh token the server accepts
  lost,      \* records dropped because the session had ended
  locked,    \* records refused because the server's ladder is locked there
  players,   \* accounts that have signed in on this device
  left       \* what is left of the bounds

session == <<token, status, access, me>>
server  == <<entry, credits, progress>>
history == <<made, lost, locked, players>>
vars == <<online, session, flight, restore, outbox, drain, fetches, play, prov,
          ladder, late, server, live, history, left>>

Ids    == 1..MaxRecords
Levels == 1..MaxLevel
Fetches == [id : 0..MaxRecords, pc : {"sent", "refresh"}, as : Users \cup {NoUser}]
NoPlay == -1
Marks  == {"passed", "failed", "drifted"}  \* what the server will make of the items
Records == [level : 0..MaxLevel, mark : Marks, by : Users]

Off == [pc |-> "off", todo |-> {}, as |-> NoUser]
NoRestore == [pc |-> "off", tries |-> 0, as |-> NoUser]
Relaunch  == [pc |-> "refresh", tries |-> 0, as |-> NoUser]  \* restoreSession begins

\* A call of refreshMe, sent as u; the calls sent, and those that wait for a refresh.
Call(id, u) == [id |-> id, pc |-> "sent", as |-> u]
Calling == {f \in fetches : f.pc = "sent"}
Waiting == {f \in fetches : f.pc = "refresh"}

\* The types. A session has a profile (a profile may outlive its session); whoever waits
\* for a refresh waits for one in flight; a drain that runs has something to send.
TypeOK ==
  /\ online \in BOOLEAN
  /\ {token, access, me, flight} \subseteq Users \cup {NoUser}
  /\ status \in {"bootstrapping", "anonymous", "authenticated"}
  /\ (status = "authenticated") => (me # NoUser)
  /\ restore \in [pc : {"off", "wait", "refresh", "me"}, tries : 0..1, as : Users \cup {NoUser}]
  /\ drain \in [pc : {"off", "sent", "refresh", "resent"},
                todo : SUBSET Ids, as : Users \cup {NoUser}]
  /\ (drain.pc = "off") <=> (drain.todo = {})
  /\ fetches \subseteq Fetches
  /\ (drain.pc = "refresh" \/ restore.pc = "refresh" \/ Waiting # {}) => (flight # NoUser)
  /\ made \in Seq(Records) /\ Len(made) <= MaxRecords
  /\ outbox \subseteq 1..Len(made) /\ drain.todo \subseteq outbox
  /\ play \in (0..MaxLevel) \cup {NoPlay}
  /\ (play # NoPlay) => (status = "authenticated")
  /\ prov \in [Users -> SUBSET Levels] /\ ladder \subseteq Levels
  /\ late \subseteq [id : Ids, as : Users]
  /\ entry \in [Ids -> Users \cup {NoUser}] /\ credits \in [Ids -> Nat]
  /\ progress \in [Users -> SUBSET Levels] /\ live \subseteq Users
  /\ lost \cup locked \subseteq 1..Len(made) /\ players \subseteq Users
  /\ left \in [mishaps : 0..MaxMishaps, drops : 0..MaxDrops]

\* Two accounts have used the device: its outbox and cached ladder carry no owner.
Crossed == Cardinality(players) > 1

\* One of the bounded misfortunes: a failed request, a kill, an expiry, a sign-out.
Mishap ==
  left.mishaps > 0 /\ left' = [mishaps |-> left.mishaps - 1, drops |-> left.drops]

-------------------------------------------------------------------------------
(* The server *)

\* campaign._is_unlocked: the first level, or the one after a cleared level.
IsUnlocked(u, level) == level <= 1 \/ level - 1 \in progress[u]

\* What sync_campaign_offline or sync_practice_offline answers to record i sent as u.
\* A client_id another account has stored breaks the unique index: a 500.
Verdict(u, i) ==
  CASE u = NoUser -> "unauthorised"
    [] u # NoUser /\ entry[i] = u -> "again"
    [] u # NoUser /\ entry[i] # u /\ ~IsUnlocked(u, made[i].level) -> "locked"
    [] u # NoUser /\ entry[i] # u /\ IsUnlocked(u, made[i].level) /\ made[i].mark = "drifted"
         -> "invalid"
    [] OTHER -> IF entry[i] = NoUser THEN "stored" ELSE "conflict"

\* Mutant: the settlement of a known client_id is not idempotent.
Settles_NotIdempotent(u, i) ==
  LET v == Verdict(u, i)
      fresh == v \in {"stored", "again"}
  IN /\ entry' = IF fresh THEN [entry EXCEPT ![i] = u] ELSE entry
     /\ credits' = IF fresh THEN [credits EXCEPT ![i] = @ + 1] ELSE credits
     /\ progress' = IF fresh /\ made[i].level > 0 /\ made[i].mark = "passed"
                    THEN [progress EXCEPT ![u] = @ \cup {made[i].level}] ELSE progress

\* The transaction commits with the reply: entry, settlement and progress together.
Settles(u, i) ==
  LET fresh == Verdict(u, i) = "stored"
  IN /\ entry' = IF fresh THEN [entry EXCEPT ![i] = u] ELSE entry
     /\ credits' = IF fresh THEN [credits EXCEPT ![i] = @ + 1] ELSE credits
     /\ progress' = IF fresh /\ made[i].level > 0 /\ made[i].mark = "passed"
                    THEN [progress EXCEPT ![u] = @ \cup {made[i].level}] ELSE progress

\* A request the device no longer waits for reaches the server.
ServeLate ==
  /\ \E q \in late : Settles(q.as, q.id) /\ late' = late \ {q}
  /\ UNCHANGED <<online, session, flight, restore, outbox, drain, fetches, play,
                 prov, ladder, live, history, left>>

\* The refresh token of u passes its lifetime.
TokenExpires(u) ==
  /\ u \in live /\ u \in {token, flight} /\ Mishap
  /\ live' = live \ {u}
  /\ UNCHANGED <<online, fetches, session, flight, restore, outbox, drain, play,
                 prov, ladder, late, server, history>>

-------------------------------------------------------------------------------
(* Session: api/session.ts, api/client.ts, store/session.ts *)

SetAnonymous == status' = "anonymous" /\ access' = NoUser /\ me' = NoUser /\ play' = NoPlay

\* setAnonymous, then the stored token is cleared.
EndSession == SetAnonymous /\ token' = NoUser

\* The drain with ids still to send: the oldest goes out under the access token of u.
Sends(ids, u) == IF ids = {} THEN Off ELSE [pc |-> "sent", todo |-> ids, as |-> u]

Sending == Min(drain.todo)

\* A transient failure of restoreSession: one retry, then anonymous with the token kept.
\* Mutant: a launch that cannot reach the server clears the token.
RestoreFails_ClearsToken ==
  IF restore.tries = 0
  THEN /\ restore' = [pc |-> "wait", tries |-> 1, as |-> restore.as]
       /\ UNCHANGED <<session, play>>
  ELSE restore' = NoRestore /\ EndSession

RestoreFails ==
  IF restore.tries = 0
  THEN /\ restore' = [pc |-> "wait", tries |-> 1, as |-> restore.as]
       /\ UNCHANGED <<session, play>>
  ELSE restore' = NoRestore /\ SetAnonymous /\ UNCHANGED token

\* The two-second pause is over: api.refresh() again, sharing a refresh in flight.
RestoreRetries ==
  /\ restore.pc = "wait"
  /\ IF flight = NoUser /\ token = NoUser
     THEN restore' = NoRestore /\ EndSession /\ UNCHANGED flight
     ELSE /\ restore' = [pc |-> "refresh", tries |-> restore.tries, as |-> restore.as]
          /\ flight' = IF flight = NoUser THEN token ELSE flight
          /\ UNCHANGED <<session, play>>
  /\ UNCHANGED <<online, fetches, outbox, drain, prov, ladder, late, server, live,
                 history, left>>

\* Mutant: the session is set before the profile has arrived.
RestoreDone_WithoutProfile ==
  /\ restore.pc = "me" /\ online
  /\ access' = restore.as /\ me' = me /\ status' = "authenticated"
  /\ restore' = NoRestore
  /\ UNCHANGED <<online, fetches, token, flight, outbox, drain, play, prov, ladder,
                 late, server, live, history, left>>

\* /me arrived: setSession with the token this restore fetched.
RestoreDone ==
  /\ restore.pc = "me" /\ online
  /\ access' = restore.as /\ me' = restore.as /\ status' = "authenticated"
  /\ restore' = NoRestore
  /\ UNCHANGED <<online, fetches, token, flight, outbox, drain, play, prov, ladder,
                 late, server, live, history, left>>

\* A transient failure is free while offline and counted while online.
Faulty == IF online THEN Mishap ELSE UNCHANGED left

RestoreMeFails ==
  /\ restore.pc = "me" /\ Faulty
  /\ RestoreFails
  /\ UNCHANGED <<online, fetches, flight, outbox, drain, prov, ladder, late, server,
                 live, history>>

\* Whoever waits for the refresh gets the new access token; it is also stored.
RefreshAnswers ==
  /\ flight \in live /\ online
  /\ access' = flight /\ token' = flight /\ flight' = NoUser
  /\ drain' = IF drain.pc = "refresh" THEN [pc |-> "resent", todo |-> drain.todo, as |-> flight]
            ELSE drain
  /\ restore' = IF restore.pc = "refresh" THEN
                   [pc |-> "me", tries |-> restore.tries, as |-> flight]
                ELSE restore
  /\ fetches' = Calling \cup {Call(f.id, flight) : f \in Waiting}
  /\ UNCHANGED <<online, status, me, outbox, play, prov, ladder, late, server, live,
                 history, left>>

\* The refresh is refused. Every waiter ends the session, and the drain takes its
\* ApiError(401) for a refusal of the record, which leaves the outbox.
RefreshRejected ==
  /\ flight \in Users \ live /\ online
  /\ flight' = NoUser
  /\ restore' = IF restore.pc = "refresh" THEN NoRestore ELSE restore
  /\ IF drain.pc = "refresh"
     THEN /\ outbox' = outbox \ {Sending} /\ lost' = lost \cup {Sending}
          /\ drain' = Sends(drain.todo \ {Sending}, NoUser)
     ELSE UNCHANGED <<outbox, lost, drain>>
  /\ fetches' = Calling
  /\ EndSession
  /\ UNCHANGED <<online, prov, ladder, late, server, live, made, locked, players, left>>

\* Mutant: a failed refresh is taken for a refusal of the record being drained.
RefreshFails_Drops ==
  /\ flight # NoUser /\ Faulty
  /\ flight' = NoUser
  /\ drain' = IF drain.pc = "refresh" THEN Sends(drain.todo \ {Sending}, access) ELSE drain
  /\ outbox' = IF drain.pc = "refresh" THEN outbox \ {Sending} ELSE outbox
  /\ fetches' = Calling
  /\ IF restore.pc = "refresh" THEN RestoreFails ELSE UNCHANGED <<restore, session, play>>
  /\ UNCHANGED <<online, prov, ladder, late, server, live, history>>

\* The refresh fails without an answer: nobody signs out, the drain stops.
RefreshFails ==
  /\ flight # NoUser /\ Faulty
  /\ flight' = NoUser
  /\ drain' = IF drain.pc = "refresh" THEN Off ELSE drain
  /\ fetches' = Calling
  /\ IF restore.pc = "refresh" THEN RestoreFails ELSE UNCHANGED <<restore, session, play>>
  /\ UNCHANGED <<online, outbox, prov, ladder, late, server, live, history>>

\* A screen's own request finds the access token expired and refreshes it. (Every
\* refresh in flight has somebody waiting, who ends the session when it is refused.)
OtherCall ==
  /\ status = "authenticated" /\ access = NoUser /\ flight = NoUser /\ online
  /\ flight' = token
  /\ IF token = NoUser THEN EndSession ELSE UNCHANGED <<session, play>>
  /\ UNCHANGED <<online, fetches, restore, outbox, drain, prov, ladder, late, server,
                 live, history, left>>

\* refreshMe by a screen, after practice, a level, a duel or a change of name.
ScreenRefreshes ==
  /\ status = "authenticated" /\ online /\ \A f \in fetches : f.id # 0
  /\ fetches' = fetches \cup {Call(0, access)}
  /\ UNCHANGED <<online, session, flight, restore, outbox, drain, play, prov, ladder,
                 late, server, live, history, left>>

\* A 401: refresh once and resend, or, without a stored token, the session ends.
FetchUnauthorised(f) ==
  /\ f.pc = "sent" /\ f.as = NoUser /\ online
  /\ IF flight = NoUser /\ token = NoUser
     THEN EndSession /\ fetches' = fetches \ {f} /\ UNCHANGED flight
     ELSE /\ fetches' = (fetches \ {f}) \cup {[id |-> f.id, pc |-> "refresh", as |-> NoUser]}
          /\ flight' = IF flight = NoUser THEN token ELSE flight
          /\ UNCHANGED <<session, play>>
  /\ UNCHANGED <<online, restore, outbox, drain, prov, ladder, late, server, live,
                 history, left>>

\* /me arrives: setMe puts the profile in the store whatever became of the session.
MeArrives(f) ==
  /\ f.pc = "sent" /\ f.as # NoUser /\ online
  /\ me' = f.as /\ fetches' = fetches \ {f}
  /\ UNCHANGED <<online, token, status, access, flight, restore, outbox, drain, play,
                 prov, ladder, late, server, live, history, left>>

\* /me fails: nobody catches it, nothing changes.
FetchFails(f) ==
  /\ f.pc = "sent" /\ Faulty
  /\ fetches' = fetches \ {f}
  /\ UNCHANGED <<online, session, flight, restore, outbox, drain, play, prov, ladder,
                 late, server, live, history>>

AccessExpires ==
  /\ access # NoUser /\ Mishap
  /\ access' = NoUser
  /\ UNCHANGED <<online, fetches, token, status, me, flight, restore, outbox, drain,
                 play, prov, ladder, late, server, live, history>>

\* establish after a login, sign-up, guest or social sign-in: the tokens are kept, /me is
\* fetched, the session set. A restore of the session before may still be running.
SignIn(u) ==
  /\ status = "anonymous" /\ online
  /\ token' = u /\ access' = u /\ me' = u /\ status' = "authenticated"
  /\ live' = live \cup {u} /\ players' = players \cup {u}
  /\ UNCHANGED <<online, fetches, flight, restore, outbox, drain, play, prov, ladder, late,
                 server, made, lost, locked, left>>

\* /me fails: the sign-in screen shows an error, but the tokens are kept.
SignInHalfway(u) ==
  /\ status = "anonymous" /\ online /\ Mishap
  /\ token' = u /\ access' = u /\ UNCHANGED <<me, status>>
  /\ live' = live \cup {u} /\ players' = players \cup {u}
  /\ UNCHANGED <<online, fetches, flight, restore, outbox, drain, play, prov, ladder, late,
                 server, made, lost, locked>>

\* signOut clears the token and the store. The outbox stays.
SignOut ==
  /\ status = "authenticated" /\ Mishap
  /\ EndSession
  /\ UNCHANGED <<online, fetches, flight, restore, outbox, drain, prov, ladder,
                 late, server, live, history>>

-------------------------------------------------------------------------------
(* Network edges, foreground, restart: app/App.tsx, app/reconnect.ts, store/network.ts *)

\* drainOutbox on a snapshot of the outbox, unless a drain is running.
StartDrain ==
  drain' = IF drain.pc = "off" THEN Sends(outbox, access) ELSE drain

\* Mutant: a session left anonymous with a token is not picked up again.
RecoverSession_Never == UNCHANGED <<restore, flight>>

\* recoverSessionIfNeeded: anonymous with a stored token restores the session again.
RecoverSession ==
  IF status = "anonymous" /\ token # NoUser /\ restore.pc = "off"
  THEN /\ restore' = Relaunch
       /\ flight' = IF flight = NoUser THEN token ELSE flight
  ELSE UNCHANGED <<restore, flight>>

GoOffline ==
  /\ online /\ left.drops > 0
  /\ online' = FALSE /\ left' = [mishaps |-> left.mishaps, drops |-> left.drops - 1]
  /\ UNCHANGED <<fetches, session, flight, restore, outbox, drain, play, prov,
                 ladder, late, server, live, history>>

\* The offline -> online edge: onReconnect and recoverSessionIfNeeded.
GoOnline ==
  /\ ~online /\ online' = TRUE
  /\ StartDrain /\ RecoverSession
  /\ UNCHANGED <<fetches, session, outbox, play, prov, ladder, late, server, live,
                 history, left>>

\* The app becomes visible while online: onForegroundDrain and recoverSessionIfNeeded,
\* when there is something for them to do.
Foreground ==
  /\ online
  /\ \/ drain.pc = "off" /\ outbox # {}
     \/ status = "anonymous" /\ token # NoUser /\ restore.pc = "off"
  /\ StartDrain /\ RecoverSession
  /\ UNCHANGED <<online, fetches, session, outbox, play, prov, ladder, late, server,
                 live, history, left>>

\* The request in flight, if any, may still be served.
Abandoned == IF drain.pc \in {"sent", "resent"} /\ drain.as # NoUser
             THEN late \cup {[id |-> Sending, as |-> drain.as]} ELSE late

\* The app dies and is started again: memory is gone, storage is not; boot restores
\* the session. A cold start drains nothing by itself.
Restart ==
  /\ Mishap
  /\ access' = NoUser /\ me' = NoUser
  /\ drain' = Off /\ fetches' = {} /\ play' = NoPlay /\ late' = Abandoned
  /\ status' = IF token = NoUser THEN "anonymous" ELSE "bootstrapping"
  /\ restore' = IF token = NoUser THEN NoRestore ELSE Relaunch
  /\ flight' = token
  /\ UNCHANGED <<online, token, outbox, prov, ladder, server, live, history>>

-------------------------------------------------------------------------------
(* The drain: offline/sync.ts over authedRequest of api/client.ts *)

\* A 401: refresh once and resend. Without a stored token that is a definitive 401 at
\* once: the session ends and the record is dropped.
DrainUnauthorised ==
  /\ drain.pc = "sent" /\ drain.as = NoUser /\ online
  /\ IF flight = NoUser /\ token = NoUser
     THEN /\ EndSession
          /\ outbox' = outbox \ {Sending} /\ lost' = lost \cup {Sending}
          /\ drain' = Sends(drain.todo \ {Sending}, NoUser) /\ UNCHANGED flight
     ELSE /\ drain' = [pc |-> "refresh", todo |-> drain.todo, as |-> drain.as]
          /\ flight' = IF flight = NoUser THEN token ELSE flight
          /\ UNCHANGED <<session, play, outbox, lost>>
  /\ UNCHANGED <<online, fetches, restore, prov, ladder, late, server, live, made,
                 locked, players, left>>

\* The server's answer: a success or a 4xx removes the record, a 500 stops the drain. A
\* success also calls onReconciled, which is refreshMe.
DrainAnswered ==
  /\ drain.pc \in {"sent", "resent"} /\ drain.as # NoUser /\ online
  /\ Settles(drain.as, Sending)
  /\ LET v == Verdict(drain.as, Sending)
     IN /\ outbox' = IF v = "conflict" THEN outbox ELSE outbox \ {Sending}
        /\ drain' = IF v = "conflict" THEN Off ELSE Sends(drain.todo \ {Sending}, access)
        /\ locked' = IF v = "locked" THEN locked \cup {Sending} ELSE locked
        /\ fetches' = IF v \in {"stored", "again"} THEN fetches \cup {Call(Sending, access)}
                     ELSE fetches
  /\ UNCHANGED <<online, session, flight, restore, play, prov, ladder, late, live,
                 made, lost, players, left>>

\* Mutant: after a failure the drain goes on with the next record.
DrainFails_GoesOn ==
  /\ drain.pc \in {"sent", "resent"} /\ Faulty
  /\ late' = Abandoned
  /\ drain' = Sends(drain.todo \ {Sending}, access)
  /\ UNCHANGED <<online, fetches, session, flight, restore, outbox, play, prov,
                 ladder, server, live, history>>

\* Mutant: the draining flag is not reset when the drain stops at a failure.
DrainFails_Latched ==
  /\ drain.pc \in {"sent", "resent"} /\ Faulty
  /\ late' = Abandoned
  /\ drain' = [drain EXCEPT !.pc = "latched"]
  /\ UNCHANGED <<online, fetches, session, flight, restore, outbox, play, prov,
                 ladder, server, live, history>>

\* No answer within the deadline, or a 5xx: the record stays, the drain stops.
DrainFails ==
  /\ drain.pc \in {"sent", "resent"} /\ Faulty
  /\ late' = Abandoned
  /\ drain' = Off
  /\ UNCHANGED <<online, fetches, session, flight, restore, outbox, play, prov,
                 ladder, server, live, history>>

-------------------------------------------------------------------------------
(* Offline play: Campaign.tsx, CampaignPlay.tsx, Practice.tsx, campaignLocal.ts *)

\* overlayLadder: a level is open after one the cached ladder or the player's own
\* provisional clears hold as cleared.
ShownUnlocked(level) == level <= 1 \/ level - 1 \in ladder \cup prov[me]

\* Campaign.load online: the fetched ladder is cached for the device.
LoadLadder ==
  /\ status = "authenticated" /\ online /\ access # NoUser
  /\ ladder # progress[access]
  /\ ladder' = progress[access]
  /\ UNCHANGED <<online, fetches, session, flight, restore, outbox, drain, play, prov,
                 late, server, live, history, left>>

\* A play of the level (0: practice) appears on screen, built from cached rounds.
Starts(level) ==
  /\ status = "authenticated" /\ ~online /\ play = NoPlay /\ Len(made) < MaxRecords
  /\ play' = level
  /\ UNCHANGED <<online, fetches, session, flight, restore, outbox, drain, prov,
                 ladder, late, server, live, history, left>>

\* Campaign.startLevel while offline: any cached level the shown ladder has open.
StartLevel(level) == Starts(level) /\ ShownUnlocked(level)

\* Practice started while offline: the cached pool, no gate.
StartPractice == Starts(0)

\* The last Continue queues one record under a new client_id. Nothing starts a drain.
Enqueues(mark) ==
  /\ play # NoPlay /\ Len(made) < MaxRecords
  /\ made' = Append(made, [level |-> play, mark |-> mark, by |-> me])
  /\ outbox' = outbox \cup {Len(made) + 1}
  /\ play' = NoPlay
  /\ UNCHANGED <<online, fetches, session, flight, restore, drain, ladder, late,
                 server, live, lost, locked, players, left>>

\* The level is marked provisionally cleared, passed or not.
FinishLevel(mark) ==
  /\ play \in Levels /\ Enqueues(mark)
  /\ prov' = [prov EXCEPT ![me] = @ \cup {play}]

\* Practice is not passed or failed.
FinishPractice(mark) ==
  play = 0 /\ mark # "failed" /\ Enqueues(mark) /\ UNCHANGED prov

-------------------------------------------------------------------------------
\* A device with one account signed in, the app open and online.
Init ==
  /\ online = TRUE
  /\ token = Owner /\ flight = NoUser /\ players = {Owner} /\ live = {Owner}
  /\ status = "authenticated" /\ access = Owner /\ me = Owner
  /\ restore = NoRestore
  /\ outbox = {} /\ drain = Off /\ fetches = {} /\ play = NoPlay /\ late = {} /\ made = <<>>
  /\ prov = [u \in Users |-> {}] /\ ladder = {}
  /\ entry = [i \in Ids |-> NoUser] /\ credits = [i \in Ids |-> 0]
  /\ progress = [u \in Users |-> {}]
  /\ lost = {} /\ locked = {}
  /\ left = [mishaps |-> MaxMishaps, drops |-> MaxDrops]

Next ==
  \/ ServeLate
  \/ \E u \in Users : TokenExpires(u) \/ SignIn(u) \/ SignInHalfway(u)
  \/ RestoreRetries \/ RestoreDone \/ RestoreMeFails
  \/ RefreshAnswers \/ RefreshRejected \/ RefreshFails
  \/ OtherCall \/ AccessExpires \/ SignOut \/ ScreenRefreshes
  \/ \E f \in fetches : FetchUnauthorised(f) \/ MeArrives(f) \/ FetchFails(f)
  \/ GoOffline \/ GoOnline \/ Foreground \/ Restart
  \/ DrainUnauthorised \/ DrainAnswered \/ DrainFails
  \/ LoadLadder
  \/ StartPractice \/ \E level \in Levels : StartLevel(level)
  \/ \E mark \in Marks : FinishLevel(mark) \/ FinishPractice(mark)

\* Timers and the deadline of a request fire, the server answers a reachable device, the
\* device is not offline for ever, and the player comes back to the app now and then.
Fairness ==
  /\ WF_vars(RestoreRetries) /\ WF_vars(RestoreDone) /\ WF_vars(RestoreMeFails)
  /\ WF_vars(RefreshAnswers) /\ WF_vars(RefreshRejected) /\ WF_vars(RefreshFails)
  /\ WF_vars(DrainUnauthorised) /\ WF_vars(DrainAnswered)
  /\ WF_vars(DrainFails)
  /\ WF_vars(GoOnline) /\ WF_vars(Foreground)

Spec == Init /\ [][Next]_vars /\ Fairness

-------------------------------------------------------------------------------
(* Properties *)

\* However often a play is sent (a lost reply, a kill before the record is removed, a
\* late request served after a retry), it is settled once, and to the account that
\* played it unless two accounts have shared the device.
CreditedOnce ==
  \A i \in 1..Len(made) :
    /\ credits[i] = IF entry[i] = NoUser THEN 0 ELSE 1
    /\ entry[i] \in {NoUser, made[i].by} \/ Crossed

\* A level whose record comes after the passed record of the level below is not refused
\* as locked: the drain keeps the order of play and stops at a failure. The exceptions
\* the code leaves: the level below failed or was refused on sync (the device marks it
\* cleared all the same), its record was dropped with the session, or the accounts crossed.
ChainKept ==
  \A i \in locked :
    \/ Crossed
    \/ \E j \in 1..(i - 1) :
         /\ made[j].level = made[i].level - 1
         /\ made[j].mark # "passed" \/ j \in lost \cup locked

\* A record leaves the outbox only when the server holds the play, has refused it on
\* its merits, or the session is over; never because the network failed.
SafeDeparture ==
  [][\A i \in outbox \ outbox' :
       \/ entry'[i] # NoUser
       \/ drain.as # NoUser /\ Verdict(drain.as, i) \in {"locked", "invalid"}
       \/ token' = NoUser]_vars

\* A network failure never signs the player out: the stored token goes only when the
\* player signs out or when the server no longer accepts it.
TokenKept ==
  [][token # NoUser /\ token' = NoUser =>
       token \notin live \/ SignOut \/ Crossed]_vars

\* A play that waits leaves the outbox in the end (SafeDeparture says how), although
\* nothing but a network edge or a return to the app starts a drain; unless the accounts
\* crossed, where a 500 on the other account's record blocks the queue for ever.
EveryPlayIsJudged == []<>(outbox = {} \/ Crossed)

\* A launch that could not reach the server is repaired: whoever still has an accepted
\* token is signed in again without typing a password.
SessionReturns == []<>(status = "authenticated" \/ token \notin live)
===============================================================================
