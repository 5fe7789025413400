--------------------------- MODULE OfflineSyncProofs ---------------------------
(***************************************************************************)
(* Proofs, for any accounts, levels and bounds, about what the offline     *)
(* plays of a device come to: a play is settled once and for its player, a *)
(* record leaves the outbox for a reason only, no failure of the network   *)
(* takes the stored token away, and the drain of the outbox keeps the      *)
(* order of play. And the types of all of OfflineSync.                     *)
(***************************************************************************)
EXTENDS OfflineSync, FiniteSetTheorems, WellFoundedInduction, TLAPS

Nobody == {NoUser}

\* Every account the device knows of has signed in on it.
AccountsInv ==
  /\ players \subseteq Users /\ IsFiniteSet(players) /\ players # {} /\ live \subseteq players
  /\ {token, access, me, flight} \subseteq players \cup Nobody
  /\ restore.as \in players \cup Nobody /\ drain.as \in players \cup Nobody
  /\ restore.pc = "me" => restore.as \in players
  /\ status = "authenticated" => me \in players
  /\ play # NoPlay => me \in players

\* The two records the device keeps of its own work.
Typed ==
  /\ restore \in [pc : {"off", "wait", "refresh", "me"}, tries : 0..1, as : Users \cup Nobody]
  /\ drain \in [pc : {"off", "sent", "refresh", "resent"}, todo : SUBSET Nat,
                as : Users \cup Nobody]

\* Whatever is queued, sent or late is a play that was made, by somebody who signed in.
QueueInv ==
  /\ made \in Seq([level : Int, mark : Marks, by : Users]) /\ Len(made) <= MaxRecords
  /\ \A i \in 1..Len(made) : made[i].by \in players
  /\ outbox \subseteq 1..Len(made) /\ drain.todo \subseteq 1..Len(made)
  /\ drain.pc # "off" => drain.todo # {}
  /\ \A q \in late : q.id \in 1..Len(made) /\ q.as \in players

\* The server settles a play in the step that stores it.
ServerInv ==
  /\ entry \in [Ids -> Users \cup Nobody] /\ credits \in [Ids -> Nat]
  /\ \A i \in Ids : /\ entry[i] \in players \cup Nobody
                    /\ credits[i] = IF entry[i] = NoUser THEN 0 ELSE 1
                    /\ i > Len(made) => entry[i] = NoUser

\* Whoever a profile is fetched for has signed in.
FetchInv == fetches \subseteq {f \in Fetches : f.as \in players \cup Nobody}

SyncInv == Typed /\ AccountsInv /\ QueueInv /\ ServerInv /\ FetchInv

-------------------------------------------------------------------------------
LEMMA Bounds ==
  /\ NoUser \notin Users /\ Owner \in Users
  /\ MaxLevel \in Nat /\ MaxRecords \in Nat
BY OfflineAssumption DEF OfflineAssumption

LEMMA Least ==
  ASSUME NEW S \in SUBSET Nat, S # {}
  PROVE  Min(S) \in S /\ \A y \in S : Min(S) <= y
<1> DEFINE R == OpToRel(<, Nat)
<1>1. IsWellFoundedOn(R, Nat)
  BY NatLessThanWellFounded
<1>2. \A x, y \in Nat : x < y => <<x, y>> \in R
  BY DEF OpToRel
<1> HIDE DEF R
<1>3. PICK x \in S : \A y \in S : ~(<<y, x>> \in R)
  BY <1>1, WFMin
<1>4. ASSUME NEW y \in S PROVE x <= y
  <2>1. ~(y < x)
    BY <1>2, <1>3
  <2> QED
    BY <2>1
<1>5. \E z \in S : \A y \in S : z <= y
  BY <1>4
<1> QED
  BY <1>5 DEF Min

LEMMA SendingFacts ==
  ASSUME SyncInv, drain.pc # "off"
  PROVE  /\ Sending \in drain.todo /\ Sending \in 1..Len(made) /\ Sending \in Ids
         /\ \A j \in drain.todo : Sending <= j
<1>1. Sending \in drain.todo /\ \A j \in drain.todo : Sending <= j
  BY Least DEF SyncInv, Typed, QueueInv, Sending
<1> QED
  BY <1>1, Bounds DEF SyncInv, QueueInv, Ids

LEMMA VerdictFacts ==
  ASSUME NEW u, NEW i
  PROVE  /\ Verdict(u, i) = "stored" => entry[i] = NoUser /\ u # NoUser
         /\ Verdict(u, i) = "again" => entry[i] = u /\ u # NoUser
         /\ u # NoUser => Verdict(u, i) \in {"stored", "again", "locked", "invalid", "conflict"}
BY DEF Verdict

LEMMA InitSync == Init => SyncInv
<1> SUFFICES ASSUME Init PROVE SyncInv
  OBVIOUS
<1>1. Typed
  BY Bounds DEF Init, Typed, NoRestore, Off, Nobody
<1>2. AccountsInv
  BY Bounds, FS_Singleton DEF Init, AccountsInv, NoRestore, Off, Nobody, NoPlay
<1>3. QueueInv
  BY Bounds DEF Init, QueueInv, Off
<1>4. ServerInv
  BY Bounds DEF Init, ServerInv, Nobody
<1>5. FetchInv
  BY DEF Init, FetchInv
<1> QED
  BY <1>1, <1>2, <1>3, <1>4, <1>5 DEF SyncInv

-------------------------------------------------------------------------------
(* Steps *)

\* The steps of refreshMe once it is called, and of a screen that calls it.
FetchStep ==
  \/ ScreenRefreshes
  \/ \E f \in fetches : FetchUnauthorised(f) \/ MeArrives(f) \/ FetchFails(f)

FetchChange ==
  /\ UNCHANGED <<online, token, outbox, drain, restore, prov, ladder, late, live>>
  /\ UNCHANGED <<server, history>>
  /\ flight' \in {flight, token} /\ access' \in {access, NoUser}
  /\ \/ UNCHANGED <<status, me, play>>
     \/ status' = "anonymous" /\ me' = NoUser /\ play' = NoPlay
     \/ me' \in players /\ UNCHANGED <<status, play>>

LEMMA FetchEffect == SyncInv /\ FetchStep => FetchChange
<1> SUFFICES ASSUME SyncInv, FetchStep PROVE FetchChange
  OBVIOUS
<1> USE DEF FetchChange, session
<1>1. CASE ScreenRefreshes
  BY <1>1 DEF ScreenRefreshes
<1>2. ASSUME NEW f \in fetches, FetchUnauthorised(f) PROVE FetchChange
  BY <1>2 DEF FetchUnauthorised, EndSession, SetAnonymous
<1>3. ASSUME NEW f \in fetches, MeArrives(f) PROVE FetchChange
  BY <1>3 DEF MeArrives, SyncInv, FetchInv, Nobody
<1>4. ASSUME NEW f \in fetches, FetchFails(f) PROVE FetchChange
  BY <1>4 DEF FetchFails
<1> QED
  BY <1>1, <1>2, <1>3, <1>4 DEF FetchStep

LEMMA TypedKeeps == SyncInv /\ [Next]_vars => Typed'
<1> SUFFICES ASSUME SyncInv, [Next]_vars PROVE Typed'
  OBVIOUS
<1> USE Bounds DEF Typed, Nobody
<1> USE DEF SyncInv, AccountsInv, Sends, Off, NoRestore, Relaunch
<1>1. CASE ServeLate
  BY <1>1 DEF ServeLate
<1>2. ASSUME NEW u \in Users, TokenExpires(u) \/ SignIn(u) \/ SignInHalfway(u) PROVE Typed'
  BY <1>2 DEF TokenExpires, SignIn, SignInHalfway
<1>3. CASE RestoreRetries
  BY <1>3 DEF RestoreRetries
<1>4. CASE RestoreDone
  BY <1>4 DEF RestoreDone
<1>5. CASE RestoreMeFails
  BY <1>5 DEF RestoreMeFails, RestoreFails
<1>6. CASE RefreshAnswers
  BY <1>6 DEF RefreshAnswers
<1>7. CASE RefreshRejected
  BY <1>7 DEF RefreshRejected
<1>8. CASE RefreshFails
  BY <1>8 DEF RefreshFails, RestoreFails
<1>9. CASE OtherCall \/ AccessExpires \/ SignOut \/ GoOffline \/ LoadLadder \/ StartPractice
  BY <1>9 DEF OtherCall, AccessExpires, SignOut, GoOffline, LoadLadder, StartPractice, Starts
<1>10. CASE GoOnline
  BY <1>10 DEF GoOnline, StartDrain, RecoverSession, QueueInv
<1>11. CASE Foreground
  BY <1>11 DEF Foreground, StartDrain, RecoverSession, QueueInv
<1>12. CASE Restart
  BY <1>12 DEF Restart
<1>13. CASE DrainUnauthorised
  BY <1>13 DEF DrainUnauthorised
<1>14. CASE DrainAnswered
  BY <1>14 DEF DrainAnswered
<1>15. CASE DrainFails
  BY <1>15 DEF DrainFails
<1>16. ASSUME NEW level \in Levels, StartLevel(level) PROVE Typed'
  BY <1>16 DEF StartLevel, Starts
<1>17. ASSUME NEW mark \in Marks, FinishLevel(mark) \/ FinishPractice(mark) PROVE Typed'
  BY <1>17 DEF FinishLevel, FinishPractice, Enqueues
<1>18. CASE FetchStep
  BY <1>18, FetchEffect DEF FetchChange
<1>19. CASE UNCHANGED vars
  BY <1>19 DEF vars
<1> QED
  BY <1>1, <1>2, <1>3, <1>4, <1>5, <1>6, <1>7, <1>8, <1>9, <1>10, <1>11, <1>12, <1>13,
     <1>14, <1>15, <1>16, <1>17, <1>18, <1>19 DEF Next, FetchStep

LEMMA AccountsKeep == SyncInv /\ [Next]_vars => AccountsInv'
<1> SUFFICES ASSUME SyncInv, [Next]_vars PROVE AccountsInv'
  OBVIOUS
<1> USE Bounds DEF SyncInv, Typed, AccountsInv, Nobody, Sends, Off, NoRestore, Relaunch
<1> USE DEF EndSession, SetAnonymous, session, server, history
<1>1. CASE ServeLate
  BY <1>1 DEF ServeLate, Settles
<1>2. ASSUME NEW u \in Users, TokenExpires(u) PROVE AccountsInv'
  BY <1>2 DEF TokenExpires
<1>3. ASSUME NEW u \in Users, SignIn(u) \/ SignInHalfway(u) PROVE AccountsInv'
  BY <1>3, FS_AddElement DEF SignIn, SignInHalfway
<1>4. CASE RestoreRetries
  BY <1>4 DEF RestoreRetries
<1>5. CASE RestoreDone
  BY <1>5 DEF RestoreDone
<1>6. CASE RestoreMeFails
  BY <1>6 DEF RestoreMeFails, RestoreFails
<1>7. CASE RefreshAnswers
  BY <1>7 DEF RefreshAnswers
<1>8. CASE RefreshRejected
  BY <1>8 DEF RefreshRejected
<1>9. CASE RefreshFails
  BY <1>9 DEF RefreshFails, RestoreFails
<1>10. CASE OtherCall \/ AccessExpires \/ SignOut
  BY <1>10 DEF OtherCall, AccessExpires, SignOut
<1>11. CASE GoOffline \/ LoadLadder
  BY <1>11 DEF GoOffline, LoadLadder
<1>12. CASE StartPractice
  BY <1>12 DEF StartPractice, Starts
<1>13. CASE GoOnline
  BY <1>13 DEF GoOnline, StartDrain, RecoverSession
<1>14. CASE Foreground
  BY <1>14 DEF Foreground, StartDrain, RecoverSession
<1>15. CASE Restart
  BY <1>15 DEF Restart
<1>16. CASE DrainUnauthorised
  BY <1>16 DEF DrainUnauthorised
<1>17. CASE DrainAnswered
  BY <1>17 DEF DrainAnswered, Settles
<1>18. CASE DrainFails
  BY <1>18 DEF DrainFails
<1>19. ASSUME NEW level \in Levels, StartLevel(level) PROVE AccountsInv'
  BY <1>19 DEF StartLevel, Starts
<1>20. ASSUME NEW mark \in Marks, FinishLevel(mark) \/ FinishPractice(mark) PROVE AccountsInv'
  BY <1>20 DEF FinishLevel, FinishPractice, Enqueues
<1>21. CASE FetchStep
  BY <1>21, FetchEffect DEF FetchChange
<1>22. CASE UNCHANGED vars
  BY <1>22 DEF vars
<1> QED
  BY <1>1, <1>2, <1>3, <1>4, <1>5, <1>6, <1>7, <1>8, <1>9, <1>10, <1>11, <1>12, <1>13,
     <1>14, <1>15, <1>16, <1>17, <1>18, <1>19, <1>20, <1>21, <1>22 DEF Next, FetchStep

LEMMA QueueKeeps == SyncInv /\ [Next]_vars => QueueInv'
<1> SUFFICES ASSUME SyncInv, [Next]_vars PROVE QueueInv'
  OBVIOUS
<1>s. drain.pc # "off" => Sending \in 1..Len(made)
  BY SendingFacts
<1>a. /\ drain.as \in players \cup Nobody /\ players \subseteq Users
      /\ play # NoPlay => me \in players
  BY DEF SyncInv, AccountsInv
<1>t. \A S : Sends(S, NoUser).todo = S /\ (Sends(S, NoUser).pc # "off" => S # {})
  BY DEF Sends, Off
<1>q. QueueInv
  BY DEF SyncInv
<1> USE Bounds, <1>q DEF QueueInv, Nobody
<1> USE DEF session, server, history
<1>1. CASE ServeLate
  BY <1>1 DEF ServeLate
<1>2. ASSUME NEW u \in Users, TokenExpires(u) \/ SignIn(u) \/ SignInHalfway(u) PROVE QueueInv'
  BY <1>2 DEF TokenExpires, SignIn, SignInHalfway
<1>3. CASE RestoreRetries \/ RestoreDone \/ RestoreMeFails
  BY <1>3 DEF RestoreRetries, RestoreDone, RestoreMeFails
<1>4. CASE RefreshAnswers
  BY <1>4 DEF RefreshAnswers
<1>5. CASE RefreshRejected
  BY <1>5, <1>t DEF RefreshRejected
<1>6. CASE RefreshFails
  BY <1>6 DEF RefreshFails, Off
<1>7. CASE OtherCall \/ AccessExpires \/ SignOut
  BY <1>7 DEF OtherCall, AccessExpires, SignOut
<1>8. CASE GoOffline \/ LoadLadder \/ StartPractice
  BY <1>8 DEF GoOffline, LoadLadder, StartPractice, Starts
<1>9. CASE GoOnline \/ Foreground
  BY <1>9 DEF GoOnline, Foreground, StartDrain, Sends, Off
<1>10. CASE Restart
  BY <1>10, <1>s, <1>a DEF Restart, Abandoned, Off
<1>11. CASE DrainUnauthorised
  <2>1. CASE flight = NoUser /\ token = NoUser
    <3>1. /\ outbox' = outbox \ {Sending} /\ drain' = Sends(drain.todo \ {Sending}, NoUser)
          /\ UNCHANGED <<made, late, players>>
      BY <1>11, <2>1 DEF DrainUnauthorised
    <3> QED
      BY <1>t, <3>1
  <2>2. CASE ~(flight = NoUser /\ token = NoUser)
    <3>1. /\ drain'.todo = drain.todo /\ drain.todo # {} /\ outbox' = outbox
          /\ UNCHANGED <<made, late, players>>
      BY <1>11, <2>2 DEF DrainUnauthorised
    <3> QED
      BY <3>1
  <2> QED
    BY <2>1, <2>2
<1>12. CASE DrainAnswered
  BY <1>12 DEF DrainAnswered, Sends, Off
<1>13. CASE DrainFails
  BY <1>13, <1>s, <1>a DEF DrainFails, Abandoned, Off
<1>14. ASSUME NEW level \in Levels, StartLevel(level) PROVE QueueInv'
  BY <1>14 DEF StartLevel, Starts
<1>15. ASSUME NEW mark \in Marks, FinishLevel(mark) \/ FinishPractice(mark) PROVE QueueInv'
  <2> DEFINE rec == [level |-> play, mark |-> mark, by |-> me]
  <2>1. /\ made' = Append(made, rec) /\ Len(made) < MaxRecords
        /\ outbox' = outbox \cup {Len(made) + 1}
        /\ play # NoPlay /\ play \in Int
        /\ UNCHANGED <<drain, late, players>>
    BY <1>15 DEF FinishLevel, FinishPractice, Enqueues, Levels
  <2>2. me \in players /\ rec \in [level : Int, mark : Marks, by : Users]
    BY <1>a, <2>1
  <2>3. rec.by \in players
    BY <2>2
  <2> HIDE DEF rec
  <2>4. /\ made' \in Seq([level : Int, mark : Marks, by : Users])
        /\ Len(made') = Len(made) + 1 /\ made'[Len(made) + 1] = rec
        /\ \A i \in 1..Len(made) : made'[i] = made[i]
    BY <2>1, <2>2
  <2>5. \A i \in 1..Len(made') : made'[i].by \in players'
    BY <2>1, <2>3, <2>4
  <2>6. Len(made) \in Nat /\ Len(made') <= MaxRecords
    BY <2>1, <2>4
  <2>7. outbox' \subseteq 1..Len(made') /\ drain'.todo \subseteq 1..Len(made')
    <3>1. 1..Len(made) \subseteq 1..Len(made') /\ Len(made) + 1 \in 1..Len(made')
      BY <2>4, <2>6
    <3>2. outbox \subseteq 1..Len(made) /\ drain'.todo \subseteq 1..Len(made)
      BY <2>1
    <3> HIDE <1>q
    <3> QED
      BY <2>1, <3>1, <3>2
  <2>8. \A q \in late' : q.id \in 1..Len(made') /\ q.as \in players'
    BY <2>1, <2>4, <2>6
  <2>9. drain'.pc # "off" => drain'.todo # {}
    BY <2>1
  <2> QED
    BY <2>4, <2>5, <2>6, <2>7, <2>8, <2>9
<1>16. CASE FetchStep
  BY <1>16, FetchEffect DEF FetchChange
<1>17. CASE UNCHANGED vars
  BY <1>17 DEF vars
<1> QED
  BY <1>1, <1>2, <1>3, <1>4, <1>5, <1>6, <1>7, <1>8, <1>9, <1>10, <1>11, <1>12, <1>13,
     <1>14, <1>15, <1>16, <1>17 DEF Next, FetchStep

\* A settlement stores a play that was made and nobody had stored, and credits it then.
LEMMA SettlesKeeps ==
  ASSUME SyncInv, NEW u \in players, NEW i \in Ids, i \in 1..Len(made),
         Settles(u, i), made' = made, players' = players
  PROVE  ServerInv'
<1> USE Bounds DEF SyncInv, AccountsInv
<1>1. CASE Verdict(u, i) = "stored"
  <2>1. entry[i] = NoUser /\ u # NoUser /\ u \in Users
    BY <1>1, VerdictFacts
  <2>2. /\ entry' = [entry EXCEPT ![i] = u]
        /\ credits' = [credits EXCEPT ![i] = @ + 1]
    BY <1>1 DEF Settles
  <2>3. credits[i] = 0
    BY <2>1 DEF ServerInv
  <2>4. entry' \in [Ids -> Users \cup Nobody] /\ credits' \in [Ids -> Nat]
    BY <2>1, <2>2 DEF ServerInv
  <2>5. ASSUME NEW j \in Ids
        PROVE  /\ entry'[j] \in players \cup Nobody
               /\ credits'[j] = IF entry'[j] = NoUser THEN 0 ELSE 1
               /\ j > Len(made) => entry'[j] = NoUser
    BY <2>1, <2>2, <2>3 DEF ServerInv, QueueInv, Ids
  <2> QED
    BY <2>4, <2>5 DEF ServerInv
<1>2. CASE Verdict(u, i) # "stored"
  BY <1>2 DEF Settles, ServerInv
<1> QED
  BY <1>1, <1>2

LEMMA ServerKeeps == SyncInv /\ [Next]_vars => ServerInv'
<1> SUFFICES ASSUME SyncInv, [Next]_vars PROVE ServerInv'
  OBVIOUS
<1> USE DEF SyncInv, session, server, history
<1>1. CASE ServeLate
  <2>1. PICK q \in late : Settles(q.as, q.id)
    BY <1>1 DEF ServeLate
  <2>2. q.id \in Ids /\ q.id \in 1..Len(made) /\ q.as \in players /\ q.as \in Users
    BY Bounds DEF QueueInv, AccountsInv, Ids
  <2>3. made' = made /\ players' = players
    BY <1>1 DEF ServeLate
  <2> QED
    BY <2>1, <2>2, <2>3, SettlesKeeps
<1>2. CASE DrainAnswered
  <2>1. Settles(drain.as, Sending) /\ made' = made /\ players' = players
    BY <1>2 DEF DrainAnswered
  <2>2. Sending \in 1..Len(made) /\ Sending \in Ids
    BY <1>2, SendingFacts DEF DrainAnswered
  <2>3. drain.as \in players /\ drain.as \in Users
    BY <1>2 DEF DrainAnswered, AccountsInv, Nobody
  <2> QED
    BY <2>1, <2>2, <2>3, SettlesKeeps
<1>3. ASSUME NEW u \in Users, TokenExpires(u) \/ SignIn(u) \/ SignInHalfway(u) PROVE ServerInv'
  BY <1>3 DEF TokenExpires, SignIn, SignInHalfway, ServerInv
<1>4. CASE RestoreRetries \/ RestoreDone \/ RestoreMeFails
  BY <1>4 DEF RestoreRetries, RestoreDone, RestoreMeFails, ServerInv
<1>5. CASE RefreshAnswers \/ RefreshRejected \/ RefreshFails
  BY <1>5 DEF RefreshAnswers, RefreshRejected, RefreshFails, ServerInv
<1>6. CASE OtherCall \/ AccessExpires \/ SignOut
  BY <1>6 DEF OtherCall, AccessExpires, SignOut, ServerInv
<1>7. CASE GoOffline \/ LoadLadder \/ StartPractice
  BY <1>7 DEF GoOffline, LoadLadder, StartPractice, Starts, ServerInv
<1>8. CASE GoOnline \/ Foreground \/ Restart
  BY <1>8 DEF GoOnline, Foreground, Restart, ServerInv
<1>9. CASE DrainUnauthorised \/ DrainFails
  BY <1>9 DEF DrainUnauthorised, DrainFails, ServerInv
<1>10. ASSUME NEW level \in Levels, StartLevel(level) PROVE ServerInv'
  BY <1>10 DEF StartLevel, Starts, ServerInv
<1>11. ASSUME NEW mark \in Marks, FinishLevel(mark) \/ FinishPractice(mark) PROVE ServerInv'
  <2>1. Len(made') = Len(made) + 1 /\ UNCHANGED <<entry, credits, players>>
    BY <1>11 DEF FinishLevel, FinishPractice, Enqueues, QueueInv, server, history
  <2> QED
    BY <2>1 DEF ServerInv, QueueInv, Ids
<1>12. CASE FetchStep
  BY <1>12, FetchEffect DEF FetchChange, ServerInv
<1>13. CASE UNCHANGED vars
  BY <1>13 DEF vars, ServerInv
<1> QED
  BY <1>1, <1>2, <1>3, <1>4, <1>5, <1>6, <1>7, <1>8, <1>9, <1>10, <1>11, <1>12, <1>13
  DEF Next, FetchStep

LEMMA HistoryStep ==
  ASSUME [Next]_vars
  PROVE  players \subseteq players' /\ lost \subseteq lost' /\ locked \subseteq locked'
BY DEF Next, vars, history, ServeLate, TokenExpires, SignIn, SignInHalfway,
   RestoreRetries, RestoreDone, RestoreMeFails, RefreshAnswers, RefreshRejected,
   RefreshFails, OtherCall, ScreenRefreshes, FetchUnauthorised, MeArrives, FetchFails,
   AccessExpires, SignOut, GoOffline, GoOnline, Foreground, Restart, DrainUnauthorised,
   DrainAnswered, DrainFails, LoadLadder, StartPractice, StartLevel, Starts,
   FinishLevel, FinishPractice, Enqueues

LEMMA FetchKeeps == SyncInv /\ [Next]_vars => FetchInv'
<1> SUFFICES ASSUME SyncInv, [Next]_vars PROVE FetchInv'
  OBVIOUS
<1>1. /\ players \subseteq players' /\ access \in players \cup Nobody
      /\ FetchInv /\ Nobody = {NoUser} /\ players \subseteq Users
  BY HistoryStep DEF SyncInv, AccountsInv, Nobody
<1>2. \A i \in 0..MaxRecords, u \in players \cup Nobody :
        Call(i, u) \in {f \in Fetches : f.as \in players \cup Nobody}
  BY <1>1 DEF Call, Fetches
<1>3. CASE fetches' \subseteq fetches
  BY <1>1, <1>3 DEF FetchInv
<1>4. CASE RefreshAnswers
  <2>1. flight \in players
    BY <1>4 DEF RefreshAnswers, SyncInv, AccountsInv
  <2>2. \A f \in Waiting : f.id \in 0..MaxRecords
    BY <1>1 DEF FetchInv, Waiting, Fetches
  <2> QED
    BY <1>1, <1>2, <1>4, <2>1, <2>2 DEF RefreshAnswers, FetchInv, Calling
<1>5. CASE DrainAnswered
  <2>1. Sending \in 0..MaxRecords
    BY <1>5, SendingFacts, Bounds DEF DrainAnswered, Ids
  <2>2. fetches' \subseteq fetches \cup {Call(Sending, access)}
    BY <1>5 DEF DrainAnswered
  <2> QED
    BY <1>1, <1>2, <2>1, <2>2 DEF FetchInv
<1>6. CASE ScreenRefreshes
  <2>1. fetches' = fetches \cup {Call(0, access)} /\ 0 \in 0..MaxRecords
    BY <1>6, Bounds DEF ScreenRefreshes
  <2> QED
    BY <1>1, <1>2, <2>1 DEF FetchInv
<1>7. ASSUME NEW f \in fetches, FetchUnauthorised(f), ~(fetches' \subseteq fetches)
      PROVE  FetchInv'
  <2>1. fetches' \subseteq fetches \cup {[id |-> f.id, pc |-> "refresh", as |-> NoUser]}
    BY <1>7 DEF FetchUnauthorised
  <2>2. f.id \in 0..MaxRecords
    BY <1>1 DEF FetchInv, Fetches
  <2>3. [id |-> f.id, pc |-> "refresh", as |-> NoUser] \in
          {g \in Fetches : g.as \in players \cup Nobody}
    BY <1>1, <2>2 DEF Fetches
  <2> QED
    BY <1>1, <2>1, <2>3 DEF FetchInv
<1>8. \/ fetches' \subseteq fetches \/ RefreshAnswers \/ DrainAnswered \/ ScreenRefreshes
      \/ \E f \in fetches : FetchUnauthorised(f)
  BY DEF Next, vars, ServeLate, TokenExpires, SignIn, SignInHalfway, RestoreRetries,
     RestoreDone, RestoreMeFails, RefreshRejected, RefreshFails, Calling, OtherCall,
     MeArrives, FetchFails, AccessExpires, SignOut, GoOffline, GoOnline, Foreground,
     Restart, DrainUnauthorised, DrainFails, LoadLadder, StartPractice, StartLevel,
     Starts, FinishLevel, FinishPractice, Enqueues
<1> QED
  BY <1>3, <1>4, <1>5, <1>6, <1>7, <1>8

LEMMA SyncStep == SyncInv /\ [Next]_vars => SyncInv'
BY TypedKeeps, AccountsKeep, QueueKeeps, ServerKeeps, FetchKeeps DEF SyncInv

LEMMA SyncAlways == Spec => []SyncInv
BY InitSync, SyncStep, PTL DEF Spec

-------------------------------------------------------------------------------
(* Theorems *)

LEMMA OneAccount ==
  ASSUME SyncInv, ~Crossed
  PROVE  \A u, v \in players : u = v
<1>1. IsFiniteSet(players) /\ players # {}
  BY DEF SyncInv, AccountsInv
<1>2. Cardinality(players) \in Nat /\ Cardinality(players) # 0
  BY <1>1, FS_CardinalityType, FS_EmptySet
<1>3. Cardinality(players) = 1
  BY <1>2 DEF Crossed
<1> QED
  BY <1>1, <1>3, FS_Singleton

\* However often a play is sent, by whichever retry, kill or late request, it is settled
\* once and for the account that played it, unless two accounts shared the device
\* (offline_sync.py's lookup of client_id before it settles).
THEOREM PlaysCreditedOnce == Spec => []CreditedOnce
<1>1. SyncInv => CreditedOnce
  <2> SUFFICES ASSUME SyncInv, NEW i \in 1..Len(made)
               PROVE  /\ credits[i] = IF entry[i] = NoUser THEN 0 ELSE 1
                      /\ entry[i] \in {NoUser, made[i].by} \/ Crossed
    BY DEF CreditedOnce
  <2>1. i \in Ids /\ made[i].by \in players
    BY Bounds DEF SyncInv, QueueInv, Ids
  <2>2. /\ entry[i] \in players \cup Nobody
        /\ credits[i] = IF entry[i] = NoUser THEN 0 ELSE 1
    BY <2>1 DEF SyncInv, ServerInv
  <2> QED
    BY <2>1, <2>2, OneAccount DEF Nobody
<1> QED
  BY <1>1, SyncAlways, PTL

LEMMA DepartureStep ==
  ASSUME SyncInv, [Next]_vars, NEW i \in outbox \ outbox'
  PROVE  \/ entry'[i] # NoUser
         \/ drain.as # NoUser /\ Verdict(drain.as, i) \in {"locked", "invalid"}
         \/ token' = NoUser
<1>1. CASE RefreshRejected \/ DrainUnauthorised
  BY <1>1 DEF RefreshRejected, DrainUnauthorised, EndSession
<1>2. CASE DrainAnswered
  <2>1. /\ Settles(drain.as, Sending) /\ drain.as # NoUser /\ drain.pc # "off"
        /\ Verdict(drain.as, Sending) # "conflict" /\ i = Sending
    BY <1>2 DEF DrainAnswered
  <2>2. Sending \in Ids /\ entry \in [Ids -> Users \cup Nobody]
    BY <2>1, SendingFacts DEF SyncInv, ServerInv
  <2>3. CASE Verdict(drain.as, Sending) = "stored"
    BY <2>1, <2>2, <2>3 DEF Settles
  <2>4. CASE Verdict(drain.as, Sending) = "again"
    BY <2>1, <2>2, <2>4, VerdictFacts DEF Settles
  <2> QED
    BY <2>1, <2>3, <2>4, VerdictFacts
<1>3. CASE UNCHANGED outbox
  BY <1>3
<1>4. ASSUME NEW mark \in Marks, FinishLevel(mark) \/ FinishPractice(mark)
      PROVE  outbox \subseteq outbox'
  BY <1>4 DEF FinishLevel, FinishPractice, Enqueues
<1>5. \/ RefreshRejected \/ DrainUnauthorised \/ DrainAnswered \/ UNCHANGED outbox
      \/ \E mark \in Marks : FinishLevel(mark) \/ FinishPractice(mark)
  BY DEF Next, vars, ServeLate, TokenExpires, SignIn, SignInHalfway, RestoreRetries,
     RestoreDone, RestoreMeFails, RefreshAnswers, RefreshFails, OtherCall,
     ScreenRefreshes, FetchUnauthorised, MeArrives, FetchFails, AccessExpires, SignOut,
     GoOffline, GoOnline, Foreground, Restart, DrainFails, LoadLadder, StartPractice,
     StartLevel, Starts
<1> QED
  BY <1>1, <1>2, <1>3, <1>4, <1>5

\* A record leaves the outbox because the server holds the play, refused it on its
\* merits, or the session is over, and never because a request failed (drainOutbox).
THEOREM DeparturesSafe == Spec => SafeDeparture
<1>1. SyncInv /\ [Next]_vars =>
        \A i \in outbox \ outbox' :
           \/ entry'[i] # NoUser
           \/ drain.as # NoUser /\ Verdict(drain.as, i) \in {"locked", "invalid"}
           \/ token' = NoUser
  BY DepartureStep
<1> QED
  BY <1>1, SyncAlways, PTL DEF Spec, SafeDeparture

LEMMA TokenStep ==
  ASSUME SyncInv, [Next]_vars, token # NoUser, token' = NoUser
  PROVE  token \notin live \/ SignOut \/ Crossed
<1>1. CASE RefreshRejected
  <2>1. flight \in Users \ live /\ flight \in players /\ token \in players
    BY <1>1, Bounds DEF RefreshRejected, SyncInv, AccountsInv, Nobody
  <2> QED
    BY <2>1, OneAccount
<1>2. CASE SignOut
  BY <1>2
<1>3. ASSUME NEW u \in Users, SignIn(u) \/ SignInHalfway(u) PROVE FALSE
  BY <1>3, Bounds DEF SignIn, SignInHalfway
<1>4. CASE RestoreRetries \/ OtherCall \/ DrainUnauthorised
  BY <1>4 DEF RestoreRetries, OtherCall, DrainUnauthorised, session
<1>5. ASSUME RefreshAnswers PROVE FALSE
  BY <1>5, Bounds DEF RefreshAnswers, SyncInv, AccountsInv
<1>6. ASSUME FetchStep PROVE FALSE
  BY <1>6, FetchEffect DEF FetchChange
<1>7. \/ RefreshRejected \/ RefreshAnswers \/ SignOut \/ FetchStep
      \/ (\E u \in Users : SignIn(u) \/ SignInHalfway(u))
      \/ RestoreRetries \/ OtherCall \/ DrainUnauthorised \/ UNCHANGED token
  BY DEF Next, FetchStep, vars, session, ServeLate, TokenExpires, RestoreDone,
     RestoreMeFails, RestoreFails, RefreshFails, AccessExpires, GoOffline, GoOnline,
     Foreground, Restart, DrainAnswered, DrainFails, LoadLadder, StartPractice,
     StartLevel, Starts, FinishLevel, FinishPractice, Enqueues
<1> QED
  BY <1>1, <1>2, <1>3, <1>4, <1>5, <1>6, <1>7

\* No failure of the network signs the player out: the stored token goes when the player
\* signs out, or when the server no longer accepts it (client.ts, session.ts).
THEOREM TokenStays == Spec => TokenKept
<1>1. SyncInv /\ [Next]_vars =>
        (token # NoUser /\ token' = NoUser => token \notin live \/ SignOut \/ Crossed)
  BY TokenStep
<1> QED
  BY <1>1, SyncAlways, PTL DEF Spec, TokenKept

-------------------------------------------------------------------------------
(***************************************************************************)
(* The drain keeps the order of play: the server refuses a campaign level  *)
(* as locked only when the level below it did not pass, was dropped or was *)
(* refused itself.                                                         *)
(***************************************************************************)
\* The level below is cleared on the server for whoever uses the device, or there are two.
Earned(level) == Crossed \/ \A u \in players : level - 1 \in progress[u]

\* The level below was played before the n-th record.
Below(level, n) == \E j \in 1..n : made[j].level = level - 1

Founded(level, n) == level > 1 => Earned(level) \/ Below(level, n)

\* Why a play need not be waiting for the drain any more.
Judged(i) == entry[i] # NoUser \/ i \in lost \cup locked \/ made[i].mark # "passed"

ChainTyped ==
  /\ progress \in [Users -> SUBSET Int] /\ prov \in [Users -> SUBSET Int]
  /\ play \in Int /\ locked \subseteq 1..Len(made)

\* The drain sends a prefix of the outbox, oldest first.
DrainOrder == \A j \in outbox : \A k \in drain.todo : j < k => j \in drain.todo

\* What has left the outbox is judged, and a stored pass is progress.
Accounted ==
  /\ \A i \in 1..Len(made) : i \in outbox \/ Judged(i)
  /\ \A i \in 1..Len(made) :
       entry[i] # NoUser /\ made[i].level > 0 /\ made[i].mark = "passed" =>
         made[i].level \in progress[entry[i]]

\* What the device shows as open is cleared on the server or was played before.
Grounded ==
  /\ Crossed \/ \A u \in players : ladder \subseteq progress[u]
  /\ \A u \in Users : \A level \in prov[u] :
       \E j \in 1..Len(made) : made[j].level = level
  /\ \A i \in 1..Len(made) : Founded(made[i].level, i - 1)
  /\ Founded(play, Len(made))

ChainInv == ChainTyped /\ DrainOrder /\ Accounted /\ Grounded /\ ChainKept

-------------------------------------------------------------------------------
LEMMA InitChain == Init => ChainInv
<1> SUFFICES ASSUME Init PROVE ChainInv
  OBVIOUS
<1>1. ChainTyped
  BY DEF Init, ChainTyped, NoPlay
<1>2. DrainOrder
  BY DEF Init, DrainOrder
<1>3. Accounted
  BY DEF Init, Accounted
<1>4. Grounded
  BY DEF Init, Grounded, Founded, NoPlay
<1>5. ChainKept
  BY DEF Init, ChainKept
<1> QED
  BY <1>1, <1>2, <1>3, <1>4, <1>5 DEF ChainInv

\* The steps by what they change: a play finishes, the server judges, or neither.
FinishStep == \E mark \in Marks : FinishLevel(mark) \/ FinishPractice(mark)

LEMMA MadeStep ==
  ASSUME [Next]_vars
  PROVE  FinishStep \/ UNCHANGED <<made, prov>>
BY DEF FinishStep, Next, vars, history, ServeLate, TokenExpires, SignIn, SignInHalfway,
   RestoreRetries, RestoreDone, RestoreMeFails, RefreshAnswers, RefreshRejected,
   RefreshFails, OtherCall, ScreenRefreshes, FetchUnauthorised, MeArrives, FetchFails,
   AccessExpires, SignOut, GoOffline, GoOnline, Foreground, Restart, DrainUnauthorised,
   DrainAnswered, DrainFails, LoadLadder, StartPractice, StartLevel, Starts

LEMMA ServerStep ==
  ASSUME [Next]_vars
  PROVE  ServeLate \/ DrainAnswered \/ UNCHANGED server
BY DEF Next, vars, server, TokenExpires, SignIn, SignInHalfway, RestoreRetries,
   RestoreDone, RestoreMeFails, RefreshAnswers, RefreshRejected, RefreshFails,
   OtherCall, ScreenRefreshes, FetchUnauthorised, MeArrives, FetchFails, AccessExpires,
   SignOut, GoOffline, GoOnline, Foreground, Restart, DrainUnauthorised, DrainFails,
   LoadLadder, StartPractice, StartLevel, Starts, FinishLevel, FinishPractice, Enqueues

\* What happens to the outbox and to the ids the drain still has to send.
LEMMA DrainStep ==
  ASSUME [Next]_vars
  PROVE  \/ FinishStep
         \/ outbox' = outbox /\ drain'.todo \in {drain.todo, {}, outbox}
         \/ /\ RefreshRejected \/ DrainUnauthorised \/ DrainAnswered
            /\ outbox' = outbox \ {Sending} /\ drain'.todo = drain.todo \ {Sending}
            /\ drain.pc # "off"
<1> USE DEF Sends, Off
<1>1. CASE RefreshRejected \/ DrainUnauthorised \/ DrainAnswered
  BY <1>1 DEF RefreshRejected, DrainUnauthorised, DrainAnswered
<1>2. CASE GoOnline \/ Foreground
  BY <1>2 DEF GoOnline, Foreground, StartDrain
<1>3. CASE RefreshAnswers
  BY <1>3 DEF RefreshAnswers
<1>4. CASE RefreshFails \/ DrainFails \/ Restart
  BY <1>4 DEF RefreshFails, DrainFails, Restart
<1>5. CASE UNCHANGED <<outbox, drain>>
  BY <1>5
<1>6. \/ RefreshRejected \/ DrainUnauthorised \/ DrainAnswered \/ GoOnline \/ Foreground
      \/ RefreshAnswers \/ RefreshFails \/ DrainFails \/ Restart \/ FinishStep
      \/ UNCHANGED <<outbox, drain>>
  BY DEF FinishStep, Next, vars, ServeLate, TokenExpires, SignIn, SignInHalfway,
     RestoreRetries, RestoreDone, RestoreMeFails, OtherCall, ScreenRefreshes,
     FetchUnauthorised, MeArrives, FetchFails, AccessExpires, SignOut,
     GoOffline, LoadLadder, StartPractice, StartLevel, Starts
<1> QED
  BY <1>1, <1>2, <1>3, <1>4, <1>5, <1>6

\* What a finished play changes.
LEMMA FinishEffect ==
  ASSUME SyncInv, ChainTyped, FinishStep
  PROVE  /\ Len(made) \in Nat /\ Len(made') = Len(made) + 1
         /\ \A i \in 1..Len(made) : made'[i] = made[i]
         /\ made'[Len(made) + 1].level = play
         /\ outbox' = outbox \cup {Len(made) + 1} /\ play' = NoPlay
         /\ prov' \in [Users -> SUBSET Int]
         /\ \A u \in Users : prov'[u] \subseteq prov[u] \cup {play}
         /\ UNCHANGED <<drain, entry, credits, progress, ladder, lost, locked, players>>
<1>1. PICK mark \in Marks : FinishLevel(mark) \/ FinishPractice(mark)
  BY DEF FinishStep
<1> DEFINE rec == [level |-> play, mark |-> mark, by |-> me]
<1>2. /\ made' = Append(made, rec) /\ outbox' = outbox \cup {Len(made) + 1}
      /\ play' = NoPlay /\ play # NoPlay
      /\ UNCHANGED <<drain, entry, credits, progress, ladder, lost, locked, players>>
  BY <1>1 DEF FinishLevel, FinishPractice, Enqueues, server
<1>3. made \in Seq([level : Int, mark : Marks, by : Users])
  BY DEF SyncInv, QueueInv
<1>4. rec \in [level : Int, mark : Marks, by : Users] /\ rec.level = play
  BY <1>2 DEF SyncInv, AccountsInv, ChainTyped
<1>5. /\ prov' \in [Users -> SUBSET Int]
      /\ \A u \in Users : prov'[u] \subseteq prov[u] \cup {play}
  <2>1. CASE prov' = prov
    BY <2>1 DEF ChainTyped
  <2>2. CASE prov' = [prov EXCEPT ![me] = @ \cup {play}]
    BY <2>2 DEF ChainTyped
  <2> QED
    BY <1>1, <2>1, <2>2 DEF FinishLevel, FinishPractice
<1> HIDE DEF rec
<1>6. /\ Len(made) \in Nat /\ Len(made') = Len(made) + 1
      /\ \A i \in 1..Len(made) : made'[i] = made[i]
      /\ made'[Len(made) + 1] = rec
  BY <1>2, <1>3, <1>4
<1> QED
  BY <1>2, <1>4, <1>5, <1>6

LEMMA LevelsTyped ==
  ASSUME SyncInv, NEW i \in 1..Len(made)
  PROVE  made[i].level \in Int
<1> DEFINE R == [level : Int, mark : Marks, by : Users]
<1>1. made \in Seq(R) /\ \A r \in R : r.level \in Int
  BY DEF SyncInv, QueueInv
<1> HIDE DEF R
<1> QED
  BY <1>1

\* What a request the server serves changes.
LEMMA SettlesEffect ==
  ASSUME SyncInv, ChainTyped, Accounted, NEW u \in players, NEW i \in 1..Len(made),
         Settles(u, i)
  PROVE  /\ progress' \in [Users -> SUBSET Int]
         /\ \A v \in Users : progress[v] \subseteq progress'[v]
         /\ \A j \in 1..Len(made) : entry[j] # NoUser => entry'[j] = entry[j]
         /\ \A j \in 1..Len(made) :
              entry'[j] # NoUser /\ made[j].level > 0 /\ made[j].mark = "passed" =>
                made[j].level \in progress'[entry'[j]]
<1>1. /\ u \in Users /\ i \in Ids /\ made[i].level \in Int
      /\ entry \in [Ids -> Users \cup Nobody] /\ 1..Len(made) \subseteq Ids
      /\ \A j \in Ids : entry[j] \in players \cup Nobody
      /\ players \subseteq Users
  <2>1. made[i].level \in Int
    BY LevelsTyped
  <2>2. Len(made) \in Nat /\ Len(made) <= MaxRecords
    BY DEF SyncInv, QueueInv
  <2>3. 1..Len(made) \subseteq Ids
    BY <2>2, Bounds DEF Ids
  <2> QED
    BY <2>1, <2>3 DEF SyncInv, AccountsInv, ServerInv
<1>2. CASE Verdict(u, i) = "stored"
  <2>1. entry[i] = NoUser /\ entry' = [entry EXCEPT ![i] = u]
    BY <1>2, VerdictFacts DEF Settles
  <2>2. CASE made[i].level > 0 /\ made[i].mark = "passed"
    <3>1. progress' = [progress EXCEPT ![u] = @ \cup {made[i].level}]
      BY <1>2, <2>2 DEF Settles
    <3>2. /\ progress' \in [Users -> SUBSET Int]
          /\ \A v \in Users : progress[v] \subseteq progress'[v]
          /\ made[i].level \in progress'[u]
      BY <1>1, <3>1 DEF ChainTyped
    <3>3. \A j \in 1..Len(made) :
            entry'[j] = IF j = i THEN u ELSE entry[j]
      BY <1>1, <2>1
    <3> QED
      BY <1>1, <2>1, <3>2, <3>3 DEF Accounted, Nobody
  <2>3. CASE ~(made[i].level > 0 /\ made[i].mark = "passed")
    <3>1. progress' = progress
      BY <2>3 DEF Settles
    <3>2. \A j \in 1..Len(made) :
            entry'[j] = IF j = i THEN u ELSE entry[j]
      BY <1>1, <2>1
    <3> QED
      BY <2>1, <2>3, <3>1, <3>2 DEF Accounted, ChainTyped
  <2> QED
    BY <2>2, <2>3
<1>3. CASE Verdict(u, i) # "stored"
  BY <1>3 DEF Settles, Accounted, ChainTyped
<1> QED
  BY <1>2, <1>3

LEMMA Served ==
  ASSUME SyncInv, ServeLate \/ DrainAnswered
  PROVE  /\ \E u \in players, i \in 1..Len(made) : Settles(u, i)
         /\ UNCHANGED <<made, prov, ladder, play, players, lost>>
<1>1. CASE ServeLate
  BY <1>1 DEF ServeLate, SyncInv, QueueInv, history
<1>2. CASE DrainAnswered
  BY <1>2, SendingFacts DEF DrainAnswered, SyncInv, AccountsInv, Nobody
<1> QED
  BY <1>1, <1>2

\* What no step takes back, and that a second account only ever joins.
Growth ==
  /\ Len(made) \in Nat /\ Len(made') \in Nat /\ Len(made) <= Len(made')
  /\ \A i \in 1..Len(made) : made'[i] = made[i]
  /\ \A u \in Users : progress[u] \subseteq progress'[u]
  /\ \A i \in 1..Len(made) : entry[i] # NoUser => entry'[i] = entry[i]
  /\ lost \subseteq lost' /\ locked \subseteq locked'
  /\ Crossed => Crossed'
  /\ ~Crossed' => players' = players

LEMMA Grows ==
  ASSUME SyncInv, SyncInv', ChainTyped, Accounted, [Next]_vars
  PROVE  Growth
<1>1. /\ Len(made) \in Nat /\ Len(made') \in Nat /\ Len(made) <= Len(made')
      /\ \A i \in 1..Len(made) : made'[i] = made[i]
  <2>1. CASE FinishStep
    BY <2>1, FinishEffect
  <2>2. CASE made' = made
    BY <2>2 DEF SyncInv, QueueInv
  <2> QED
    BY <2>1, <2>2, MadeStep
<1>2. /\ \A u \in Users : progress[u] \subseteq progress'[u]
      /\ \A i \in 1..Len(made) : entry[i] # NoUser => entry'[i] = entry[i]
  <2>1. CASE ServeLate \/ DrainAnswered
    BY <2>1, Served, SettlesEffect
  <2>2. CASE UNCHANGED server
    BY <2>2 DEF server
  <2> QED
    BY <2>1, <2>2, ServerStep
<1>3. players \subseteq players' /\ lost \subseteq lost' /\ locked \subseteq locked'
  BY HistoryStep
<1>4. IsFiniteSet(players') /\ IsFiniteSet(players) /\ players # {}
  BY DEF SyncInv, AccountsInv
<1>5. /\ Cardinality(players) <= Cardinality(players')
      /\ Cardinality(players) \in Nat /\ Cardinality(players') \in Nat
  BY <1>3, <1>4, FS_Subset, FS_CardinalityType
<1>6. Crossed => Crossed'
  BY <1>5 DEF Crossed
<1>7. ~Crossed' => players' = players
  <2>1. SUFFICES ASSUME ~Crossed' PROVE players' \subseteq players
    BY <1>3
  <2>2. Cardinality(players') = 1
    <3>1. players' # {}
      BY <1>3, <1>4
    <3>2. Cardinality(players') # 0
      BY <1>4, <3>1, FS_EmptySet
    <3>3. Cardinality(players') <= 1
      BY <1>5, <2>1 DEF Crossed
    <3> QED
      BY <1>5, <3>2, <3>3
  <2>3. \E x : players' = {x}
    BY <1>4, <2>2, FS_Singleton
  <2> QED
    BY <1>3, <1>4, <2>3
<1> QED
  BY <1>1, <1>2, <1>3, <1>6, <1>7 DEF Growth

-------------------------------------------------------------------------------
(* Steps *)

LEMMA PlayStep ==
  ASSUME SyncInv, [Next]_vars
  PROVE  \/ play' \in {play, NoPlay}
         \/ StartPractice \/ \E level \in Levels : StartLevel(level)
<1>1. CASE RestoreRetries \/ RestoreMeFails \/ RefreshRejected \/ RefreshFails
  BY <1>1 DEF RestoreRetries, RestoreMeFails, RestoreFails, RefreshRejected, RefreshFails,
     EndSession, SetAnonymous
<1>2. CASE OtherCall \/ SignOut \/ Restart \/ DrainUnauthorised
  BY <1>2 DEF OtherCall, SignOut, Restart, DrainUnauthorised, EndSession, SetAnonymous
<1>3. ASSUME NEW mark \in Marks, FinishLevel(mark) \/ FinishPractice(mark)
      PROVE  play' = NoPlay
  BY <1>3 DEF FinishLevel, FinishPractice, Enqueues
<1>4. CASE UNCHANGED play \/ FetchStep
  BY <1>4, FetchEffect DEF FetchChange
<1>5. \/ RestoreRetries \/ RestoreMeFails \/ RefreshRejected \/ RefreshFails
      \/ OtherCall \/ SignOut \/ Restart \/ DrainUnauthorised \/ FetchStep
      \/ (\E mark \in Marks : FinishLevel(mark) \/ FinishPractice(mark))
      \/ StartPractice \/ (\E level \in Levels : StartLevel(level))
      \/ UNCHANGED play
  BY DEF Next, FetchStep, vars, ServeLate, TokenExpires, SignIn, SignInHalfway,
     RestoreDone, RefreshAnswers, AccessExpires, GoOffline, GoOnline, Foreground, DrainAnswered,
     DrainFails, LoadLadder
<1> QED
  BY <1>1, <1>2, <1>3, <1>4, <1>5

LEMMA ChainTypedKeeps ==
  ASSUME SyncInv, SyncInv', ChainInv, [Next]_vars
  PROVE  ChainTyped'
<1> USE DEF ChainInv
<1>1. prov' \in [Users -> SUBSET Int]
  BY MadeStep, FinishEffect DEF ChainTyped
<1>2. progress' \in [Users -> SUBSET Int]
  <2>1. CASE ServeLate \/ DrainAnswered
    BY <2>1, Served, SettlesEffect
  <2> QED
    BY <2>1, ServerStep DEF server, ChainTyped
<1>3. play' \in Int
  <2>1. StartPractice => play' = 0
    BY DEF StartPractice, Starts
  <2>2. \A level \in Levels : StartLevel(level) => play' \in Int
    BY DEF StartLevel, Starts, Levels
  <2> QED
    BY <2>1, <2>2, PlayStep DEF ChainTyped, NoPlay
<1>4. locked' \subseteq 1..Len(made')
  <2>1. CASE DrainAnswered
    <3>1. made' = made /\ locked' \subseteq locked \cup {Sending}
      BY <2>1 DEF DrainAnswered
    <3>2. Sending \in 1..Len(made)
      BY <2>1, SendingFacts DEF DrainAnswered
    <3> QED
      BY <3>1, <3>2 DEF ChainTyped
  <2>2. CASE locked' = locked
    BY <2>2, Grows DEF Growth, ChainTyped
  <2>3. DrainAnswered \/ locked' = locked
    BY DEF Next, vars, history, ServeLate, TokenExpires, SignIn, SignInHalfway,
       RestoreRetries, RestoreDone, RestoreMeFails, RefreshAnswers, RefreshRejected,
       RefreshFails, OtherCall, ScreenRefreshes, FetchUnauthorised, MeArrives,
       FetchFails, AccessExpires, SignOut, GoOffline, GoOnline, Foreground, Restart,
       DrainUnauthorised, DrainFails, LoadLadder, StartPractice, StartLevel, Starts,
       FinishLevel, FinishPractice, Enqueues
  <2> QED
    BY <2>1, <2>2, <2>3
<1> QED
  BY <1>1, <1>2, <1>3, <1>4 DEF ChainTyped

LEMMA DrainOrderKeeps ==
  ASSUME SyncInv, ChainInv, [Next]_vars
  PROVE  DrainOrder'
<1>1. /\ outbox \subseteq 1..Len(made) /\ drain.todo \subseteq 1..Len(made) /\ DrainOrder
      /\ ChainTyped
  BY DEF SyncInv, QueueInv, ChainInv
<1>2. CASE FinishStep
  <2>1. drain' = drain /\ outbox' = outbox \cup {Len(made) + 1} /\ Len(made) \in Nat
    BY <1>1, <1>2, FinishEffect
  <2>2. ASSUME NEW j \in outbox \cup {Len(made) + 1}, NEW k \in drain.todo, j < k
        PROVE  j \in drain.todo
    <3>1. j \in outbox
      BY <1>1, <2>1, <2>2
    <3> QED
      BY <1>1, <2>2, <3>1 DEF DrainOrder
  <2> QED
    BY <2>1, <2>2 DEF DrainOrder
<1>3. CASE outbox' = outbox /\ drain'.todo \in {drain.todo, {}, outbox}
  BY <1>1, <1>3 DEF DrainOrder
<1>4. CASE outbox' = outbox \ {Sending} /\ drain'.todo = drain.todo \ {Sending}
  BY <1>1, <1>4 DEF DrainOrder
<1> QED
  BY <1>2, <1>3, <1>4, DrainStep

LEMMA VerdictReasons ==
  ASSUME NEW u, NEW i
  PROVE  /\ Verdict(u, i) = "invalid" => made[i].mark = "drifted"
         /\ Verdict(u, i) = "locked" => ~IsUnlocked(u, made[i].level) /\ entry[i] # u
BY DEF Verdict

\* The record at the head of the drain leaves the outbox only with a reason.
LEMMA HeadJudged ==
  ASSUME SyncInv, RefreshRejected \/ DrainUnauthorised \/ DrainAnswered, drain.pc # "off",
         NEW i \in outbox \ outbox', i = Sending
  PROVE  Judged(i)'
<1>1. CASE RefreshRejected \/ DrainUnauthorised
  BY <1>1 DEF RefreshRejected, DrainUnauthorised, Judged
<1>2. CASE DrainAnswered
  <2>1. /\ Settles(drain.as, i) /\ drain.as # NoUser /\ made' = made
        /\ Verdict(drain.as, i) # "conflict"
        /\ locked' = IF Verdict(drain.as, i) = "locked"
                     THEN locked \cup {i} ELSE locked
    BY <1>2 DEF DrainAnswered
  <2>2. i \in Ids /\ entry \in [Ids -> Users \cup Nobody]
    BY SendingFacts DEF SyncInv, ServerInv
  <2>3. CASE Verdict(drain.as, i) = "stored"
    BY <2>1, <2>2, <2>3 DEF Settles, Judged
  <2>4. CASE Verdict(drain.as, i) = "again"
    BY <2>1, <2>2, <2>4, VerdictFacts DEF Settles, Judged
  <2>5. CASE Verdict(drain.as, i) = "locked"
    BY <2>1, <2>5 DEF Judged
  <2>6. CASE Verdict(drain.as, i) = "invalid"
    BY <2>1, <2>6, VerdictReasons DEF Judged
  <2> QED
    BY <2>1, <2>3, <2>4, <2>5, <2>6, VerdictFacts
<1> QED
  BY <1>1, <1>2

LEMMA AccountedKeeps ==
  ASSUME SyncInv, SyncInv', ChainInv, [Next]_vars
  PROVE  Accounted'
<1>1. Growth /\ ChainTyped /\ Accounted
  BY Grows DEF ChainInv
<1>2. ASSUME NEW i \in 1..Len(made'), i \notin outbox' PROVE Judged(i)'
  <2>1. CASE i \in 1..Len(made)
    <3>1. CASE i \in outbox
      BY <1>2, <3>1, DrainStep, HeadJudged, FinishEffect, <1>1
    <3>2. CASE i \notin outbox
      <4>1. Judged(i)
        BY <1>1, <2>1, <3>2 DEF Accounted
      <4> QED
        BY <1>1, <2>1, <4>1 DEF Growth, Judged
    <3> QED
      BY <3>1, <3>2
  <2>2. CASE i \notin 1..Len(made)
    <3>1. FinishStep
      BY <1>2, <2>2, MadeStep
    <3>2. /\ Len(made) \in Nat /\ Len(made') = Len(made) + 1
          /\ outbox' = outbox \cup {Len(made) + 1}
      BY <1>1, <3>1, FinishEffect
    <3> QED
      BY <1>2, <2>2, <3>2
  <2> QED
    BY <2>1, <2>2
<1>3. ASSUME NEW i \in 1..Len(made'), entry'[i] # NoUser,
             made'[i].level > 0, made'[i].mark = "passed"
      PROVE  made'[i].level \in progress'[entry'[i]]
  <2>1. CASE ServeLate \/ DrainAnswered
    BY <1>1, <1>3, <2>1, Served, SettlesEffect
  <2>2. CASE UNCHANGED server
    <3>1. entry' = entry /\ progress' = progress
      BY <2>2 DEF server
    <3>2. i \in Ids /\ (i > Len(made) => entry[i] = NoUser)
      <4>1. i \in Ids
        BY Bounds DEF SyncInv, QueueInv, Ids
      <4> QED
        BY <4>1 DEF SyncInv, ServerInv
    <3>3. i \in 1..Len(made)
      BY <1>1, <1>3, <3>1, <3>2 DEF Growth
    <3> QED
      BY <1>1, <1>3, <3>1, <3>3 DEF Growth, Accounted
  <2> QED
    BY <2>1, <2>2, ServerStep
<1> QED
  BY <1>2, <1>3 DEF Accounted

LEMMA GroundedKeeps ==
  ASSUME SyncInv, SyncInv', ChainInv, [Next]_vars
  PROVE  Grounded'
<1>1. Growth /\ ChainTyped /\ Accounted /\ Grounded
  BY Grows DEF ChainInv
<1>2. players \subseteq Users /\ Len(made) \in Nat /\ Len(made') \in Nat
  BY <1>1 DEF SyncInv, AccountsInv, Growth
<1>3. ASSUME NEW u \in players', ~Crossed' PROVE ladder' \subseteq progress'[u]
  <2>1. players' = players /\ u \in Users /\ ~Crossed /\ progress[u] \subseteq progress'[u]
    BY <1>1, <1>2, <1>3 DEF Growth
  <2>2. CASE LoadLadder
    <3>1. access \in players /\ ladder' = progress[access]
      BY <2>2 DEF LoadLadder, SyncInv, AccountsInv, Nobody
    <3>2. access = u
      BY <1>3, <2>1, <3>1, OneAccount
    <3> QED
      BY <2>1, <3>1, <3>2
  <2>3. CASE ladder' = ladder
    BY <1>1, <1>3, <2>1, <2>3 DEF Grounded
  <2>4. LoadLadder \/ ladder' = ladder
    BY DEF Next, vars, ServeLate, TokenExpires, SignIn, SignInHalfway, RestoreRetries,
       RestoreDone, RestoreMeFails, RefreshAnswers, RefreshRejected, RefreshFails,
       OtherCall, ScreenRefreshes, FetchUnauthorised, MeArrives, FetchFails,
       AccessExpires, SignOut, GoOffline, GoOnline, Foreground, Restart,
       DrainUnauthorised, DrainAnswered, DrainFails, StartPractice, StartLevel, Starts,
       FinishLevel, FinishPractice, Enqueues
  <2> QED
    BY <2>2, <2>3, <2>4
<1>4. ASSUME NEW u \in Users, NEW level \in prov'[u]
      PROVE  \E j \in 1..Len(made') : made'[j].level = level
  <2>1. CASE level \in prov[u]
    BY <1>1, <2>1, SMTT(40) DEF Grounded, Growth
  <2>2. CASE level \notin prov[u]
    <3>1. FinishStep
      BY <1>4, <2>2, MadeStep
    <3>2. level = play /\ made'[Len(made) + 1].level = play /\ Len(made') = Len(made) + 1
      BY <1>1, <1>4, <2>2, <3>1, FinishEffect
    <3> QED
      BY <1>2, <3>2
  <2> QED
    BY <2>1, <2>2
<1>5. ASSUME NEW i \in 1..Len(made')
      PROVE  Founded(made[i].level, i - 1)'
  <2>1. CASE i \in 1..Len(made)
    <3>1. made'[i] = made[i] /\ Founded(made[i].level, i - 1)
      BY <1>1, <2>1 DEF Growth, Grounded
    <3>2. (Earned(made[i].level) => Earned(made[i].level)')
      BY <1>1, <1>2, <3>1 DEF Growth, Earned
    <3>3. (Below(made[i].level, i - 1) => Below(made[i].level, i - 1)')
      BY <1>1, <1>2, <2>1, <3>1 DEF Growth, Below
    <3> QED
      BY <3>1, <3>2, <3>3 DEF Founded
  <2>2. CASE i \notin 1..Len(made)
    <3>1. FinishStep
      BY <1>5, <2>2, MadeStep
    <3>2. i = Len(made) + 1 /\ made'[i].level = play
      BY <1>1, <1>2, <1>5, <2>2, <3>1, FinishEffect
    <3>3. Founded(play, Len(made))
      BY <1>1 DEF Grounded
    <3>4. (Earned(play) => Earned(made[i].level)')
      BY <1>1, <1>2, <3>2 DEF Growth, Earned
    <3>5. (Below(play, Len(made)) => Below(made[i].level, i - 1)')
      BY <1>1, <1>2, <3>2 DEF Growth, Below
    <3> QED
      BY <3>2, <3>3, <3>4, <3>5 DEF Founded
  <2> QED
    BY <2>1, <2>2
<1>6. Founded(play, Len(made))'
  <2>1. CASE play' \in {play, NoPlay}
    <3>1. CASE play' = NoPlay
      BY <3>1 DEF Founded, NoPlay
    <3>2. CASE play' = play
      <4>1. (Earned(play) => Earned(play)')
        BY <1>1, <1>2, <3>2 DEF Growth, Earned
      <4>2. (Below(play, Len(made)) => Below(play, Len(made))')
        BY <1>1, <1>2, <3>2 DEF Growth, Below
      <4> QED
        BY <1>1, <3>2, <4>1, <4>2 DEF Founded, Grounded
    <3> QED
      BY <2>1, <3>1, <3>2
  <2>2. CASE StartPractice
    BY <2>2 DEF StartPractice, Starts, Founded
  <2>3. ASSUME NEW level \in Levels, StartLevel(level) PROVE Founded(play, Len(made))'
    <3>1. /\ play' = level /\ ShownUnlocked(level) /\ me \in players
          /\ UNCHANGED <<made, progress, players>>
      BY <2>3 DEF StartLevel, Starts, SyncInv, AccountsInv, server, history
    <3>2. CASE level <= 1
      BY <3>1, <3>2 DEF Founded, Levels
    <3>3. CASE level - 1 \in ladder
      BY <1>1, <3>1, <3>3 DEF Founded, Earned, Grounded, Growth
    <3>4. CASE level - 1 \in prov[me]
      BY <1>1, <1>2, <3>1, <3>4 DEF Founded, Below, Grounded
    <3> QED
      BY <3>1, <3>2, <3>3, <3>4 DEF ShownUnlocked
  <2> QED
    BY <2>1, <2>2, <2>3, PlayStep
<1> QED
  BY <1>3, <1>4, <1>5, <1>6 DEF Grounded

LEMMA LockedStep ==
  ASSUME [Next]_vars, NEW i \in locked' \ locked
  PROVE  DrainAnswered /\ i = Sending /\ Verdict(drain.as, i) = "locked"
<1>1. DrainAnswered
  BY DEF Next, vars, history, ServeLate, TokenExpires, SignIn, SignInHalfway,
     RestoreRetries, RestoreDone, RestoreMeFails, RefreshAnswers, RefreshRejected,
     RefreshFails, OtherCall, ScreenRefreshes, FetchUnauthorised, MeArrives, FetchFails,
     AccessExpires, SignOut, GoOffline, GoOnline, Foreground, Restart,
     DrainUnauthorised, DrainFails, LoadLadder, StartPractice, StartLevel, Starts,
     FinishLevel, FinishPractice, Enqueues
<1> QED
  BY <1>1 DEF DrainAnswered

\* The record the server refuses as locked is the oldest one still queued.
LEMMA LockedHasReason ==
  ASSUME SyncInv, ChainInv, drain.pc # "off", drain.as \in players, ~Crossed,
         NEW i, i = Sending, Verdict(drain.as, i) = "locked"
  PROVE  \E j \in 1..(i - 1) :
           /\ made[j].level = made[i].level - 1
           /\ made[j].mark # "passed" \/ j \in lost \cup locked
<1>1. /\ i \in 1..Len(made) /\ i \in drain.todo /\ \A j \in drain.todo : i <= j
      /\ Len(made) \in Nat
  BY SendingFacts DEF SyncInv, QueueInv
<1>2. made[i].level > 1 /\ made[i].level - 1 \notin progress[drain.as]
  BY VerdictReasons, <1>1, LevelsTyped DEF IsUnlocked
<1>3. Below(made[i].level, i - 1)
  BY <1>1, <1>2 DEF ChainInv, Grounded, Founded, Earned
<1>4. PICK j \in 1..(i - 1) : made[j].level = made[i].level - 1
  BY <1>3 DEF Below
<1>5. j \in 1..Len(made) /\ j \notin outbox
  BY <1>1, <1>4 DEF ChainInv, DrainOrder
<1>6. Judged(j)
  BY <1>5 DEF ChainInv, Accounted
<1>7. CASE entry[j] # NoUser /\ made[j].mark = "passed"
  <2>1. entry[j] \in players
    <3>1. j \in Ids
      BY <1>5, Bounds DEF SyncInv, QueueInv, Ids
    <3> QED
      BY <1>7, <3>1 DEF SyncInv, ServerInv, Nobody
  <2>2. entry[j] = drain.as
    BY <2>1, OneAccount
  <2>3. made[j].level > 0 /\ made[j].level \in progress[entry[j]]
    BY <1>1, <1>2, <1>4, <1>5, <1>7, LevelsTyped DEF ChainInv, Accounted
  <2> QED
    BY <1>2, <1>4, <2>2, <2>3
<1> QED
  BY <1>4, <1>6, <1>7 DEF Judged

LEMMA ChainKeeps ==
  ASSUME SyncInv, SyncInv', ChainInv, [Next]_vars
  PROVE  ChainKept'
<1>1. Growth /\ ChainTyped /\ ChainKept
  BY Grows DEF ChainInv
<1>2. ASSUME NEW i \in locked', ~Crossed'
      PROVE  \E j \in 1..(i - 1) :
               /\ made'[j].level = made'[i].level - 1
               /\ made'[j].mark # "passed" \/ j \in lost' \cup locked'
  <2>1. ~Crossed
    BY <1>1, <1>2 DEF Growth
  <2>2. i \in 1..Len(made) /\ \E j \in 1..(i - 1) :
               /\ made[j].level = made[i].level - 1
               /\ made[j].mark # "passed" \/ j \in lost \cup locked
    <3>1. CASE i \in locked
      BY <1>1, <2>1, <3>1 DEF ChainKept, ChainTyped
    <3>2. CASE i \notin locked
      <4>1. /\ DrainAnswered /\ i = Sending /\ Verdict(drain.as, i) = "locked"
            /\ drain.pc # "off" /\ drain.as # NoUser
        BY <1>2, <3>2, LockedStep DEF DrainAnswered
      <4>2. drain.as \in players /\ i \in 1..Len(made)
        BY <4>1, SendingFacts DEF SyncInv, AccountsInv, Nobody
      <4> QED
        BY <2>1, <4>1, <4>2, LockedHasReason
    <3> QED
      BY <3>1, <3>2
  <2>3. PICK j \in 1..(i - 1) :
               /\ made[j].level = made[i].level - 1
               /\ made[j].mark # "passed" \/ j \in lost \cup locked
    BY <2>2
  <2>4. made'[i] = made[i] /\ made'[j] = made[j]
    BY <1>1, <2>2 DEF Growth
  <2> QED
    BY <1>1, <2>3, <2>4 DEF Growth
<1> QED
  BY <1>2 DEF ChainKept

LEMMA ChainStep == SyncInv /\ SyncInv' /\ ChainInv /\ [Next]_vars => ChainInv'
BY ChainTypedKeeps, DrainOrderKeeps, AccountedKeeps, GroundedKeeps, ChainKeeps DEF ChainInv

\* The drain sends the plays of a ladder in the order they were played and stops at a
\* failure, so the server refuses a level as locked only after a level below that did
\* not pass, was refused, or was dropped with the session (drainOutbox, overlayLadder).
THEOREM ChainAlwaysKept == Spec => []ChainKept
<1>1. ChainInv => ChainKept
  BY DEF ChainInv
<1> QED
  BY <1>1, InitChain, ChainStep, SyncAlways, PTL DEF Spec

-------------------------------------------------------------------------------
(* Types *)

SessionTypes ==
  /\ online \in BOOLEAN /\ status \in {"bootstrapping", "anonymous", "authenticated"}
  /\ (status = "authenticated") => (me # NoUser)
  /\ (play # NoPlay) => (status = "authenticated")
  /\ play \in (0..MaxLevel) \cup {NoPlay}

QueueTypes ==
  /\ made \in Seq(Records) /\ prov \in [Users -> SUBSET Levels]
  /\ late \subseteq [id : Ids, as : Users]

DrainTypes ==
  /\ drain.todo \subseteq outbox /\ ((drain.pc = "off") <=> (drain.todo = {}))
  /\ lost \cup locked \subseteq 1..Len(made)

ServerTypes ==
  progress \in [Users -> SUBSET Levels] /\ ladder \subseteq Levels

\* Whoever waits for a refresh waits for one in flight.
Attended ==
  drain.pc = "refresh" \/ restore.pc = "refresh" \/ Waiting # {} => flight # NoUser

LeftTypes == left \in [mishaps : 0..MaxMishaps, drops : 0..MaxDrops]

Types == SessionTypes /\ QueueTypes /\ DrainTypes /\ ServerTypes /\ LeftTypes /\ Attended

LEMMA InitTypes == Init => Types
<1> SUFFICES ASSUME Init PROVE Types
  OBVIOUS
<1>1. SessionTypes
  BY Bounds DEF Init, SessionTypes, NoPlay
<1>2. QueueTypes
  BY DEF Init, QueueTypes
<1>3. DrainTypes
  BY DEF Init, DrainTypes, Off
<1>4. ServerTypes
  BY DEF Init, ServerTypes
<1>5. LeftTypes
  BY OfflineAssumption DEF OfflineAssumption, Init, LeftTypes
<1>6. Attended
  BY DEF Init, Attended, Off, NoRestore, Waiting
<1> QED
  BY <1>1, <1>2, <1>3, <1>4, <1>5, <1>6 DEF Types

LEMMA SessionTypesKeep ==
  ASSUME SyncInv, SessionTypes, [Next]_vars
  PROVE  SessionTypes'
<1> USE Bounds DEF SessionTypes, NoPlay
<1> USE DEF session, EndSession, SetAnonymous
<1>1. ASSUME NEW u \in Users, TokenExpires(u) \/ SignIn(u) \/ SignInHalfway(u)
      PROVE  SessionTypes'
  BY <1>1 DEF TokenExpires, SignIn, SignInHalfway
<1>2. CASE RestoreRetries
  BY <1>2 DEF RestoreRetries
<1>3. CASE RestoreDone
  BY <1>3 DEF RestoreDone, SyncInv, AccountsInv
<1>4. CASE RestoreMeFails
  BY <1>4 DEF RestoreMeFails, RestoreFails
<1>5. CASE RefreshAnswers
  BY <1>5 DEF RefreshAnswers
<1>6. CASE RefreshRejected
  BY <1>6 DEF RefreshRejected
<1>7. CASE RefreshFails
  BY <1>7 DEF RefreshFails, RestoreFails
<1>8. CASE OtherCall \/ AccessExpires \/ SignOut \/ Restart
  BY <1>8 DEF OtherCall, AccessExpires, SignOut, Restart
<1>9. CASE ServeLate \/ LoadLadder \/ GoOffline \/ GoOnline \/ Foreground
  BY <1>9 DEF ServeLate, LoadLadder, GoOffline, GoOnline, Foreground
<1>10. CASE DrainUnauthorised
  BY <1>10 DEF DrainUnauthorised
<1>11. CASE DrainAnswered \/ DrainFails
  BY <1>11 DEF DrainAnswered, DrainFails
<1>12. CASE StartPractice
  BY <1>12 DEF StartPractice, Starts
<1>13. ASSUME NEW level \in Levels, StartLevel(level) PROVE SessionTypes'
  BY <1>13 DEF StartLevel, Starts, Levels
<1>14. ASSUME NEW mark \in Marks, FinishLevel(mark) \/ FinishPractice(mark)
       PROVE  SessionTypes'
  BY <1>14 DEF FinishLevel, FinishPractice, Enqueues
<1>15. CASE FetchStep
  BY <1>15, FetchEffect DEF FetchChange, SyncInv, AccountsInv
<1>16. CASE UNCHANGED vars
  BY <1>16 DEF vars
<1> QED
  BY <1>1, <1>2, <1>3, <1>4, <1>5, <1>6, <1>7, <1>8, <1>9, <1>10, <1>11, <1>12, <1>13,
     <1>14, <1>15, <1>16 DEF Next, FetchStep

LEMMA QueueTypesKeep ==
  ASSUME SyncInv, SessionTypes, QueueTypes, [Next]_vars
  PROVE  QueueTypes'
<1>1. CASE FinishStep
  <2>1. PICK mark \in Marks : FinishLevel(mark) \/ FinishPractice(mark)
    BY <1>1 DEF FinishStep
  <2> DEFINE rec == [level |-> play, mark |-> mark, by |-> me]
  <2>2. /\ made' = Append(made, rec) /\ play # NoPlay /\ late' = late
        /\ \/ prov' = prov
           \/ (play \in Levels /\ prov' = [prov EXCEPT ![me] = @ \cup {play}])
    BY <2>1 DEF FinishLevel, FinishPractice, Enqueues
  <2>3. play \in 0..MaxLevel /\ me \in Users
    BY <2>2 DEF SessionTypes, SyncInv, AccountsInv
  <2>4. rec \in Records
    BY <2>3 DEF Records
  <2>5. prov' \in [Users -> SUBSET Levels]
    BY <2>2, <2>3 DEF QueueTypes
  <2> HIDE DEF rec
  <2> QED
    BY <2>2, <2>4, <2>5 DEF QueueTypes
<1>2. CASE UNCHANGED <<made, prov>>
  <2>1. late' \subseteq late \/ (late' = Abandoned /\ drain.pc # "off")
    BY DEF Next, vars, ServeLate, TokenExpires, SignIn, SignInHalfway, RestoreRetries,
       RestoreDone, RestoreMeFails, RefreshAnswers, RefreshRejected, RefreshFails,
       OtherCall, ScreenRefreshes, FetchUnauthorised, MeArrives, FetchFails,
       AccessExpires, SignOut, GoOffline, GoOnline, Foreground, Restart,
       DrainUnauthorised, DrainAnswered, DrainFails, LoadLadder, StartPractice,
       StartLevel, Starts, FinishLevel, FinishPractice, Enqueues, Abandoned
  <2>2. CASE late' = Abandoned /\ drain.pc # "off"
    <3>1. Sending \in Ids /\ drain.as \in Users \cup Nobody
      BY <2>2, SendingFacts DEF SyncInv, Typed
    <3> QED
      BY <1>2, <2>2, <3>1 DEF QueueTypes, Abandoned, Nobody
  <2> QED
    BY <1>2, <2>1, <2>2 DEF QueueTypes
<1> QED
  BY <1>1, <1>2, MadeStep

LEMMA DrainTypesKeep ==
  ASSUME SyncInv, SyncInv', ChainInv, DrainTypes, [Next]_vars
  PROVE  DrainTypes'
<1>1. drain'.todo \subseteq outbox'
  BY DrainStep, FinishEffect DEF DrainTypes, ChainInv
<1>2. (drain'.pc = "off") <=> (drain'.todo = {})
  <2> USE DEF DrainTypes, Sends, Off
  <2>1. drain'.pc # "off" => drain'.todo # {}
    BY DEF SyncInv, QueueInv
  <2>2. CASE drain' \in {Off, drain} \/ drain'.pc # "off"
    BY <2>1, <2>2
  <2>3. drain' \in {Off, drain} \/ drain'.pc # "off"
    <3>1. CASE GoOnline \/ Foreground
      BY <3>1 DEF GoOnline, Foreground, StartDrain
    <3>2. CASE RefreshAnswers \/ RefreshRejected \/ RefreshFails
      BY <3>2 DEF RefreshAnswers, RefreshRejected, RefreshFails
    <3>3. CASE DrainUnauthorised \/ DrainAnswered \/ DrainFails \/ Restart
      BY <3>3 DEF DrainUnauthorised, DrainAnswered, DrainFails, Restart
    <3>4. \/ GoOnline \/ Foreground \/ RefreshAnswers \/ RefreshRejected \/ RefreshFails
          \/ DrainUnauthorised \/ DrainAnswered \/ DrainFails \/ Restart
          \/ drain' = drain
      BY DEF Next, vars, ServeLate, TokenExpires, SignIn, SignInHalfway, RestoreRetries,
         RestoreDone, RestoreMeFails, OtherCall, ScreenRefreshes,
         FetchUnauthorised, MeArrives, FetchFails, AccessExpires, SignOut, GoOffline,
         LoadLadder, StartPractice, StartLevel, Starts, FinishLevel, FinishPractice,
         Enqueues
    <3> QED
      BY <3>1, <3>2, <3>3, <3>4
  <2> QED
    BY <2>2, <2>3
<1>3. locked' \subseteq 1..Len(made')
  BY ChainTypedKeeps DEF ChainTyped
<1>4. lost' \subseteq 1..Len(made')
  <2>1. CASE (RefreshRejected \/ DrainUnauthorised) /\ lost' # lost
    <3>1. made' = made /\ lost' = lost \cup {Sending} /\ drain.pc # "off"
      BY <2>1 DEF RefreshRejected, DrainUnauthorised
    <3> QED
      BY <3>1, SendingFacts DEF DrainTypes
  <2>2. CASE lost' = lost
    BY <2>2, Grows DEF DrainTypes, Growth, ChainInv
  <2>3. RefreshRejected \/ DrainUnauthorised \/ lost' = lost
    BY DEF Next, vars, history, ServeLate, TokenExpires, SignIn, SignInHalfway,
       RestoreRetries, RestoreDone, RestoreMeFails, RefreshAnswers, RefreshFails,
       OtherCall, ScreenRefreshes, FetchUnauthorised, MeArrives, FetchFails,
       AccessExpires, SignOut, GoOffline, GoOnline, Foreground, Restart, DrainAnswered,
       DrainFails, LoadLadder, StartPractice, StartLevel, Starts, FinishLevel,
       FinishPractice, Enqueues
  <2> QED
    BY <2>1, <2>2, <2>3
<1> QED
  BY <1>1, <1>2, <1>3, <1>4 DEF DrainTypes

LEMMA ServerTypesKeep ==
  ASSUME SyncInv, QueueTypes, ServerTypes, [Next]_vars
  PROVE  ServerTypes'
<1>1. progress' \in [Users -> SUBSET Levels]
  <2>1. CASE ServeLate \/ DrainAnswered
    <3>1. PICK u \in players, i \in 1..Len(made) : Settles(u, i)
      BY <2>1, Served
    <3>2. u \in Users /\ (made[i].level > 0 => made[i].level \in Levels)
      <4>1. made[i] \in Records /\ u \in Users
        BY DEF QueueTypes, SyncInv, AccountsInv
      <4> QED
        BY <4>1, Bounds DEF Records, Levels
    <3> QED
      BY <3>1, <3>2 DEF Settles, ServerTypes
  <2>2. CASE UNCHANGED server
    BY <2>2 DEF server, ServerTypes
  <2> QED
    BY <2>1, <2>2, ServerStep
<1>2. ladder' \subseteq Levels
  <2>1. CASE LoadLadder
    BY <2>1 DEF LoadLadder, ServerTypes, SyncInv, AccountsInv, Nobody
  <2>2. LoadLadder \/ ladder' = ladder
    BY DEF Next, vars, ServeLate, TokenExpires, SignIn, SignInHalfway, RestoreRetries,
       RestoreDone, RestoreMeFails, RefreshAnswers, RefreshRejected, RefreshFails,
       OtherCall, ScreenRefreshes, FetchUnauthorised, MeArrives, FetchFails,
       AccessExpires, SignOut, GoOffline, GoOnline, Foreground, Restart,
       DrainUnauthorised, DrainAnswered, DrainFails, StartPractice, StartLevel, Starts,
       FinishLevel, FinishPractice, Enqueues
  <2> QED
    BY <2>1, <2>2 DEF ServerTypes
<1> QED
  BY <1>1, <1>2 DEF ServerTypes

LEMMA LeftTypesKeep ==
  ASSUME LeftTypes, [Next]_vars
  PROVE  LeftTypes'
<1>1. CASE Mishap
  BY <1>1, OfflineAssumption DEF OfflineAssumption, LeftTypes, Mishap
<1>2. CASE GoOffline
  BY <1>2, OfflineAssumption DEF OfflineAssumption, LeftTypes, GoOffline
<1>3. CASE UNCHANGED left
  BY <1>3 DEF LeftTypes
<1>4. Mishap \/ GoOffline \/ UNCHANGED left
  BY DEF Next, vars, Faulty, ServeLate, TokenExpires, SignIn, SignInHalfway,
     RestoreRetries, RestoreDone, RestoreMeFails, RefreshAnswers, RefreshRejected,
     RefreshFails, OtherCall, ScreenRefreshes, FetchUnauthorised, MeArrives, FetchFails,
     AccessExpires, SignOut, GoOnline, Foreground, Restart, DrainUnauthorised,
     DrainAnswered, DrainFails, LoadLadder, StartPractice, StartLevel, Starts,
     FinishLevel, FinishPractice, Enqueues
<1> QED
  BY <1>1, <1>2, <1>3, <1>4

LEMMA AttendedKeeps ==
  ASSUME SyncInv, Attended, [Next]_vars
  PROVE  Attended'
<1> USE Bounds DEF Attended, session, Waiting, Sends, Off, NoRestore, Relaunch
<1>1. CASE RefreshAnswers
  BY <1>1 DEF RefreshAnswers, Calling, Call, SyncInv, Typed
<1>2. CASE RefreshRejected
  BY <1>2 DEF RefreshRejected, Calling
<1>3. CASE RefreshFails
  BY <1>3 DEF RefreshFails, RestoreFails, Calling
<1>4. CASE RestoreRetries
  BY <1>4 DEF RestoreRetries
<1>5. CASE RestoreDone \/ RestoreMeFails
  BY <1>5 DEF RestoreDone, RestoreMeFails, RestoreFails
<1>6. CASE GoOnline \/ Foreground
  BY <1>6 DEF GoOnline, Foreground, StartDrain, RecoverSession
<1>7. CASE Restart
  BY <1>7 DEF Restart
<1>8. CASE DrainUnauthorised
  BY <1>8 DEF DrainUnauthorised
<1>9. CASE DrainAnswered
  BY <1>9 DEF DrainAnswered, Call
<1>10. CASE DrainFails
  BY <1>10 DEF DrainFails
<1>11. CASE OtherCall
  BY <1>11 DEF OtherCall
<1>12. CASE ScreenRefreshes
  BY <1>12 DEF ScreenRefreshes, Call
<1>13. ASSUME NEW f \in fetches, FetchUnauthorised(f) PROVE Attended'
  BY <1>13 DEF FetchUnauthorised
<1>14. CASE UNCHANGED <<drain, restore, flight>> /\ fetches' \subseteq fetches
  BY <1>14
<1>15. \/ RefreshAnswers \/ RefreshRejected \/ RefreshFails \/ RestoreRetries \/ RestoreDone
       \/ RestoreMeFails \/ GoOnline \/ Foreground \/ Restart \/ DrainUnauthorised
       \/ DrainAnswered \/ DrainFails \/ OtherCall \/ ScreenRefreshes
       \/ (\E f \in fetches : FetchUnauthorised(f))
       \/ (UNCHANGED <<drain, restore, flight>> /\ fetches' \subseteq fetches)
  BY DEF Next, vars, ServeLate, TokenExpires, SignIn, SignInHalfway, MeArrives, FetchFails,
     AccessExpires, SignOut, GoOffline, LoadLadder, StartPractice, StartLevel, Starts,
     FinishLevel, FinishPractice, Enqueues
<1> QED
  BY <1>1, <1>2, <1>3, <1>4, <1>5, <1>6, <1>7, <1>8, <1>9, <1>10, <1>11, <1>12, <1>13,
     <1>14, <1>15

\* Every variable of the device and of the server keeps its type; a session always has a
\* profile, although a late reply may leave a profile without a session (refreshMe); the
\* drain has something to send exactly while it runs, a play is on screen only in a
\* session, and whoever waits for a token refresh waits for one that is in flight.
THEOREM OfflineTypes == Spec => []TypeOK
<1>1. SyncInv /\ Types => TypeOK
  <2> SUFFICES ASSUME SyncInv, Types PROVE TypeOK
    OBVIOUS
  <2>1. {token, access, me, flight} \subseteq Users \cup {NoUser}
    BY DEF SyncInv, AccountsInv, Nobody
  <2>2. /\ restore \in [pc : {"off", "wait", "refresh", "me"}, tries : 0..1,
                       as : Users \cup {NoUser}]
        /\ drain \in [pc : {"off", "sent", "refresh", "resent"},
                     todo : SUBSET Ids, as : Users \cup {NoUser}]
    BY Bounds DEF SyncInv, Typed, QueueInv, Nobody, Ids
  <2>3. /\ Len(made) <= MaxRecords /\ outbox \subseteq 1..Len(made)
        /\ fetches \subseteq Fetches
    BY DEF SyncInv, QueueInv, FetchInv
  <2>4. /\ entry \in [Ids -> Users \cup {NoUser}] /\ credits \in [Ids -> Nat]
        /\ live \subseteq Users /\ players \subseteq Users
    BY DEF SyncInv, ServerInv, AccountsInv, Nobody
  <2> QED
    BY <2>1, <2>2, <2>3, <2>4
    DEF Types, SessionTypes, QueueTypes, DrainTypes, ServerTypes, LeftTypes, Attended,
        TypeOK
<1>2. SyncInv /\ SyncInv' /\ ChainInv /\ Types /\ [Next]_vars => Types'
  BY SessionTypesKeep, QueueTypesKeep, DrainTypesKeep, ServerTypesKeep, LeftTypesKeep,
     AttendedKeeps
  DEF Types
<1> QED
  BY <1>1, <1>2, InitTypes, InitChain, ChainStep, SyncAlways, PTL DEF Spec

===============================================================================
