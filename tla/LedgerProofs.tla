---------------------------- MODULE LedgerProofs ----------------------------
(***************************************************************************)
(* Proofs about Ledger for every set of users, keys, transactions and      *)
(* programs: the cached balance never leaves the audit trail and is the    *)
(* sum of the ledger, no balance is negative, no key is paid twice, and    *)
(* the requests run as if one after the other (AtomicLedger).              *)
(***************************************************************************)
EXTENDS Ledger, TLAPS

(***************************************************************************)
(* The strengthening.  A row lock belongs to a running transaction, and    *)
(* only rows of a locked profile are uncommitted ...                       *)
(***************************************************************************)
LockInv ==
    \A u \in Users :
        /\ holder[u] \in Txs => pc[holder[u]] \in Active
        /\ holder[u] = NoTx => kept[u] = Len(rows[u]) /\ cache[u] = saved[u]

(***************************************************************************)
(* ... a transaction past its pre-check has a movement to make, and one    *)
(* about to insert holds the lock and has the newest balance in hand ...   *)
(***************************************************************************)
SessionInv ==
    \A t \in Txs :
        /\ pc[t] \in {"lock", "insert"} => AtOp(t)
        /\ pc[t] = "insert" =>
              /\ holder[Current(t).user] = t
              /\ seen[t][Current(t).user] = cache[Current(t).user]

(* ... the newest cached balance is that of the newest row ... *)
NewestInv == \A u \in Users : cache[u] = LastAfter(u, Len(rows[u]))

(* ... and a keyed row lies in the ledger of the key's owner. *)
OwnerInv ==
    \A u \in Users : \A i \in 1..Len(rows[u]) :
        rows[u][i].key \in Keys => Owner[rows[u][i].key] = u

IInv ==
    /\ TypeOK
    /\ LockInv
    /\ SessionInv
    /\ NewestInv
    /\ OwnerInv
    /\ AuditTrail
    /\ GrantedOnce

-----------------------------------------------------------------------------
(* A transaction that is not past the end of its program is at a movement. *)
LEMMA CurrentIsOp ==
    ASSUME TypeOK, NEW t \in Txs, AtOp(t)
    PROVE  /\ Current(t) \in Op
           /\ Current(t).key \in Keys => Owner[Current(t).key] = Current(t).user
<1>1. prog[t] \in Programs /\ pos[t] \in DOMAIN prog[t]
  BY LedgerAssumption DEF TypeOK, AtOp
<1> QED
  BY <1>1, LedgerAssumption DEF Current

LEMMA InitIInv == Init => IInv
<1> SUFFICES ASSUME Init PROVE IInv
  OBVIOUS
<1> USE LedgerAssumption DEF Init
<1>1. TypeOK
  BY DEF TypeOK, Active
<1>2. LockInv /\ SessionInv /\ NewestInv /\ OwnerInv
  BY DEF LockInv, SessionInv, NewestInv, OwnerInv, LastAfter
<1>3. AuditTrail /\ GrantedOnce
  BY DEF AuditTrail, GrantedOnce, LastAfter
<1> QED
  BY <1>1, <1>2, <1>3 DEF IInv

(***************************************************************************)
(* Steps that touch neither the tables nor the locks.                      *)
(***************************************************************************)
LEMMA QuietStep ==
    ASSUME IInv, NEW t \in Txs,
           UNCHANGED <<rows, kept, cache, saved, holder>>,
           TypeOK', LockInv', SessionInv'
    PROVE  IInv'
BY DEF IInv, NewestInv, OwnerInv, AuditTrail, GrantedOnce, LastAfter

LEMMA BeginStep == ASSUME IInv, NEW t \in Txs, Begin(t) PROVE IInv'
<1> USE DEF IInv
<1>1. TypeOK'
  BY DEF Begin, TypeOK, Active
<1>2. LockInv'
  BY DEF Begin, TypeOK, LockInv, Active
<1>3. SessionInv'
  BY DEF Begin, TypeOK, SessionInv, AtOp, Current
<1> QED
  BY <1>1, <1>2, <1>3, QuietStep DEF Begin

LEMMA AlreadyGrantedStep ==
    ASSUME IInv, NEW t \in Txs, AlreadyGranted(t) PROVE IInv'
<1> USE DEF IInv
<1>1. TypeOK'
  BY DEF AlreadyGranted, TypeOK
<1>2. LockInv'
  BY DEF AlreadyGranted, LockInv
<1>3. SessionInv'
  BY DEF AlreadyGranted, TypeOK, SessionInv, AtOp, Current
<1> QED
  BY <1>1, <1>2, <1>3, QuietStep DEF AlreadyGranted

LEMMA NotYetGrantedStep ==
    ASSUME IInv, NEW t \in Txs, NotYetGranted(t) PROVE IInv'
<1> USE DEF IInv
<1>1. TypeOK'
  BY DEF NotYetGranted, TypeOK, Active
<1>2. LockInv'
  BY DEF NotYetGranted, TypeOK, LockInv, Active
<1>3. SessionInv'
  BY DEF NotYetGranted, TypeOK, SessionInv, AtOp, Current
<1> QED
  BY <1>1, <1>2, <1>3, QuietStep DEF NotYetGranted

LEMMA LoseInsertRaceStep ==
    ASSUME IInv, NEW t \in Txs, LoseInsertRace(t) PROVE IInv'
<1> USE DEF IInv, CacheOnConflict
<1>1. TypeOK'
  BY DEF LoseInsertRace, TypeOK, Active
<1>2. LockInv'
  BY DEF LoseInsertRace, TypeOK, LockInv, Active
<1>3. SessionInv'
  BY DEF LoseInsertRace, TypeOK, SessionInv, AtOp, Current
<1> QED
  BY <1>1, <1>2, <1>3, QuietStep DEF LoseInsertRace

(***************************************************************************)
(* The locked read: the session's copy becomes the newest balance.         *)
(***************************************************************************)
LEMMA LockProfileStep ==
    ASSUME IInv, NEW t \in Txs, LockProfile(t) PROVE IInv'
<1> USE DEF IInv
<1> DEFINE u == Current(t).user
<1>1. AtOp(t) /\ u \in Users
  <2>1. AtOp(t)
    BY DEF LockProfile, SessionInv
  <2> QED
    BY <2>1, CurrentIsOp DEF Op
<1>2. TypeOK'
  BY <1>1 DEF LockProfile, TypeOK, Active, Refreshed
<1>3. LockInv'
  BY <1>1, LedgerAssumption DEF LockProfile, TypeOK, LockInv, Active
<1>4. SessionInv'
  <2> SUFFICES ASSUME NEW s \in Txs
               PROVE  /\ pc'[s] \in {"lock", "insert"} => AtOp(s)'
                      /\ pc'[s] = "insert" =>
                            /\ holder'[Current(s).user] = s
                            /\ seen'[s][Current(s).user] = cache[Current(s).user]
    BY DEF SessionInv, LockProfile, Current
  <2>1. CASE s = t
    BY <2>1, <1>1 DEF LockProfile, TypeOK, AtOp, Refreshed
  <2>2. CASE s # t
    <3>1. pc'[s] = pc[s] /\ seen'[s] = seen[s] /\ (AtOp(s)' <=> AtOp(s))
      BY <2>2 DEF LockProfile, TypeOK, AtOp
    <3>2. ASSUME pc[s] = "insert" PROVE holder'[Current(s).user] = s
      <4>1. holder[Current(s).user] = s
        BY <3>2 DEF SessionInv
      <4>2. Current(s).user # u
        BY <4>1, <2>2, LedgerAssumption DEF LockProfile
      <4> QED
        BY <4>1, <4>2, <1>1 DEF LockProfile, TypeOK
    <3> QED
      BY <3>1, <3>2 DEF SessionInv
  <2> QED
    BY <2>1, <2>2
<1>5. NewestInv' /\ OwnerInv' /\ AuditTrail' /\ GrantedOnce'
  BY DEF LockProfile, NewestInv, OwnerInv, AuditTrail, GrantedOnce, LastAfter
<1> QED
  BY <1>2, <1>3, <1>4, <1>5

(***************************************************************************)
(* The insert: the new row continues the trail of a profile whose lock the *)
(* transaction holds, from the newest balance, with a fresh key.           *)
(***************************************************************************)
LEMMA InsertRowStep ==
    ASSUME IInv, NEW t \in Txs, InsertRow(t) PROVE IInv'
<1> USE DEF IInv
<1> DEFINE u == Current(t).user
           n == Len(rows[u])
           r == [delta |-> Current(t).delta,
                 key   |-> Current(t).key,
                 after |-> BalanceAfter(t)]
<1>1. AtOp(t) /\ holder[u] = t /\ seen[t][u] = cache[u]
  BY DEF InsertRow, SessionInv
<1>2. u \in Users /\ r \in Row
  <2>1. Current(t) \in Op
    BY <1>1, CurrentIsOp
  <2>2. BalanceAfter(t) \in Nat
    BY <2>1 DEF InsertRow, Covered, BalanceAfter, TypeOK, Op
  <2> QED
    BY <2>1, <2>2 DEF Op, Row
<1>3. /\ rows' = [rows EXCEPT ![u] = Append(@, r)]
      /\ cache' = [cache EXCEPT ![u] = r.after]
      /\ seen' = [seen EXCEPT ![t][u] = r.after]
      /\ pc' = [pc EXCEPT ![t] = "check"]
      /\ pos' = [pos EXCEPT ![t] = @ + 1]
      /\ UNCHANGED <<kept, saved, holder, prog>>
  BY DEF InsertRow
<1>4. /\ Len(rows'[u]) = n + 1
      /\ rows'[u][n + 1] = r
      /\ \A i \in 1..n : rows'[u][i] = rows[u][i]
      /\ \A v \in Users \ {u} : rows'[v] = rows[v]
  BY <1>2, <1>3 DEF TypeOK
<1>5. TypeOK'
  <2>1. Append(rows[u], r) \in Seq(Row) /\ r.after \in Nat
    <3>1. rows[u] \in Seq(Row) /\ r.after \in Nat
      BY <1>2 DEF TypeOK, Row
    <3> HIDE DEF r
    <3> QED
      BY <3>1, <1>2
  <2>2. rows' \in [Users -> Seq(Row)] /\ cache' \in [Users -> Nat]
    BY <1>3, <2>1 DEF TypeOK
  <2>3. seen' \in [Txs -> [Users -> Nat]]
    BY <1>3, <2>1 DEF TypeOK
  <2>4. pc' \in [Txs -> Active \cup {"idle", "committed", "aborted"}]
        /\ pos' \in [Txs -> Nat \ {0}]
    BY <1>3 DEF TypeOK, Active
  <2> QED
    BY <1>3, <2>2, <2>3, <2>4 DEF TypeOK
<1>6. LockInv'
  BY <1>1, <1>2, <1>3, LedgerAssumption DEF LockInv, TypeOK, Active
<1>7. SessionInv'
  <2> SUFFICES ASSUME NEW s \in Txs
               PROVE  /\ pc'[s] \in {"lock", "insert"} => AtOp(s)'
                      /\ pc'[s] = "insert" =>
                            /\ holder[Current(s)'.user] = s
                            /\ seen'[s][Current(s)'.user] = cache'[Current(s)'.user]
    BY <1>3 DEF SessionInv
  <2>1. CASE s = t
    BY <2>1, <1>3 DEF TypeOK
  <2>2. CASE s # t
    <3>1. /\ pc'[s] = pc[s] /\ seen'[s] = seen[s]
          /\ (AtOp(s)' <=> AtOp(s)) /\ Current(s)' = Current(s)
      BY <2>2, <1>3 DEF TypeOK, AtOp, Current
    <3>2. ASSUME pc[s] = "insert"
          PROVE  cache'[Current(s).user] = cache[Current(s).user]
      <4>1. Current(s).user # u
        BY <3>2, <2>2, <1>1 DEF SessionInv
      <4> QED
        BY <4>1, <1>2, <1>3 DEF TypeOK
    <3> QED
      BY <3>1, <3>2 DEF SessionInv
  <2> QED
    BY <2>1, <2>2
<1>n0. n \in Nat /\ n + 1 # 0
  BY <1>2 DEF TypeOK
<1>8. NewestInv'
  <2> SUFFICES ASSUME NEW v \in Users
               PROVE  cache'[v] = LastAfter(v, Len(rows[v]))'
    BY DEF NewestInv
  <2>1. CASE v = u
    <3>1. cache'[u] = r.after
      BY <1>2, <1>3 DEF TypeOK
    <3> QED
      BY <2>1, <3>1, <1>4, <1>n0 DEF LastAfter
  <2>2. CASE v # u
    BY <2>2, <1>3, <1>4 DEF NewestInv, LastAfter, TypeOK
  <2> QED
    BY <2>1, <2>2
<1>rows. \A v \in Users : \A j \in 1..Len(rows'[v]) :
           \/ j \in 1..Len(rows[v]) /\ rows'[v][j] = rows[v][j]
           \/ v = u /\ j = n + 1 /\ rows'[v][j] = r
  <2> TAKE v \in Users
  <2> TAKE j \in 1..Len(rows'[v])
  <2>1. CASE v = u /\ j = n + 1
    BY <2>1, <1>4
  <2>2. CASE v = u /\ j # n + 1
    BY <2>2, <1>4, <1>n0
  <2>3. CASE v # u
    BY <2>3, <1>4
  <2> QED
    BY <2>1, <2>2, <2>3
<1>9. OwnerInv'
  <2>1. r.key \in Keys => Owner[r.key] = u
    BY <1>1, CurrentIsOp
  <2> QED
    BY <2>1, <1>rows DEF OwnerInv
<1>10. AuditTrail'
  <2>1. r.after = LastAfter(u, n) + r.delta
    BY <1>1, <1>2, CurrentIsOp
    DEF NewestInv, LastAfter, BalanceAfter, TypeOK, Op
  <2> SUFFICES ASSUME NEW v \in Users
               PROVE  /\ kept[v] <= Len(rows'[v])
                      /\ saved[v] = LastAfter(v, kept[v])'
                      /\ \A i \in 1..Len(rows'[v]) :
                            rows'[v][i].after
                              = LastAfter(v, i - 1)' + rows'[v][i].delta
    BY <1>3 DEF AuditTrail
  <2>2. CASE v # u
    BY <2>2, <1>3, <1>4 DEF AuditTrail, LastAfter
  <2>3. CASE v = u
    <3>1. kept[v] \in Nat /\ kept[v] <= n /\ kept'[v] = kept[v]
      BY <2>3, <1>3 DEF AuditTrail, TypeOK
    <3>2. ASSUME NEW m \in 0..n PROVE LastAfter(v, m)' = LastAfter(v, m)
      <4>1. CASE m = 0
        BY <4>1 DEF LastAfter
      <4>2. CASE m \in 1..n
        BY <4>2, <2>3, <1>4 DEF LastAfter
      <4> QED
        BY <4>1, <4>2, <1>n0
    <3>3. ASSUME NEW i \in 1..(n + 1)
          PROVE  rows'[v][i].after = LastAfter(v, i - 1)' + rows'[v][i].delta
      <4>1. CASE i \in 1..n
        <5>1. i - 1 \in 0..n
          BY <4>1, <1>n0
        <5>2. LastAfter(v, i - 1)' = LastAfter(v, i - 1)
          BY <5>1, <3>2
        <5> QED
          BY <4>1, <5>2, <2>3, <1>4 DEF AuditTrail
      <4>2. CASE i = n + 1
        <5>1. i - 1 = n
          BY <4>2, <1>n0
        <5>2. LastAfter(v, i - 1)' = LastAfter(v, i - 1)
          BY <5>1, <3>2, <1>n0
        <5>3. rows'[v][i] = r
          BY <4>2, <2>3, <1>4
        <5> QED
          BY <5>1, <5>2, <5>3, <2>1, <2>3
      <4> QED
        BY <4>1, <4>2, <1>n0
    <3>4. kept[v] <= Len(rows'[v])
      BY <2>3, <1>4, <3>1, <1>n0
    <3>5. saved[v] = LastAfter(v, kept[v])'
      <4>1. kept[v] \in 0..n
        BY <3>1, <1>n0
      <4>2. LastAfter(v, kept[v])' = LastAfter(v, kept[v])
        BY <4>1, <3>1, <3>2
      <4> QED
        BY <4>2 DEF AuditTrail
    <3> QED
      BY <2>3, <1>4, <3>3, <3>4, <3>5
  <2> QED
    BY <2>2, <2>3
<1>11. GrantedOnce'
  <2>1. \A i \in 1..n : r.key # NoKey => rows[u][i].key # r.key
    BY DEF InsertRow, KeyTaken
  <2>2. \A v \in Users : \A j \in 1..Len(rows[v]) :
           r.key # NoKey => rows[v][j].key # r.key
    <3>1. r.key \in Keys \cup {NoKey}
      BY <1>2 DEF Row
    <3>2. r.key \in Keys => Owner[r.key] = u
      BY <1>1, CurrentIsOp
    <3> HIDE DEF r, u, n
    <3> SUFFICES ASSUME NEW v \in Users, NEW j \in 1..Len(rows[v]),
                        r.key # NoKey, rows[v][j].key = r.key
                 PROVE  FALSE
      OBVIOUS
    <3>3. v = u
      BY <3>1, <3>2 DEF OwnerInv
    <3> QED
      BY <2>1, <3>3 DEF n
  <2> SUFFICES ASSUME NEW v \in Users, NEW w \in Users,
                      NEW i \in 1..Len(rows'[v]), NEW j \in 1..Len(rows'[w]),
                      rows'[v][i].key # NoKey,
                      rows'[v][i].key = rows'[w][j].key
               PROVE  v = w /\ i = j
    BY DEF GrantedOnce
  <2> HIDE DEF r, u, n
  <2> DEFINE Old(x, k) == k \in 1..Len(rows[x]) /\ rows'[x][k] = rows[x][k]
             New(x, k) == x = u /\ k = n + 1 /\ rows'[x][k] = r
  <2>3. (Old(v, i) \/ New(v, i)) /\ (Old(w, j) \/ New(w, j))
    BY <1>rows
  <2>4. CASE Old(v, i) /\ Old(w, j)
    BY <2>4 DEF GrantedOnce
  <2>5. CASE Old(v, i) /\ New(w, j)
    BY <2>2, <2>5
  <2>6. CASE New(v, i) /\ Old(w, j)
    BY <2>2, <2>6
  <2>7. CASE New(v, i) /\ New(w, j)
    BY <2>7
  <2> QED
    BY <2>3, <2>4, <2>5, <2>6, <2>7
<1> QED
  BY <1>5, <1>6, <1>7, <1>8, <1>9, <1>10, <1>11

(***************************************************************************)
(* The end of a transaction: its uncommitted rows are cut off, or kept.    *)
(***************************************************************************)
LEMMA UndoStep ==
    ASSUME IInv, NEW t \in Txs, Undo(t) PROVE IInv'
<1> USE DEF IInv
<1>1. \A u \in Users :
         /\ holder[u] = t => rows'[u] = SubSeq(rows[u], 1, kept[u])
         /\ holder[u] # t => rows'[u] = rows[u]
         /\ cache'[u] = IF holder[u] = t THEN saved[u] ELSE cache[u]
         /\ holder'[u] = IF holder[u] = t THEN NoTx ELSE holder[u]
  BY DEF Undo, Released, RolledBackCache
<1>2. \A u \in Users : kept[u] \in Nat /\ kept[u] <= Len(rows[u])
  BY DEF TypeOK, AuditTrail
<1>3. \A u \in Users :
         /\ rows'[u] \in Seq(Row)
         /\ Len(rows'[u]) = IF holder[u] = t THEN kept[u] ELSE Len(rows[u])
         /\ \A i \in 1..Len(rows'[u]) : rows'[u][i] = rows[u][i]
         /\ Len(rows'[u]) <= Len(rows[u])
  <2> TAKE u \in Users
  <2>1. rows[u] \in Seq(Row)
    BY DEF TypeOK
  <2>2. CASE holder[u] = t
    <3>1. rows'[u] = SubSeq(rows[u], 1, kept[u])
      BY <2>2, <1>1
    <3>2. kept[u] \in Nat /\ kept[u] <= Len(rows[u]) /\ Len(rows[u]) \in Nat
      BY <2>1, <1>2
    <3>3. Len(rows'[u]) = kept[u]
      BY <2>1, <3>1, <3>2
    <3>4. \A i \in 1..kept[u] : rows'[u][i] = rows[u][i]
      BY <2>1, <3>1, <3>2
    <3>5. rows'[u] \in Seq(Row)
      BY <2>1, <3>1, <3>2
    <3> QED
      BY <2>2, <3>2, <3>3, <3>4, <3>5
  <2>3. CASE holder[u] # t
    BY <2>1, <2>3, <1>1
  <2> QED
    BY <2>2, <2>3
<1>4. TypeOK'
  <2>1. rows' \in [Users -> Seq(Row)]
    BY <1>3 DEF Undo
  <2>2. cache' \in [Users -> Nat] /\ holder' \in [Users -> Txs \cup {NoTx}]
    BY DEF Undo, Released, RolledBackCache, TypeOK
  <2> QED
    BY <2>1, <2>2 DEF TypeOK, Undo
<1>5. LockInv'
  BY <1>1, <1>3, LedgerAssumption DEF LockInv, TypeOK, Undo
<1>6. SessionInv'
  <2> SUFFICES ASSUME NEW s \in Txs
               PROVE  /\ pc'[s] \in {"lock", "insert"} => AtOp(s)
                      /\ pc'[s] = "insert" =>
                            /\ holder'[Current(s).user] = s
                            /\ seen[s][Current(s).user] = cache'[Current(s).user]
    BY DEF SessionInv, Undo, AtOp, Current
  <2>1. CASE s = t
    BY <2>1 DEF Undo, TypeOK
  <2>2. CASE s # t
    <3>1. pc'[s] = pc[s]
      BY <2>2 DEF Undo, TypeOK
    <3>2. ASSUME pc[s] = "insert" PROVE Current(s).user \in Users
      BY <3>2, CurrentIsOp DEF SessionInv, Op
    <3> QED
      BY <2>2, <3>1, <3>2, <1>1 DEF SessionInv
  <2> QED
    BY <2>1, <2>2
<1>7. \A u \in Users : \A m \in 0..Len(rows'[u]) :
         LastAfter(u, m)' = LastAfter(u, m)
  BY <1>3 DEF LastAfter
<1>8. NewestInv'
  <2> SUFFICES ASSUME NEW u \in Users
               PROVE  cache'[u] = LastAfter(u, Len(rows[u]))'
    BY DEF NewestInv
  <2>1. LastAfter(u, Len(rows[u]))' = LastAfter(u, Len(rows'[u]))
    <3>1. Len(rows'[u]) \in 0..Len(rows'[u])
      BY <1>3
    <3> QED
      BY <3>1, <1>7
  <2> QED
    BY <2>1, <1>1, <1>3 DEF NewestInv, AuditTrail
<1>9. OwnerInv'
  <2>1. \A u \in Users : 1..Len(rows'[u]) \subseteq 1..Len(rows[u])
    BY <1>3 DEF TypeOK
  <2> QED
    BY <1>3, <2>1 DEF OwnerInv
<1>10. AuditTrail'
  <2> SUFFICES ASSUME NEW u \in Users
               PROVE  /\ kept[u] <= Len(rows'[u])
                      /\ saved[u] = LastAfter(u, kept[u])'
                      /\ \A i \in 1..Len(rows'[u]) :
                            rows'[u][i].after
                              = LastAfter(u, i - 1)' + rows'[u][i].delta
    BY DEF AuditTrail, Undo
  <2>1. kept[u] <= Len(rows'[u])
    BY <1>2, <1>3
  <2>2. Len(rows'[u]) \in Nat /\ Len(rows[u]) \in Nat
    BY <1>3 DEF TypeOK
  <2>3. LastAfter(u, kept[u])' = LastAfter(u, kept[u])
    <3>1. kept'[u] = kept[u] /\ kept[u] \in 0..Len(rows'[u])
      BY <2>1, <2>2, <1>2 DEF Undo
    <3> QED
      BY <3>1, <1>7
  <2>4. ASSUME NEW i \in 1..Len(rows'[u])
        PROVE  rows'[u][i].after = LastAfter(u, i - 1)' + rows'[u][i].delta
    <3>1. i \in 1..Len(rows[u]) /\ i - 1 \in 0..Len(rows'[u])
      BY <2>2, <1>3
    <3>2. rows'[u][i] = rows[u][i] /\ LastAfter(u, i - 1)' = LastAfter(u, i - 1)
      BY <3>1, <1>3, <1>7
    <3> QED
      BY <3>1, <3>2 DEF AuditTrail
  <2> QED
    BY <2>1, <2>3, <2>4 DEF AuditTrail
<1>11. GrantedOnce'
  <2>1. \A u \in Users : 1..Len(rows'[u]) \subseteq 1..Len(rows[u])
    BY <1>3 DEF TypeOK
  <2> SUFFICES ASSUME NEW u \in Users, NEW v \in Users,
                      NEW i \in 1..Len(rows'[u]), NEW j \in 1..Len(rows'[v]),
                      rows'[u][i].key # NoKey,
                      rows'[u][i].key = rows'[v][j].key
               PROVE  u = v /\ i = j
    BY DEF GrantedOnce
  <2>2. rows'[u][i] = rows[u][i] /\ rows'[v][j] = rows[v][j]
    BY <1>3
  <2>3. i \in 1..Len(rows[u]) /\ j \in 1..Len(rows[v])
    BY <2>1
  <2> QED
    BY <2>2, <2>3 DEF GrantedOnce
<1> QED
  BY <1>4, <1>5, <1>6, <1>8, <1>9, <1>10, <1>11

LEMMA CommitStep ==
    ASSUME IInv, NEW t \in Txs, Commit(t) PROVE IInv'
<1> USE DEF IInv
<1>1. TypeOK'
  BY DEF Commit, Released, TypeOK
<1>2. LockInv'
  BY LedgerAssumption DEF LockInv, TypeOK, Commit, Released
<1>3. SessionInv'
  <2> SUFFICES ASSUME NEW s \in Txs
               PROVE  /\ pc'[s] \in {"lock", "insert"} => AtOp(s)
                      /\ pc'[s] = "insert" =>
                            /\ holder'[Current(s).user] = s
                            /\ seen[s][Current(s).user] = cache[Current(s).user]
    BY DEF SessionInv, Commit, AtOp, Current
  <2>1. CASE s = t
    BY <2>1 DEF Commit, TypeOK
  <2>2. CASE s # t
    <3>1. pc'[s] = pc[s]
      BY <2>2 DEF Commit, TypeOK
    <3>2. ASSUME pc[s] = "insert" PROVE Current(s).user \in Users
      BY <3>2, CurrentIsOp DEF SessionInv, Op
    <3> QED
      BY <2>2, <3>1, <3>2 DEF SessionInv, Commit, Released
  <2> QED
    BY <2>1, <2>2
<1>4. NewestInv' /\ OwnerInv' /\ GrantedOnce'
  BY DEF Commit, NewestInv, OwnerInv, GrantedOnce, LastAfter
<1>5. AuditTrail'
  BY DEF Commit, AuditTrail, NewestInv, LastAfter, TypeOK
<1> QED
  BY <1>1, <1>2, <1>3, <1>4, <1>5

-----------------------------------------------------------------------------
LEMMA NextIInv == IInv /\ [Next]_vars => IInv'
<1> SUFFICES ASSUME IInv, [Next]_vars PROVE IInv'
  OBVIOUS
<1>1. ASSUME NEW t \in Txs, Begin(t) PROVE IInv'
  BY <1>1, BeginStep
<1>2. ASSUME NEW t \in Txs, Proceed(t) PROVE IInv'
  BY <1>2, AlreadyGrantedStep, NotYetGrantedStep, LockProfileStep, InsertRowStep,
     LoseInsertRaceStep, UndoStep, CommitStep DEF Proceed, Insufficient
<1>3. ASSUME NEW t \in Txs, Crash(t) PROVE IInv'
  BY <1>3, UndoStep DEF Crash
<1>4. ASSUME NEW t \in Txs, BreakDeadlock(t) PROVE IInv'
  BY <1>4, UndoStep DEF BreakDeadlock
<1>5. CASE UNCHANGED vars
  BY <1>5 DEF vars, IInv, TypeOK, LockInv, SessionInv, NewestInv, OwnerInv,
              AuditTrail, GrantedOnce, LastAfter, AtOp, Current
<1> QED
  BY <1>1, <1>2, <1>3, <1>4, <1>5 DEF Next, AllEnded

LEMMA Invariance == Spec => []IInv
BY InitIInv, NextIInv, PTL DEF Spec

(***************************************************************************)
(* Every committed and uncommitted balance is a natural number: no request *)
(* can drive an account below zero, however requests interleave.           *)
(***************************************************************************)
THEOREM LedgerTypes == Spec => []TypeOK
<1>1. IInv => TypeOK
  BY DEF IInv
<1> QED
  BY <1>1, Invariance, PTL

(***************************************************************************)
(* The audit trail is unbroken and ends in the cached balance: no update   *)
(* of a balance is lost, for any number of concurrent requests.            *)
(***************************************************************************)
THEOREM LedgerAuditTrail == Spec => []AuditTrail
<1>1. IInv => AuditTrail
  BY DEF IInv
<1> QED
  BY <1>1, Invariance, PTL

(***************************************************************************)
(* No idempotency key is ever in the ledger twice.                         *)
(***************************************************************************)
THEOREM LedgerGrantedOnce == Spec => []GrantedOnce
<1>1. IInv => GrantedOnce
  BY DEF IInv
<1> QED
  BY <1>1, Invariance, PTL

-----------------------------------------------------------------------------
(* The cached balance and the SUM over the rows: facts about the fold of CacheIsSum. *)
Sums == INSTANCE FoldFacts WITH Op <- LAMBDA sum, r : sum + r.delta

(* The fold of CacheIsSum is the one the facts of FoldFacts are about. *)
LEMMA FoldIsSum ==
    ASSUME NEW s
    PROVE  Sums!Fold(0, s) = FoldLeft(LAMBDA sum, r : sum + r.delta, 0, s)
BY DEF Sums!Fold, Sums!FoldLeft, Sums!MapThenFoldSet, Sums!Max, FoldLeft, MapThenFoldSet, Max

(* The deltas of the first n rows add up to the balance the n-th row carries. *)
LEMMA SumIsLast ==
    ASSUME TypeOK, AuditTrail, NEW u \in Users, NEW n \in 0..Len(rows[u])
    PROVE  Sums!Fold(0, SubSeq(rows[u], 1, n)) = LastAfter(u, n)
<1> DEFINE T == {m \in Nat : m <= Len(rows[u]) =>
                   Sums!Fold(0, SubSeq(rows[u], 1, m)) = LastAfter(u, m)}
<1>0. rows[u] \in Seq(Row) /\ Len(rows[u]) \in Nat
  BY DEF TypeOK
<1>1. 0 \in T
  <2>1. SubSeq(rows[u], 1, 0) = <<>>
    BY <1>0
  <2> QED
    BY <2>1, Sums!FoldEmpty DEF LastAfter
<1>2. ASSUME NEW m \in Nat, m \in T PROVE m + 1 \in T
  <2> SUFFICES ASSUME m + 1 <= Len(rows[u])
               PROVE  Sums!Fold(0, SubSeq(rows[u], 1, m + 1)) = LastAfter(u, m + 1)
    OBVIOUS
  <2> DEFINE s == SubSeq(rows[u], 1, m)
             x == rows[u][m + 1]
  <2>1. s \in Seq(Row) /\ x \in Row /\ SubSeq(rows[u], 1, m + 1) = Append(s, x)
    BY <1>0, Sums!OneMore
  <2>2. Sums!Fold(0, s) = LastAfter(u, m)
    BY <1>0, <1>2
  <2>3. x.after = LastAfter(u, m) + x.delta
    BY <1>0 DEF AuditTrail
  <2>4. LastAfter(u, m + 1) = x.after
    BY DEF LastAfter
  <2> DEFINE v == SubSeq(rows[u], 1, m + 1)
  <2>5. v = Append(s, x)
    BY <2>1
  <2> HIDE DEF s, x, v
  <2>6. Sums!Fold(0, v) = Sums!Fold(0, s) + x.delta
    BY <2>1, <2>5, Sums!FoldAppend
  <2> QED
    BY <2>2, <2>3, <2>4, <2>6 DEF v
<1> HIDE DEF T
<1>3. n \in T
  BY <1>0, <1>1, <1>2, Sums!Induct
<1> QED
  BY <1>0, <1>3 DEF T

(* An unbroken trail that ends in the cached balance makes that balance the sum. *)
LEMMA TrailMakesSum == TypeOK /\ AuditTrail => CacheIsSum
<1> SUFFICES ASSUME TypeOK, AuditTrail, NEW u \in Users
             PROVE  saved[u] = Sums!Fold(0, SubSeq(rows[u], 1, kept[u]))
  BY FoldIsSum DEF CacheIsSum
<1>1. kept[u] \in 0..Len(rows[u]) /\ saved[u] = LastAfter(u, kept[u])
  BY DEF TypeOK, AuditTrail
<1> QED
  BY <1>1, SumIsLast

(***************************************************************************)
(* The cached balance is the sum of the committed movements, whatever the  *)
(* number of rows and however many requests run at once: the promise the   *)
(* ledger's docstring makes, for every instance of the constants.          *)
(***************************************************************************)
THEOREM LedgerCacheIsSum == Spec => []CacheIsSum
<1>1. IInv => CacheIsSum
  BY TrailMakesSum DEF IInv
<1> QED
  BY <1>1, Invariance, PTL

-----------------------------------------------------------------------------
(***************************************************************************)
(* The requests serialize.  While a transaction t runs, what it has done   *)
(* to the profiles it holds is what posting its movements so far does to   *)
(* any committed book that agrees with it on those profiles: the others    *)
(* may commit in between, but only to profiles t does not hold.            *)
(***************************************************************************)

Books == INSTANCE FoldFacts WITH Op <- LAMBDA book, op : Atomic!Move(book, op)

(* The book of the abstract ledger a request starts from. *)
Start(bal, pk) == [balance |-> bal, paid |-> pk, covered |-> TRUE]

(* The keys in the ledgers of the profiles that t holds. *)
HeldKeys(t) ==
    {k \in Keys : /\ holder[Owner[k]] = t
                  /\ \E i \in 1..Len(rows[Owner[k]]) : rows[Owner[k]][i].key = k}

(* Committed balances and keys that agree with the ones t works on. *)
Compatible(t, bal, pk) ==
    /\ PaidKeys \subseteq pk
    /\ \A u \in Users : holder[u] = t => bal[u] = saved[u]
    /\ \A k \in pk : holder[Owner[k]] = t => k \in PaidKeys

(* That book after what t has done so far. *)
Reached(t, bal, pk) ==
    [balance |-> [u \in Users |-> IF holder[u] = t THEN cache[u] ELSE bal[u]],
     paid    |-> pk \cup HeldKeys(t),
     covered |-> TRUE]

(* The movements t has behind it. *)
Made(t) == SubSeq(prog[t], 1, pos[t] - 1)

(* t's work so far is what posting its movements one after the other does. *)
Posted(t) ==
    \A bal \in [Users -> Nat], pk \in SUBSET Keys :
        Compatible(t, bal, pk) => Books!Fold(Start(bal, pk), Made(t)) = Reached(t, bal, pk)

(* A running transaction is at a movement of its program, or just past the end. *)
ProgramOk(t) ==
    /\ pc[t] = "idle" => pos[t] = 1
    /\ pc[t] \in Active => prog[t] \in Programs /\ pos[t] <= Len(prog[t]) + 1

ProgramInv == \A t \in Txs : ProgramOk(t)

PostedInv == \A t \in Txs : pc[t] \in Active => Posted(t)

(* The invariant the refinement rests on. *)
SerialInv == IInv /\ ProgramInv /\ PostedInv

(* Post's fold is the one the facts of FoldFacts are about. *)
LEMMA FoldIsBook ==
    ASSUME NEW b, NEW s
    PROVE  Books!Fold(b, s) = Atomic!FoldLeft(Atomic!Move, b, s)
BY DEF Books!Fold, Books!FoldLeft, Books!MapThenFoldSet, Books!Max,
       Atomic!FoldLeft, Atomic!MapThenFoldSet, Atomic!Max

(* Nothing has run: no transaction is active. *)
LEMMA InitSerial == Init => SerialInv
BY InitIInv DEF Init, SerialInv, ProgramInv, ProgramOk, PostedInv, Active

(* No step takes a transaction beyond the end of its program. *)
LEMMA ProgramStep ==
    ASSUME IInv, ProgramInv, [Next]_vars
    PROVE  ProgramInv'
<1> SUFFICES ASSUME NEW s \in Txs
             PROVE  ProgramOk(s)'
  BY DEF ProgramInv
<1>1. ProgramOk(s)
  BY DEF ProgramInv
<1>2. /\ pc \in [Txs -> Active \cup {"idle", "committed", "aborted"}]
      /\ pos \in [Txs -> Nat \ {0}] /\ prog \in [Txs -> Programs \cup {<<>>}]
  BY DEF IInv, TypeOK
<1>3. \A p \in Programs : Len(p) \in Nat
  BY LedgerAssumption
<1>4. ASSUME NEW t \in Txs, Begin(t) PROVE ProgramOk(s)'
  BY <1>1, <1>2, <1>3, <1>4 DEF Begin, Active, ProgramOk
<1>5. ASSUME NEW t \in Txs, AlreadyGranted(t) \/ NotYetGranted(t) \/ LockProfile(t)
        \/ InsertRow(t) \/ LoseInsertRace(t)
      PROVE ProgramOk(s)'
  <2>1. /\ prog' = prog /\ pc[t] \in Active /\ AtOp(t)
        /\ \E x \in Active : pc' = [pc EXCEPT ![t] = x]
        /\ pos' = pos \/ pos' = [pos EXCEPT ![t] = @ + 1]
    BY <1>2, <1>5 DEF AlreadyGranted, NotYetGranted, LockProfile, InsertRow,
                      LoseInsertRace, Active, IInv, SessionInv
  <2>2. pos[t] <= Len(prog[t]) /\ prog[t] \in Programs /\ Len(prog[t]) \in Nat
    BY <2>1, <1>2, <1>3 DEF AtOp, ProgramInv, ProgramOk
  <2> QED
    BY <1>1, <1>2, <2>1, <2>2 DEF Active, ProgramOk
<1>6. ASSUME NEW t \in Txs, Undo(t) \/ Commit(t)
      PROVE ProgramOk(s)'
  BY <1>1, <1>2, <1>6 DEF Undo, Commit, Active, ProgramOk
<1>7. CASE UNCHANGED vars
  BY <1>1, <1>7 DEF vars, ProgramOk
<1>8. ASSUME NEW t \in Txs, Begin(t) \/ Proceed(t) \/ Crash(t) \/ BreakDeadlock(t)
      PROVE ProgramOk(s)'
  BY <1>8, <1>4, <1>5, <1>6 DEF Proceed, Insufficient, Crash, BreakDeadlock
<1> QED
  BY <1>7, <1>8 DEF Next, AllEnded

(* Every key is built from the id of one user. *)
LEMMA OwnersAreUsers == \A k \in Keys : Owner[k] \in Users
BY LedgerAssumption DEF LedgerAssumption

(* What a step leaves alone of what s works on. *)
LEMMA PostedStays ==
    ASSUME IInv, NEW s \in Txs, Posted(s),
           prog'[s] = prog[s], pos'[s] = pos[s], PaidKeys \subseteq PaidKeys',
           \A u \in Users : /\ holder'[u] = s <=> holder[u] = s
                            /\ holder[u] = s => /\ cache'[u] = cache[u]
                                                /\ saved'[u] = saved[u]
                                                /\ rows'[u] = rows[u]
                                                /\ kept'[u] = kept[u]
    PROVE  Posted(s)'
<1> SUFFICES ASSUME NEW bal \in [Users -> Nat], NEW pk \in SUBSET Keys,
                    Compatible(s, bal, pk)'
             PROVE  Books!Fold(Start(bal, pk), Made(s)') = Reached(s, bal, pk)'
  BY DEF Posted, Start
<1>1. Made(s)' = Made(s)
  BY DEF Made
<1>2. HeldKeys(s)' = HeldKeys(s)
  BY OwnersAreUsers DEF HeldKeys
<1>3. Reached(s, bal, pk)' = Reached(s, bal, pk)
  BY <1>2 DEF Reached
<1>4. Compatible(s, bal, pk)
  BY OwnersAreUsers DEF Compatible, PaidKeys
<1>5. Books!Fold(Start(bal, pk), Made(s)) = Reached(s, bal, pk)
  BY <1>4 DEF Posted
<1> QED
  BY <1>1, <1>3, <1>5

(* The transactions other than t, when t writes only what it holds. *)
LEMMA OthersStay ==
    ASSUME IInv, PostedInv, NEW t \in Txs, NEW s \in Txs \ {t}, pc'[s] \in Active,
           \E x : pc' = [pc EXCEPT ![t] = x],
           \E x : prog' = [prog EXCEPT ![t] = x],
           \E x : pos' = [pos EXCEPT ![t] = x],
           PaidKeys \subseteq PaidKeys',
           \A u \in Users : /\ holder'[u] = s <=> holder[u] = s
                            /\ holder[u] = s => /\ cache'[u] = cache[u]
                                                /\ saved'[u] = saved[u]
                                                /\ rows'[u] = rows[u]
                                                /\ kept'[u] = kept[u]
    PROVE  Posted(s)'
<1>1. pc'[s] = pc[s] /\ prog'[s] = prog[s] /\ pos'[s] = pos[s]
  BY DEF IInv, TypeOK
<1>2. Posted(s)
  BY <1>1 DEF PostedInv
<1> QED
  BY <1>1, <1>2, PostedStays

(* What t has made grows by the movement it is at. *)
LEMMA MadeMore ==
    ASSUME IInv, ProgramInv, NEW t \in Txs, pc[t] \in Active, AtOp(t),
           prog' = prog, pos' = [pos EXCEPT ![t] = @ + 1], NEW b
    PROVE  Books!Fold(b, Made(t)') = Atomic!Move(Books!Fold(b, Made(t)), Current(t))
<1> DEFINE p == prog[t]
           n == pos[t] - 1
<1>1. p \in Seq(Op) /\ n \in Nat /\ n + 1 <= Len(p) /\ pos[t] = n + 1 /\ pos'[t] = (n + 1) + 1
  BY LedgerAssumption DEF ProgramInv, ProgramOk, AtOp, IInv, TypeOK
<1>2. SubSeq(p, 1, n) \in Seq(Op) /\ p[n + 1] \in Op
      /\ SubSeq(p, 1, n + 1) = Append(SubSeq(p, 1, n), p[n + 1])
  BY <1>1, Books!OneMore
<1>3. Made(t)' = SubSeq(p, 1, n + 1) /\ Made(t) = SubSeq(p, 1, n) /\ Current(t) = p[n + 1]
  <2>1. (pos[t] - 1)' = n + 1
    BY <1>1
  <2> QED
    BY <1>1, <2>1 DEF Made, Current
<1> DEFINE s == SubSeq(p, 1, n)
           x == p[n + 1]
           v == SubSeq(p, 1, n + 1)
<1>4. s \in Seq(Op) /\ x \in Op /\ v = Append(s, x)
  BY <1>2
<1> HIDE DEF s, x, v
<1>5. Books!Fold(b, v) = Atomic!Move(Books!Fold(b, s), x)
  BY <1>4, Books!FoldAppend
<1> QED
  BY <1>3, <1>5 DEF s, x, v

(* A movement whose key is paid already leaves the book as it is. *)
LEMMA PaidTwice ==
    ASSUME NEW book, NEW op, op.key \in book.paid
    PROVE  Atomic!Move(book, op) = book
BY DEF Atomic!Move

(* A movement whose key is not paid and that the account covers takes effect. *)
LEMMA PaidNow ==
    ASSUME NEW b, NEW pk, NEW op, op.key \notin pk, b[op.user] + op.delta >= 0
    PROVE  Atomic!Move([balance |-> b, paid |-> pk, covered |-> TRUE], op)
             = [balance |-> [b EXCEPT ![op.user] = @ + op.delta],
                paid    |-> pk \cup ({op.key} \ {NoKey}),
                covered |-> TRUE]
<1> DEFINE book == [balance |-> b, paid |-> pk, covered |-> TRUE]
<1>1. book.balance = b /\ book.paid = pk /\ book.covered = TRUE
  OBVIOUS
<1> HIDE DEF book
<1>2. (book.covered /\ book.balance[op.user] + op.delta >= 0) = TRUE
  BY <1>1
<1>3. Atomic!Move(book, op)
        = [balance |-> [book.balance EXCEPT ![op.user] = @ + op.delta],
           paid    |-> book.paid \cup ({op.key} \ {NoKey}),
           covered |-> book.covered /\ book.balance[op.user] + op.delta >= 0]
  BY <1>1 DEF Atomic!Move
<1>4. Atomic!Move(book, op)
        = [balance |-> [b EXCEPT ![op.user] = @ + op.delta],
           paid    |-> pk \cup ({op.key} \ {NoKey}),
           covered |-> TRUE]
  BY <1>1, <1>2, <1>3, Zenon
<1> QED
  BY <1>4 DEF book

(* A request that begins holds nothing and has moved nothing. *)
LEMMA BeginPosted ==
    ASSUME SerialInv, NEW t \in Txs, Begin(t)
    PROVE  PostedInv'
<1> USE DEF SerialInv
<1>1. UNCHANGED <<rows, kept, cache, saved, holder, pos>>
      /\ (\E x : pc' = [pc EXCEPT ![t] = x]) /\ (\E x : prog' = [prog EXCEPT ![t] = x])
  BY DEF Begin
<1>2. PaidKeys' = PaidKeys
  BY <1>1 DEF PaidKeys
<1>3. ASSUME NEW s \in Txs \ {t}, pc'[s] \in Active PROVE Posted(s)'
  <2>1. pos' = [pos EXCEPT ![t] = pos[t]]
    BY <1>1 DEF IInv, TypeOK
  <2> QED
    BY <1>1, <1>2, <1>3, <2>1, OthersStay
<1>4. Posted(t)'
  <2>1. pos[t] = 1 /\ pc[t] = "idle"
    BY DEF Begin, ProgramInv, ProgramOk
  <2>2. \A u \in Users : holder[u] # t
    BY <2>1 DEF IInv, LockInv, Active
  <2> SUFFICES ASSUME NEW bal \in [Users -> Nat], NEW pk \in SUBSET Keys
               PROVE  Books!Fold(Start(bal, pk), Made(t)') = Reached(t, bal, pk)'
    BY DEF Posted, Start
  <2>3. HeldKeys(t)' = {}
    BY <1>1, <2>2, OwnersAreUsers DEF HeldKeys
  <2>4. Reached(t, bal, pk)' = Start(bal, pk)
    <3>1. [u \in Users |-> IF holder'[u] = t THEN cache'[u] ELSE bal[u]] = bal
      BY <1>1, <2>2
    <3> QED
      BY <2>3, <3>1 DEF Reached, Start
  <2>5. Made(t)' = <<>>
    <3>1. prog'[t] \in Seq(Op) /\ (pos[t] - 1)' = 0
      BY <1>1, <2>1, LedgerAssumption DEF Begin, IInv, TypeOK
    <3> QED
      BY <3>1 DEF Made
  <2> QED
    BY <2>4, <2>5, Books!FoldEmpty
<1> QED
  BY <1>3, <1>4 DEF PostedInv

(* The key of a movement is NoKey, or a key of the user whose profile it moves. *)
LEMMA CurrentKey ==
    ASSUME IInv, NEW t \in Txs, AtOp(t)
    PROVE  /\ Current(t).user \in Users /\ Current(t).delta \in Int
           /\ Current(t).key \in Keys \cup {NoKey} /\ NoKey \notin Keys
           /\ Current(t).key # NoKey => Current(t).key \in Keys /\ Owner[Current(t).key] = Current(t).user
BY CurrentIsOp, LedgerAssumption DEF IInv, Op

(* A call that finds its key paid moves nothing. *)
LEMMA NothingMoved ==
    ASSUME SerialInv, NEW t \in Txs, pc[t] \in Active, AtOp(t),
           UNCHANGED <<rows, kept, cache, saved, holder, prog>>,
           \E x : pc' = [pc EXCEPT ![t] = x],
           pos' = [pos EXCEPT ![t] = @ + 1],
           Current(t).key \in PaidKeys \cup HeldKeys(t)
    PROVE  PostedInv'
<1> USE DEF SerialInv
<1>1. PaidKeys' = PaidKeys
  BY DEF PaidKeys
<1>2. ASSUME NEW s \in Txs \ {t}, pc'[s] \in Active PROVE Posted(s)'
  <2>1. (\E x : pos' = [pos EXCEPT ![t] = x]) /\ prog' = [prog EXCEPT ![t] = prog[t]]
    BY DEF IInv, TypeOK
  <2> QED
    BY <1>1, <1>2, <2>1, OthersStay
<1>3. Posted(t)'
  <2> SUFFICES ASSUME NEW bal \in [Users -> Nat], NEW pk \in SUBSET Keys,
                      Compatible(t, bal, pk)'
               PROVE  Books!Fold(Start(bal, pk), Made(t)') = Reached(t, bal, pk)'
    BY DEF Posted, Start
  <2>1. Compatible(t, bal, pk) /\ Reached(t, bal, pk)' = Reached(t, bal, pk)
    BY <1>1 DEF Compatible, Reached, HeldKeys
  <2>2. Books!Fold(Start(bal, pk), Made(t)) = Reached(t, bal, pk)
    BY <2>1 DEF PostedInv, Posted
  <2>3. Current(t).key \in Reached(t, bal, pk).paid
    BY <2>1 DEF Reached, Compatible
  <2>4. Atomic!Move(Reached(t, bal, pk), Current(t)) = Reached(t, bal, pk)
    BY <2>3, PaidTwice
  <2> QED
    BY <2>1, <2>2, <2>4, MadeMore
<1> QED
  BY <1>2, <1>3 DEF PostedInv

(* The pre-check found the key among the committed rows or t's own. *)
LEMMA AlreadyGrantedPosted ==
    ASSUME SerialInv, NEW t \in Txs, AlreadyGranted(t)
    PROVE  PostedInv'
<1>1. /\ pc[t] \in Active /\ AtOp(t) /\ UNCHANGED <<rows, kept, cache, saved, holder, prog>>
      /\ pc' = [pc EXCEPT ![t] = pc[t]] /\ pos' = [pos EXCEPT ![t] = @ + 1]
  BY DEF AlreadyGranted, Active, SerialInv, IInv, TypeOK
<1>2. Current(t).key \in Keys /\ Owner[Current(t).key] = Current(t).user
      /\ Current(t).user \in Users
  BY <1>1, CurrentKey DEF AlreadyGranted, SerialInv
<1>3. Current(t).key \in PaidKeys \cup HeldKeys(t)
  <2> DEFINE u == Current(t).user
             k == Current(t).key
  <2>1. PICK i \in 1..Len(rows[u]) : rows[u][i].key = k /\ (i <= kept[u] \/ holder[u] = t)
    BY DEF AlreadyGranted, Visible
  <2>2. rows[u] \in Seq(Row) /\ kept[u] \in Nat
    BY <1>2 DEF SerialInv, IInv, TypeOK
  <2>3. CASE i <= kept[u]
    <3>1. i \in 1..kept[u]
      BY <2>1, <2>2, <2>3
    <3> QED
      BY <1>2, <2>1, <3>1 DEF PaidKeys
  <2>4. CASE holder[u] = t
    BY <1>2, <2>1, <2>4 DEF HeldKeys
  <2> QED
    BY <2>1, <2>3, <2>4
<1> QED
  BY <1>1, <1>3, NothingMoved

(* The index refused the key: the row that has it is in a ledger t holds. *)
LEMMA LoseInsertRacePosted ==
    ASSUME SerialInv, NEW t \in Txs, LoseInsertRace(t)
    PROVE  PostedInv'
<1>1. /\ pc[t] \in Active /\ pc[t] = "insert" /\ UNCHANGED <<rows, kept, cache, saved, holder, prog>>
      /\ pc' = [pc EXCEPT ![t] = "check"] /\ pos' = [pos EXCEPT ![t] = @ + 1]
  BY DEF LoseInsertRace, Active, CacheOnConflict
<1>2. AtOp(t) /\ holder[Current(t).user] = t
  BY <1>1 DEF SerialInv, IInv, SessionInv
<1>3. Current(t).key \in HeldKeys(t)
  BY <1>2, CurrentKey DEF LoseInsertRace, KeyTaken, HeldKeys, SerialInv
<1> QED
  BY <1>1, <1>2, <1>3, NothingMoved

(* A pre-check that finds nothing changes nothing yet. *)
LEMMA NotYetGrantedPosted ==
    ASSUME SerialInv, NEW t \in Txs, NotYetGranted(t)
    PROVE  PostedInv'
<1> SUFFICES ASSUME NEW s \in Txs, pc'[s] \in Active PROVE Posted(s)'
  BY DEF PostedInv
<1>1. UNCHANGED <<rows, kept, cache, saved, holder, prog, pos>> /\ pc[t] \in Active
      /\ pc' = [pc EXCEPT ![t] = "lock"]
  BY DEF NotYetGranted, Active
<1>2. pc[s] \in Active
  BY <1>1 DEF SerialInv, IInv, TypeOK
<1>3. PaidKeys' = PaidKeys
  BY <1>1 DEF PaidKeys
<1> QED
  BY <1>1, <1>2, <1>3, PostedStays DEF SerialInv, PostedInv

(* Locking a profile nobody holds: its newest balance and rows are the committed ones. *)
LEMMA LockProfilePosted ==
    ASSUME SerialInv, NEW t \in Txs, LockProfile(t)
    PROVE  PostedInv'
<1> USE DEF SerialInv
<1> DEFINE u == Current(t).user
<1>1. /\ UNCHANGED <<rows, kept, cache, saved, prog, pos>> /\ pc[t] \in Active
      /\ pc' = [pc EXCEPT ![t] = "insert"] /\ pc[t] = "lock"
      /\ holder[u] \in {NoTx, t} /\ holder' = [holder EXCEPT ![u] = t]
  BY DEF LockProfile, Active
<1>2. u \in Users /\ holder \in [Users -> Txs \cup {NoTx}]
  BY <1>1, CurrentKey DEF IInv, SessionInv, TypeOK
<1>3. PaidKeys' = PaidKeys
  BY <1>1 DEF PaidKeys
<1> HIDE DEF u
<1>4. ASSUME NEW s \in Txs \ {t}, pc'[s] \in Active PROVE Posted(s)'
  <2>1. prog' = [prog EXCEPT ![t] = prog[t]] /\ pos' = [pos EXCEPT ![t] = pos[t]]
    BY <1>1 DEF IInv, TypeOK
  <2>2. \A v \in Users : holder'[v] = s <=> holder[v] = s
    BY <1>1, <1>2, LedgerAssumption
  <2> QED
    BY <1>1, <1>3, <1>4, <2>1, <2>2, OthersStay
<1>5. Posted(t)'
  <2> SUFFICES ASSUME NEW bal \in [Users -> Nat], NEW pk \in SUBSET Keys,
                      Compatible(t, bal, pk)'
               PROVE  Books!Fold(Start(bal, pk), Made(t)') = Reached(t, bal, pk)'
    BY DEF Posted, Start
  <2>0. Made(t)' = Made(t)
    BY <1>1 DEF Made
  <2>1. \A v \in Users : holder'[v] = t <=> holder[v] = t \/ v = u
    BY <1>1, <1>2
  <2>2. Compatible(t, bal, pk)
    BY <1>1, <1>3, <2>1, OwnersAreUsers DEF Compatible
  <2>3. Books!Fold(Start(bal, pk), Made(t)) = Reached(t, bal, pk)
    BY <1>1, <2>2 DEF PostedInv, Posted
  <2>4. bal[u] = saved[u]
    BY <1>1, <1>2, <2>1 DEF Compatible
  <2>5. holder[u] # t => kept[u] = Len(rows[u]) /\ cache[u] = saved[u]
    BY <1>1, <1>2 DEF IInv, LockInv
  <2>6. [v \in Users |-> IF holder'[v] = t THEN cache'[v] ELSE bal[v]]
          = [v \in Users |-> IF holder[v] = t THEN cache[v] ELSE bal[v]]
    BY <1>1, <2>1, <2>4, <2>5
  <2>7. pk \cup HeldKeys(t)' = pk \cup HeldKeys(t)
    <3>1. HeldKeys(t) \subseteq HeldKeys(t)'
      BY <1>1, <2>1, OwnersAreUsers DEF HeldKeys
    <3>2. ASSUME NEW k \in HeldKeys(t)', k \notin HeldKeys(t) PROVE k \in pk
      <4>1. k \in Keys /\ Owner[k] \in Users
        BY OwnersAreUsers DEF HeldKeys
      <4>2. Owner[k] = u /\ holder[u] # t
        BY <1>1, <2>1, <3>2, <4>1 DEF HeldKeys
      <4>3. k \in PaidKeys
        BY <1>1, <2>5, <4>1, <4>2 DEF HeldKeys, PaidKeys
      <4> QED
        BY <1>3, <4>3 DEF Compatible
    <3> QED
      BY <3>1, <3>2
  <2>8. Reached(t, bal, pk)' = Reached(t, bal, pk)
    BY <2>6, <2>7 DEF Reached
  <2> QED
    BY <2>0, <2>3, <2>8
<1> QED
  BY <1>4, <1>5 DEF PostedInv

(* A row that is inserted is one covered movement whose key was not paid. *)
LEMMA InsertRowPosted ==
    ASSUME SerialInv, NEW t \in Txs, InsertRow(t)
    PROVE  PostedInv' /\ PaidKeys' = PaidKeys
<1> USE DEF SerialInv
<1> DEFINE u == Current(t).user
           k == Current(t).key
           n == Len(rows[u])
           r == [delta |-> Current(t).delta, key |-> k, after |-> BalanceAfter(t)]
<1>1. /\ pc[t] \in Active /\ pc[t] = "insert" /\ UNCHANGED <<kept, saved, holder, prog>>
      /\ pc' = [pc EXCEPT ![t] = "check"] /\ pos' = [pos EXCEPT ![t] = @ + 1]
      /\ rows' = [rows EXCEPT ![u] = Append(@, r)]
      /\ cache' = [cache EXCEPT ![u] = BalanceAfter(t)]
  BY DEF InsertRow, Active
<1>2. AtOp(t) /\ holder[u] = t /\ seen[t][u] = cache[u]
  BY <1>1 DEF IInv, SessionInv
<1>3. /\ u \in Users /\ Current(t).delta \in Int /\ k \in Keys \cup {NoKey} /\ NoKey \notin Keys
      /\ k # NoKey => k \in Keys /\ Owner[k] = u
  BY <1>2, CurrentKey
<1>4. BalanceAfter(t) = cache[u] + Current(t).delta /\ BalanceAfter(t) >= 0
  BY <1>2 DEF BalanceAfter, InsertRow, Covered
<1>5. k # NoKey => \A i \in 1..n : rows[u][i].key # k
  BY DEF InsertRow, KeyTaken
<1>6. /\ rows[u] \in Seq(Row) /\ cache \in [Users -> Nat] /\ kept[u] \in Nat /\ kept[u] <= n
      /\ n \in Nat
  BY <1>3 DEF IInv, TypeOK, AuditTrail
<1>7. r.key = k
  OBVIOUS
<1> HIDE DEF r
<1>8. /\ \A v \in Users \ {u} : rows'[v] = rows[v] /\ cache'[v] = cache[v]
      /\ rows'[u] = Append(rows[u], r) /\ cache'[u] = BalanceAfter(t)
  BY <1>1, <1>3 DEF IInv, TypeOK
<1>9. /\ Len(rows'[u]) = n + 1
      /\ \A i \in 1..n : rows'[u][i] = rows[u][i]
      /\ rows'[u][n + 1] = r
  BY <1>6, <1>8
<1> HIDE DEF u, k, n
<1>10. PaidKeys' = PaidKeys
  <2> SUFFICES ASSUME NEW j \in Keys
               PROVE  (\E i \in 1..kept[Owner[j]] : rows'[Owner[j]][i].key = j)
                        <=> \E i \in 1..kept[Owner[j]] : rows[Owner[j]][i].key = j
    BY <1>1 DEF PaidKeys
  <2>1. CASE Owner[j] = u
    <3>1. \A i \in 1..kept[u] : i \in 1..n
      BY <1>6
    <3> QED
      BY <2>1, <3>1, <1>9
  <2>2. CASE Owner[j] # u
    BY <2>2, <1>8, OwnersAreUsers
  <2> QED
    BY <2>1, <2>2
<1>11. ASSUME NEW s \in Txs \ {t}, pc'[s] \in Active PROVE Posted(s)'
  <2>1. (\E x : pos' = [pos EXCEPT ![t] = x]) /\ prog' = [prog EXCEPT ![t] = prog[t]]
    BY <1>1 DEF IInv, TypeOK
  <2>2. \A v \in Users : holder[v] = s => v # u
    BY <1>2 DEF u
  <2> QED
    BY <1>1, <1>8, <1>10, <1>11, <2>1, <2>2, OthersStay
<1>12. Posted(t)'
  <2> SUFFICES ASSUME NEW bal \in [Users -> Nat], NEW pk \in SUBSET Keys,
                      Compatible(t, bal, pk)'
               PROVE  Books!Fold(Start(bal, pk), Made(t)') = Reached(t, bal, pk)'
    BY DEF Posted, Start
  <2>1. Compatible(t, bal, pk)
    BY <1>1, <1>10 DEF Compatible
  <2>2. Books!Fold(Start(bal, pk), Made(t)) = Reached(t, bal, pk)
    BY <1>1, <2>1 DEF PostedInv, Posted
  <2>3. Books!Fold(Start(bal, pk), Made(t)') = Atomic!Move(Reached(t, bal, pk), Current(t))
    BY <1>1, <1>2, <2>2, MadeMore
  <2>4. k \notin pk \cup HeldKeys(t)
    <3>1. CASE k = NoKey
      BY <3>1, <1>3 DEF HeldKeys
    <3>2. CASE k # NoKey
      <4>1. k \in Keys /\ Owner[k] = u
        BY <3>2, <1>3
      <4>2. k \notin HeldKeys(t)
        BY <3>2, <4>1, <1>5 DEF HeldKeys, n
      <4>3. k \notin PaidKeys
        <5>1. \A i \in 1..kept[u] : i \in 1..n
          BY <1>6
        <5> QED
          BY <3>2, <4>1, <5>1, <1>5 DEF PaidKeys
      <4>4. k \notin pk
        BY <2>1, <4>1, <4>3, <1>2 DEF Compatible, u
      <4> QED
        BY <4>2, <4>4
    <3> QED
      BY <3>1, <3>2
  <2>5. HeldKeys(t)' = HeldKeys(t) \cup ({k} \ {NoKey})
    <3>1. ASSUME NEW j \in Keys, holder[Owner[j]] = t
          PROVE  (\E i \in 1..Len(rows'[Owner[j]]) : rows'[Owner[j]][i].key = j)
                   <=> (j = k \/ \E i \in 1..Len(rows[Owner[j]]) : rows[Owner[j]][i].key = j)
      <4>1. CASE Owner[j] = u
        <5>1. \A i : i \in 1..(n + 1) <=> i \in 1..n \/ i = n + 1
          BY <1>6
        <5> QED
          BY <4>1, <5>1, <1>7, <1>9 DEF n
      <4>2. CASE Owner[j] # u
        BY <4>2, <1>3, <1>8, OwnersAreUsers
      <4> QED
        BY <4>1, <4>2
    <3>2. k # NoKey => k \in Keys /\ holder[Owner[k]] = t
      BY <1>2, <1>3 DEF u
    <3>3. \A j \in Keys : j \in HeldKeys(t)' <=> j \in HeldKeys(t) \/ (j = k /\ k # NoKey)
      BY <3>1, <3>2, <1>1, <1>3, SMTT(40) DEF HeldKeys
    <3> QED
      BY <3>2, <3>3 DEF HeldKeys
  <2> DEFINE b == [v \in Users |-> IF holder[v] = t THEN cache[v] ELSE bal[v]]
  <2>6. b[u] = cache[u]
    BY <1>2, <1>3 DEF u
  <2>7. [v \in Users |-> IF holder'[v] = t THEN cache'[v] ELSE bal[v]]
          = [b EXCEPT ![u] = @ + Current(t).delta]
    <3>1. b[u] + Current(t).delta = BalanceAfter(t)
      BY <1>4, <2>6 DEF u
    <3>2. holder[u] = t
      BY <1>2 DEF u
    <3> QED
      BY <1>1, <1>3, <1>8, <3>1, <3>2
  <2>8. Reached(t, bal, pk) = [balance |-> b, paid |-> pk \cup HeldKeys(t), covered |-> TRUE]
    BY DEF Reached
  <2>9. Reached(t, bal, pk)' = [balance |-> [b EXCEPT ![u] = @ + Current(t).delta],
                                paid |-> (pk \cup HeldKeys(t)) \cup ({k} \ {NoKey}),
                                covered |-> TRUE]
    BY <2>5, <2>7 DEF Reached
  <2>10. b[u] + Current(t).delta >= 0
    BY <1>4, <2>6 DEF u
  <2> HIDE DEF b
  <2>11. Atomic!Move(Reached(t, bal, pk), Current(t))
           = [balance |-> [b EXCEPT ![u] = @ + Current(t).delta],
              paid |-> (pk \cup HeldKeys(t)) \cup ({k} \ {NoKey}),
              covered |-> TRUE]
    BY <2>4, <2>8, <2>10, PaidNow DEF u, k
  <2> QED
    BY <2>3, <2>9, <2>11
<1> QED
  BY <1>10, <1>11, <1>12 DEF PostedInv

(* A request that ends releases its profiles and no others. *)
LEMMA OnlyItsLocks ==
    ASSUME IInv, NEW t \in Txs, NEW s \in Txs \ {t}, holder' = Released(t)
    PROVE  \A u \in Users : holder'[u] = s <=> holder[u] = s
BY LedgerAssumption DEF Released, IInv, TypeOK

(* A rollback shows the other sessions nothing. *)
LEMMA UndoPosted ==
    ASSUME SerialInv, NEW t \in Txs, Undo(t)
    PROVE  PostedInv' /\ PaidKeys' = PaidKeys /\ saved' = saved
<1> USE DEF SerialInv
<1>1. /\ UNCHANGED <<kept, saved, prog, pos>> /\ holder' = Released(t)
      /\ pc' = [pc EXCEPT ![t] = "aborted"]
      /\ \A u \in Users : holder[u] # t => rows'[u] = rows[u] /\ cache'[u] = cache[u]
      /\ \A u \in Users : holder[u] = t => rows'[u] = SubSeq(rows[u], 1, kept[u])
  BY DEF Undo, RolledBackCache
<1>2. \A u \in Users : rows[u] \in Seq(Row) /\ kept[u] \in 0..Len(rows[u])
  BY DEF IInv, TypeOK, AuditTrail
<1>3. ASSUME NEW u \in Users, NEW i \in 1..kept[u] PROVE rows'[u][i] = rows[u][i]
  BY <1>1, <1>2
<1>4. PaidKeys' = PaidKeys
  BY <1>1, <1>3, OwnersAreUsers DEF PaidKeys
<1>5. ASSUME NEW s \in Txs, pc'[s] \in Active PROVE Posted(s)'
  <2>1. s # t
    BY <1>1, <1>5 DEF IInv, TypeOK, Active
  <2>2. prog' = [prog EXCEPT ![t] = prog[t]] /\ pos' = [pos EXCEPT ![t] = pos[t]]
    BY <1>1 DEF IInv, TypeOK
  <2>3. \A u \in Users :  /\ holder'[u] = s <=> holder[u] = s
                          /\ holder[u] = s => /\ cache'[u] = cache[u]
                                              /\ saved'[u] = saved[u]
                                              /\ rows'[u] = rows[u]
                                              /\ kept'[u] = kept[u]
    <3>1. s \in Txs \ {t} /\ IInv
      BY <2>1
    <3>2. \A u \in Users : holder'[u] = s <=> holder[u] = s
      BY <1>1, <3>1, OnlyItsLocks
    <3> QED
      BY <1>1, <2>1, <3>2
  <2>4. s \in Txs \ {t} /\ (\E x : pc' = [pc EXCEPT ![t] = x])
        /\ PaidKeys \subseteq PaidKeys'
    BY <1>1, <1>4, <2>1
  <2> QED
    BY <1>5, <2>2, <2>3, <2>4, OthersStay
<1> QED
  BY <1>1, <1>4, <1>5 DEF PostedInv

(* A commit shows the other sessions the keys of the profiles it held. *)
LEMMA CommitPaid ==
    ASSUME IInv, NEW t \in Txs, Commit(t)
    PROVE  PaidKeys' = PaidKeys \cup HeldKeys(t)
<1>1. \A u \in Users : kept[u] \in 0..Len(rows[u]) /\ Len(rows[u]) \in Nat
  BY DEF IInv, TypeOK, AuditTrail
<1>2. ASSUME NEW k \in Keys PROVE k \in PaidKeys' <=> k \in PaidKeys \cup HeldKeys(t)
  <2> DEFINE u == Owner[k]
  <2>1. u \in Users /\ rows' = rows
    BY OwnersAreUsers DEF Commit
  <2>2. CASE holder[u] = t
    <3>1. kept'[u] = Len(rows[u])
      BY <2>1, <2>2 DEF Commit
    <3>2. \A i \in 1..kept[u] : i \in 1..Len(rows[u])
      BY <1>1, <2>1
    <3> QED
      BY <2>1, <2>2, <3>1, <3>2 DEF PaidKeys, HeldKeys
  <2>3. CASE holder[u] # t
    <3>1. kept'[u] = kept[u]
      BY <2>1, <2>3 DEF Commit
    <3> QED
      BY <2>1, <2>3, <3>1 DEF PaidKeys, HeldKeys
  <2> QED
    BY <2>2, <2>3
<1> QED
  BY <1>2 DEF PaidKeys, HeldKeys

(* A commit leaves what the other transactions work on as it is. *)
LEMMA CommitPosted ==
    ASSUME SerialInv, NEW t \in Txs, Commit(t)
    PROVE  PostedInv'
<1> USE DEF SerialInv
<1>1. /\ UNCHANGED <<rows, cache, prog, pos>> /\ holder' = Released(t)
      /\ pc' = [pc EXCEPT ![t] = "committed"]
      /\ \A u \in Users : holder[u] # t => kept'[u] = kept[u] /\ saved'[u] = saved[u]
  BY DEF Commit
<1>2. PaidKeys \subseteq PaidKeys'
  BY CommitPaid
<1>3. ASSUME NEW s \in Txs, pc'[s] \in Active PROVE Posted(s)'
  <2>1. s # t
    BY <1>1, <1>3 DEF IInv, TypeOK, Active
  <2>2. prog' = [prog EXCEPT ![t] = prog[t]] /\ pos' = [pos EXCEPT ![t] = pos[t]]
    BY <1>1 DEF IInv, TypeOK
  <2>3. \A u \in Users :  /\ holder'[u] = s <=> holder[u] = s
                          /\ holder[u] = s => /\ cache'[u] = cache[u]
                                              /\ saved'[u] = saved[u]
                                              /\ rows'[u] = rows[u]
                                              /\ kept'[u] = kept[u]
    <3>1. s \in Txs \ {t} /\ IInv
      BY <2>1
    <3>2. \A u \in Users : holder'[u] = s <=> holder[u] = s
      BY <1>1, <3>1, OnlyItsLocks
    <3> QED
      BY <1>1, <2>1, <3>2
  <2>4. s \in Txs \ {t} /\ (\E x : pc' = [pc EXCEPT ![t] = x])
        /\ PaidKeys \subseteq PaidKeys'
    BY <1>1, <1>2, <2>1
  <2> QED
    BY <1>3, <2>2, <2>3, <2>4, OthersStay
<1> QED
  BY <1>3 DEF PostedInv

(* Every step preserves the invariant. *)
LEMMA NextSerial == SerialInv /\ [Next]_vars => SerialInv'
<1> SUFFICES ASSUME SerialInv, [Next]_vars PROVE SerialInv'
  OBVIOUS
<1>1. IInv' /\ ProgramInv'
  BY NextIInv, ProgramStep DEF SerialInv
<1>2. ASSUME NEW t \in Txs, Begin(t) PROVE PostedInv'
  BY <1>2, BeginPosted
<1>3. ASSUME NEW t \in Txs, Proceed(t) PROVE PostedInv'
  BY <1>3, AlreadyGrantedPosted, NotYetGrantedPosted, LockProfilePosted, InsertRowPosted,
     LoseInsertRacePosted, UndoPosted, CommitPosted DEF Proceed, Insufficient
<1>4. ASSUME NEW t \in Txs, Crash(t) \/ BreakDeadlock(t) PROVE PostedInv'
  BY <1>4, UndoPosted DEF Crash, BreakDeadlock
<1>5. ASSUME UNCHANGED vars PROVE PostedInv'
  <2>0. /\ rows' = rows /\ kept' = kept /\ cache' = cache /\ saved' = saved
        /\ holder' = holder /\ pc' = pc /\ prog' = prog /\ pos' = pos
    BY <1>5 DEF vars
  <2>1. PaidKeys' = PaidKeys
    BY <2>0 DEF PaidKeys
  <2>2. ASSUME NEW s \in Txs, pc'[s] \in Active PROVE Posted(s)'
    <3>1. Posted(s) /\ IInv
      BY <2>0, <2>2 DEF SerialInv, PostedInv
    <3> QED
      BY <2>0, <2>1, <3>1, PostedStays
  <2> QED
    BY <2>2 DEF PostedInv
<1>6. PostedInv'
  BY <1>2, <1>3, <1>4, <1>5 DEF Next, AllEnded
<1> QED
  BY <1>1, <1>6 DEF SerialInv

(* A commit takes effect as one Post of the request's whole program. *)
LEMMA CommitPosts ==
    ASSUME SerialInv, NEW t \in Txs, Commit(t)
    PROVE  Atomic!AtomicNext
<1> USE DEF SerialInv
<1> DEFINE p == prog[t]
           book == Reached(t, saved, PaidKeys)
<1>1. pc[t] \in Active /\ ~AtOp(t) /\ pos[t] \in Nat \ {0}
  BY DEF Commit, Active, IInv, TypeOK
<1>2. p \in Programs /\ pos[t] <= Len(p) + 1
  BY <1>1 DEF ProgramInv, ProgramOk
<1>3. p \in Seq(Op)
  BY <1>2, LedgerAssumption
<1>4. Made(t) = p
  <2>1. pos[t] - 1 = Len(p)
    BY <1>1, <1>2, <1>3 DEF AtOp
  <2> QED
    BY <1>3, <2>1 DEF Made
<1>5. saved \in [Users -> Nat] /\ PaidKeys \in SUBSET Keys /\ Compatible(t, saved, PaidKeys)
  BY DEF IInv, TypeOK, Compatible, PaidKeys
<1>6. Books!Fold(Start(saved, PaidKeys), p) = book
  BY <1>1, <1>4, <1>5 DEF PostedInv, Posted
<1>7. Atomic!FoldLeft(Atomic!Move, [balance |-> saved, paid |-> PaidKeys, covered |-> TRUE], p)
        = book
  BY <1>6, FoldIsBook DEF Start
<1>8. book.covered /\ saved' = book.balance /\ PaidKeys' = book.paid
  <2>1. saved' = [u \in Users |-> IF holder[u] = t THEN cache[u] ELSE saved[u]]
    BY DEF Commit
  <2>2. PaidKeys' = PaidKeys \cup HeldKeys(t)
    BY CommitPaid
  <2> QED
    BY <2>1, <2>2 DEF Reached
<1> HIDE DEF book, p
<1>9. Atomic!Post(p)
  BY <1>7, <1>8 DEF Atomic!Post
<1> QED
  BY <1>2, <1>9 DEF Atomic!AtomicNext

(* Every step is a Post of the abstract ledger or leaves it as it is. *)
LEMMA StepsPost ==
    SerialInv /\ [Next]_vars => [Atomic!AtomicNext]_(Atomic!atomicVars)
<1> SUFFICES ASSUME SerialInv, [Next]_vars
             PROVE  Atomic!AtomicNext \/ UNCHANGED <<saved, PaidKeys>>
  BY DEF Atomic!atomicVars
<1>1. ASSUME UNCHANGED <<rows, kept, saved>> PROVE UNCHANGED <<saved, PaidKeys>>
  BY <1>1 DEF PaidKeys
<1>2. ASSUME NEW t \in Txs, Undo(t) PROVE UNCHANGED <<saved, PaidKeys>>
  BY <1>2, UndoPosted
<1>3. ASSUME NEW t \in Txs, InsertRow(t) PROVE UNCHANGED <<saved, PaidKeys>>
  BY <1>3, InsertRowPosted DEF InsertRow
<1>4. ASSUME NEW t \in Txs,
             Begin(t) \/ AlreadyGranted(t) \/ NotYetGranted(t) \/ LockProfile(t)
               \/ LoseInsertRace(t)
      PROVE  UNCHANGED <<saved, PaidKeys>>
  BY <1>1, <1>4 DEF Begin, AlreadyGranted, NotYetGranted, LockProfile, LoseInsertRace
<1>5. ASSUME NEW t \in Txs, Commit(t) PROVE Atomic!AtomicNext
  BY <1>5, CommitPosts
<1>6. CASE UNCHANGED vars
  BY <1>1, <1>6 DEF vars
<1> QED
  BY <1>2, <1>3, <1>4, <1>5, <1>6
  DEF Next, AllEnded, Proceed, Insufficient, Crash, BreakDeadlock

(* No balance and no key: the abstract ledger's initial state. *)
LEMMA InitPosts == Init => Atomic!AtomicInit
<1> SUFFICES ASSUME Init PROVE PaidKeys = {} /\ saved = [u \in Users |-> 0]
  BY DEF Atomic!AtomicInit
<1> QED
  BY OwnersAreUsers DEF Init, PaidKeys

(***************************************************************************)
(* The row locks, savepoints and unique index implement the atomic ledger: *)
(* what other sessions see is the committed requests run one after the     *)
(* other, each whole, each keyed grant paid once, no balance negative, for *)
(* any users, keys, programs and number of concurrent requests.            *)
(***************************************************************************)
THEOREM LedgerSerializes == Spec => SerializesRequests
<1>1. Spec => []SerialInv
  BY InitSerial, NextSerial, PTL DEF Spec
<1> QED
  BY <1>1, InitPosts, StepsPost, PTL DEF Spec, SerializesRequests, Atomic!AtomicSpec
=============================================================================
