--------------------------- MODULE WriteQueueProofs ---------------------------
(* What the abstract queue of writes is worth to the app, for every number of *)
(* users and writes: consequences of WriteQueue, which the Firestore client   *)
(* implements (FirestoreClient!QueueSpec).                                    *)
EXTENDS WriteQueue, TLAPS

--------------------------------------------------------------------------------
(* The invariant. *)

Result == [user : Users, w : Writes, ok : BOOLEAN]

QueueTypeOK ==
  /\ Writes \subseteq Nat
  /\ pending \in [Users -> Seq(Writes)]
  /\ taken \in [Users -> Nat]
  /\ refused \in [Users -> BOOLEAN]
  /\ log \in Seq(Writes)
  /\ settled \in Seq(Result)

(* w was applied, maybe more than once. *)
InLog(applied, w) == \E k \in DOMAIN applied : applied[k] = w

(* What waits is in the order of issue, and another user's is another write. *)
PendingInOrder ==
  /\ \A u \in Users : \A i, j \in DOMAIN pending[u] : i < j => pending[u][i] < pending[u][j]
  /\ \A u, v \in Users : \A i \in DOMAIN pending[u], j \in DOMAIN pending[v] :
        pending[u][i] = pending[v][j] => u = v

(* What is settled comes before what waits. *)
SettledBefore ==
  \A i \in DOMAIN settled : \A u \in Users : \A j \in DOMAIN pending[u] :
     /\ settled[i].w # pending[u][j]
     /\ settled[i].user = u => settled[i].w < pending[u][j]

(* What the server took on this connection, it applied. *)
TakenInLog ==
  \A u \in Users : taken[u] <= Len(pending[u]) /\ \A i \in 1..taken[u] : InLog(log, pending[u][i])

(* The write that was refused waits behind what was taken. *)
RefusedWaits == \A u \in Users : refused[u] => taken[u] < Len(pending[u])

(* A write is settled once, a user's writes in the order he issued them, and  *)
(* as successful only when the server applied it.                             *)
SettledOnceInOrder ==
  \A i, j \in DOMAIN settled :
    /\ settled[i].ok => InLog(log, settled[i].w)
    /\ i # j => settled[i].w # settled[j].w
    /\ i < j /\ settled[i].user = settled[j].user => settled[i].w < settled[j].w

QueueInv ==
  /\ QueueTypeOK
  /\ PendingInOrder
  /\ SettledBefore
  /\ TakenInLog
  /\ RefusedWaits
  /\ SettledOnceInOrder

(* What was settled is not applied again. *)
AppliesUnsettled ==
  log' # log => /\ \E w \in Writes : log' = Append(log, w)
                /\ \A i \in DOMAIN settled : settled[i].w # log'[Len(log')]

--------------------------------------------------------------------------------
LEMMA QueueInvInit ==
  ASSUME Writes \subseteq Nat, Init
  PROVE  QueueInv
  <1>1. /\ \A u \in Users : DOMAIN pending[u] = {} /\ Len(pending[u]) = 0 /\ taken[u] = 0
        /\ DOMAIN settled = {}
    BY DEF Init
  <1>2. QueueTypeOK
    BY DEF Init, QueueTypeOK
  <1>3. PendingInOrder /\ SettledBefore /\ SettledOnceInOrder
    BY <1>1 DEF PendingInOrder, SettledBefore, SettledOnceInOrder
  <1>4. TakenInLog
    <2>1. ASSUME NEW u \in Users
          PROVE  1..taken[u] = {} /\ taken[u] <= Len(pending[u])
      <3>1. Len(pending[u]) = 0 /\ taken[u] = 0
        BY <1>1
      <3>2. 1..0 = {} /\ 0 <= 0
        OBVIOUS
      <3> QED BY <3>1, <3>2
    <2> QED BY <2>1 DEF TakenInLog
  <1>5. RefusedWaits
    BY DEF Init, RefusedWaits
  <1> QED BY <1>2, <1>3, <1>4, <1>5 DEF QueueInv

LEMMA IssueKeeps ==
  ASSUME QueueInv, NEW u \in Users, NEW w \in Writes, Issue(u, w)
  PROVE  QueueInv'
  <1> DEFINE q == pending[u]
  <1>1. /\ q \in Seq(Writes) /\ w \in Nat /\ pending \in [Users -> Seq(Writes)]
        /\ pending' = [pending EXCEPT ![u] = Append(q, w)]
    BY DEF QueueInv, QueueTypeOK, Issue
  <1>2. /\ DOMAIN q = 1..Len(q) /\ Len(q) \in Nat
        /\ pending'[u] = Append(q, w) /\ Append(q, w) \in Seq(Writes)
        /\ DOMAIN pending'[u] = 1..(Len(q) + 1) /\ Len(pending'[u]) = Len(q) + 1
        /\ pending'[u][Len(q) + 1] = w
        /\ \A i \in 1..Len(q) : pending'[u][i] = q[i]
    BY <1>1
  <1>3. \A v \in Users : v # u => pending'[v] = pending[v]
    BY <1>1
  <1>4. \A v \in Users : \A j \in DOMAIN pending'[v] :
           \/ j \in DOMAIN pending[v] /\ pending'[v][j] = pending[v][j]
           \/ v = u /\ j = Len(q) + 1 /\ pending'[v][j] = w
    BY <1>2, <1>3
  <1>5. /\ \A v \in Users : \A j \in DOMAIN pending[v] : pending[v][j] < w
        /\ \A i \in DOMAIN settled : settled[i].w < w
    <2>1. \A x \in Issued : x < w
      BY DEF Issue
    <2>2. \A v \in Users : DOMAIN pending[v] = 1..Len(pending[v])
      BY DEF QueueInv, QueueTypeOK
    <2>3. DOMAIN settled = 1..Len(settled)
      BY DEF QueueInv, QueueTypeOK
    <2>4. ASSUME NEW v \in Users, NEW j \in DOMAIN pending[v]
          PROVE  pending[v][j] \in Issued
      <3>1. pending[v][j] \in {pending[v][i] : i \in 1..Len(pending[v])}
        BY <2>2
      <3> QED BY <3>1 DEF Issued
    <2>5. ASSUME NEW i \in DOMAIN settled
          PROVE  settled[i].w \in Issued
      <3>1. settled[i].w \in {settled[k].w : k \in 1..Len(settled)}
        BY <2>3
      <3> QED BY <3>1 DEF Issued
    <2> QED BY <2>1, <2>4, <2>5
  <1>6. UNCHANGED <<taken, refused, log, settled>>
    BY DEF Issue
  <1>7. QueueTypeOK'
    BY <1>1, <1>2, <1>6 DEF QueueInv, QueueTypeOK
  <1>8. /\ \A v \in Users : \A j \in DOMAIN pending[v] : pending[v][j] \in Nat /\ j \in 1..Len(pending[v])
        /\ \A i \in DOMAIN settled : settled[i].w \in Nat
    <2>1. \A v \in Users : pending[v] \in Seq(Writes)
      BY <1>1
    <2>2. Writes \subseteq Nat /\ settled \in Seq(Result)
      BY DEF QueueInv, QueueTypeOK
    <2>3. \A v \in Users : \A j \in DOMAIN pending[v] : pending[v][j] \in Writes /\ j \in 1..Len(pending[v])
      BY <2>1
    <2>4. \A i \in DOMAIN settled : settled[i] \in Result
      BY <2>2
    <2> QED BY <2>2, <2>3, <2>4 DEF Result
  <1> HIDE DEF q
  <1>9. PendingInOrder'
    <2>1. ASSUME NEW v \in Users, NEW i \in DOMAIN pending'[v], NEW j \in DOMAIN pending'[v], i < j
          PROVE  pending'[v][i] < pending'[v][j]
      <3>1. CASE j \in DOMAIN pending[v]
        <4>1. i \in DOMAIN pending[v] /\ pending'[v][i] = pending[v][i] /\ pending'[v][j] = pending[v][j]
          BY <1>2, <1>3, <1>4, <1>8, <2>1, <3>1 DEF q
        <4>2. pending[v][i] < pending[v][j]
          BY <2>1, <3>1, <4>1 DEF QueueInv, PendingInOrder
        <4> QED BY <4>1, <4>2
      <3>2. CASE v = u /\ j = Len(q) + 1 /\ pending'[v][j] = w
        <4>1. i \in DOMAIN pending[v] /\ pending'[v][i] = pending[v][i]
          BY <1>2, <1>4, <2>1, <3>2 DEF q
        <4> QED BY <1>5, <3>2, <4>1
      <3> QED BY <1>4, <3>1, <3>2
    <2>2. ASSUME NEW v \in Users, NEW x \in Users, NEW i \in DOMAIN pending'[v],
                 NEW j \in DOMAIN pending'[x], pending'[v][i] = pending'[x][j]
          PROVE  v = x
      BY <1>4, <1>5, <1>8, <2>2 DEF QueueInv, PendingInOrder
    <2> QED BY <2>1, <2>2 DEF PendingInOrder
  <1>10. SettledBefore'
    BY <1>4, <1>5, <1>6, <1>8 DEF QueueInv, SettledBefore
  <1>11. TakenInLog'
    <2>1. ASSUME NEW v \in Users
          PROVE  /\ taken[v] <= Len(pending'[v])
                 /\ \A i \in 1..taken[v] : pending'[v][i] = pending[v][i]
      <3>1. taken[v] <= Len(pending[v]) /\ taken[v] \in Nat
        BY DEF QueueInv, QueueTypeOK, TakenInLog
      <3>2. CASE v = u
        BY <1>2, <3>1, <3>2 DEF q
      <3>3. CASE v # u
        BY <1>3, <3>1, <3>3
      <3> QED BY <3>2, <3>3
    <2> QED BY <1>6, <2>1 DEF QueueInv, TakenInLog, InLog
  <1>12. SettledOnceInOrder'
    BY <1>6 DEF QueueInv, SettledOnceInOrder, InLog
  <1>13. RefusedWaits'
    <2> SUFFICES ASSUME NEW v \in Users, refused[v]
                 PROVE  taken[v] < Len(pending'[v])
      BY <1>6 DEF RefusedWaits
    <2>1. taken[v] < Len(pending[v]) /\ taken[v] \in Nat
      BY DEF QueueInv, QueueTypeOK, RefusedWaits
    <2>2. CASE v = u
      BY <1>2, <2>1, <2>2 DEF q
    <2>3. CASE v # u
      BY <1>3, <2>1, <2>3
    <2> QED BY <2>2, <2>3
  <1> QED BY <1>7, <1>9, <1>10, <1>11, <1>12, <1>13 DEF QueueInv

LEMMA TakeKeeps ==
  ASSUME QueueInv, NEW u \in Users, Take(u)
  PROVE  QueueInv' /\ AppliesUnsettled
  <1> DEFINE n == taken[u] + 1
             w == pending[u][n]
  <1>1. /\ pending[u] \in Seq(Writes) /\ taken \in [Users -> Nat] /\ log \in Seq(Writes)
        /\ DOMAIN pending[u] = 1..Len(pending[u]) /\ Len(pending[u]) \in Nat
    BY DEF QueueInv, QueueTypeOK
  <1>2. n \in 1..Len(pending[u]) /\ n \in Nat
    BY <1>1 DEF Take
  <1>3. w \in Writes
    BY <1>1, <1>2
  <1>4. /\ taken' = [taken EXCEPT ![u] = n] /\ log' = Append(log, w)
        /\ UNCHANGED <<pending, refused, settled>>
    BY DEF Take
  <1>5. taken'[u] = n /\ \A v \in Users : v # u => taken'[v] = taken[v]
    BY <1>1, <1>4
  <1>6. n <= Len(pending[u]) /\ \A i \in 1..n : i \in 1..taken[u] \/ i = n
    BY <1>1, <1>2
  <1> HIDE DEF n
  <1>7. /\ DOMAIN log = 1..Len(log) /\ Len(log) \in Nat
        /\ DOMAIN log' = 1..(Len(log) + 1) /\ log'[Len(log) + 1] = w
        /\ \A k \in 1..Len(log) : log'[k] = log[k] /\ k \in 1..(Len(log) + 1)
        /\ Len(log') = Len(log) + 1 /\ log' \in Seq(Writes)
    BY <1>1, <1>3, <1>4
  <1> HIDE DEF w
  <1>8. InLog(log', w) /\ \A x : InLog(log, x) => InLog(log', x)
    <2>1. Len(log) + 1 \in DOMAIN log'
      BY <1>7
    <2>2. InLog(log', w)
      BY <1>7, <2>1 DEF InLog
    <2>3. ASSUME NEW x, InLog(log, x)
          PROVE  InLog(log', x)
      <3>1. PICK k \in DOMAIN log : log[k] = x
        BY <2>3 DEF InLog
      <3>2. k \in DOMAIN log' /\ log'[k] = x
        BY <1>7, <3>1
      <3> QED BY <3>2 DEF InLog
    <2> QED BY <2>2, <2>3
  <1>9. QueueTypeOK'
    BY <1>1, <1>2, <1>4, <1>7 DEF QueueInv, QueueTypeOK
  <1>10. PendingInOrder' /\ SettledBefore'
    BY <1>4 DEF QueueInv, PendingInOrder, SettledBefore
  <1>11. TakenInLog'
    <2> SUFFICES ASSUME NEW v \in Users
                 PROVE  taken'[v] <= Len(pending[v]) /\ \A i \in 1..taken'[v] : InLog(log', pending[v][i])
      BY <1>4 DEF TakenInLog, InLog
    <2>1. taken[v] <= Len(pending[v]) /\ \A i \in 1..taken[v] : InLog(log, pending[v][i])
      BY DEF QueueInv, TakenInLog
    <2>2. CASE v = u
      BY <1>5, <1>6, <1>8, <2>1, <2>2 DEF w
    <2>3. CASE v # u
      BY <1>5, <1>8, <2>1, <2>3
    <2> QED BY <2>2, <2>3
  <1>12. SettledOnceInOrder'
    <2>1. \A i \in DOMAIN settled : settled[i].ok => InLog(log', settled[i].w)
      BY <1>8 DEF QueueInv, SettledOnceInOrder
    <2> QED BY <1>4, <2>1 DEF QueueInv, SettledOnceInOrder, InLog
  <1>13. AppliesUnsettled
    <2>1. \A i \in DOMAIN settled : settled[i].w # w
      BY <1>1, <1>2 DEF QueueInv, SettledBefore, w
    <2> QED BY <1>3, <1>4, <1>7, <2>1 DEF AppliesUnsettled
  <1>14. RefusedWaits'
    <2>1. ~refused[u]
      BY DEF Take
    <2> QED BY <1>4, <1>5, <2>1 DEF QueueInv, RefusedWaits
  <1> QED BY <1>9, <1>10, <1>11, <1>12, <1>13, <1>14 DEF QueueInv

(* The first of u's writes is settled with result ok; n are still taken.      *)
LEMMA SettleKeeps ==
  ASSUME QueueInv, NEW u \in Users, NEW ok \in BOOLEAN, NEW n \in Nat,
         Len(pending[u]) > 0, Settle(u, ok), n + 1 <= taken[u] \/ n = 0,
         ok => taken[u] > 0,
         taken' = [taken EXCEPT ![u] = n], log' = log,
         refused' \in [Users -> BOOLEAN], \A v \in Users \ {u} : refused'[v] = refused[v],
         refused'[u] => refused[u] /\ n + 1 = taken[u]
  PROVE  QueueInv'
  <1> DEFINE q == pending[u]
             w == q[1]
             m == Len(settled)
  <1>1. /\ q \in Seq(Writes) /\ q # <<>> /\ pending \in [Users -> Seq(Writes)]
        /\ settled \in Seq(Result) /\ Writes \subseteq Nat
    <2>1. q \in Seq(Writes) /\ Len(q) > 0
      BY DEF QueueInv, QueueTypeOK
    <2> QED BY <2>1 DEF QueueInv, QueueTypeOK
  <1>2. /\ Head(q) = w /\ w \in Writes /\ 1 \in DOMAIN q
        /\ DOMAIN q = 1..Len(q) /\ Len(q) \in Nat /\ Len(q) >= 1
        /\ Tail(q) \in Seq(Writes) /\ Len(Tail(q)) = Len(q) - 1
        /\ DOMAIN Tail(q) = 1..(Len(q) - 1)
        /\ \A i \in 1..(Len(q) - 1) : Tail(q)[i] = q[i + 1]
    BY <1>1
  <1>3. /\ pending'[u] = Tail(q) /\ \A v \in Users : v # u => pending'[v] = pending[v]
        /\ pending' \in [Users -> Seq(Writes)]
    BY <1>1, <1>2 DEF Settle
  <1> DEFINE r == [user |-> u, w |-> w, ok |-> ok]
  <1>4. settled' = Append(settled, r)
    BY <1>2 DEF Settle
  <1>5. r \in Result /\ r.user = u /\ r.w = w /\ r.ok = ok
    BY <1>2 DEF Result
  <1> HIDE DEF r
  <1>6. /\ DOMAIN settled = 1..m /\ m \in Nat /\ settled' \in Seq(Result)
        /\ DOMAIN settled' = 1..(m + 1) /\ settled'[m + 1] = r
        /\ \A i \in 1..m : settled'[i] = settled[i]
    BY <1>1, <1>4, <1>5
  <1> HIDE DEF q, w, m
  \* What is settled now was settled before, or is w ...
  <1>7. \A i \in DOMAIN settled' :
           \/ i \in DOMAIN settled /\ settled'[i] = settled[i]
           \/ i = m + 1 /\ settled'[i] = r
    BY <1>6
  \* ... and what waits now waited before, behind w.
  <1>8. ASSUME NEW v \in Users, NEW j \in DOMAIN pending'[v]
        PROVE  \/ v # u /\ j \in DOMAIN pending[v] /\ pending'[v][j] = pending[v][j]
               \/ /\ v = u /\ j \in Nat /\ j + 1 \in DOMAIN q /\ j + 1 > 1
                  /\ pending'[v][j] = q[j + 1]
    <2>1. CASE v = u
      BY <1>2, <1>3, <1>8, <2>1
    <2>2. CASE v # u
      BY <1>3, <1>8, <2>2
    <2> QED BY <2>1, <2>2
  <1>9. /\ \A i, j \in DOMAIN q : i < j => q[i] < q[j]
        /\ \A v \in Users : \A j \in DOMAIN pending[v] : pending[v][j] = w => v = u
    BY <1>2 DEF QueueInv, PendingInOrder, q, w
  <1>10. \A i \in DOMAIN settled :
            /\ settled[i].w # w /\ (settled[i].user = u => settled[i].w < w)
            /\ \A v \in Users : \A j \in DOMAIN pending[v] :
                  /\ settled[i].w # pending[v][j]
                  /\ settled[i].user = v => settled[i].w < pending[v][j]
    BY <1>2 DEF QueueInv, SettledBefore, q, w
  <1>11. \A j \in DOMAIN q : q[j] \in Nat /\ q[j] = pending[u][j] /\ w = q[1]
    <2>1. \A j \in DOMAIN q : q[j] \in Writes
      BY <1>1
    <2>2. \A j \in DOMAIN q : q[j] = pending[u][j]
      BY DEF q
    <2>3. w = q[1]
      BY DEF w
    <2> QED BY <1>1, <2>1, <2>2, <2>3
  <1>12. QueueTypeOK'
    BY <1>3, <1>6 DEF QueueInv, QueueTypeOK
  <1>13. PendingInOrder'
    <2>1. ASSUME NEW v \in Users, NEW i \in DOMAIN pending'[v], NEW j \in DOMAIN pending'[v], i < j
          PROVE  pending'[v][i] < pending'[v][j]
      <3>1. CASE v = u
        BY <1>8, <1>9, <2>1, <3>1
      <3>2. CASE v # u
        BY <1>8, <2>1, <3>2 DEF QueueInv, PendingInOrder
      <3> QED BY <3>1, <3>2
    <2>2. ASSUME NEW v \in Users, NEW x \in Users, NEW i \in DOMAIN pending'[v],
                 NEW j \in DOMAIN pending'[x], pending'[v][i] = pending'[x][j]
          PROVE  v = x
      <3>1. \E k \in DOMAIN pending[v] : pending[v][k] = pending'[v][i]
        BY <1>8, <1>11 DEF q
      <3>2. \E k \in DOMAIN pending[x] : pending[x][k] = pending'[x][j]
        BY <1>8, <1>11 DEF q
      <3> QED BY <2>2, <3>1, <3>2 DEF QueueInv, PendingInOrder
    <2> QED BY <2>1, <2>2 DEF PendingInOrder
  <1>14. SettledBefore'
    <2> SUFFICES ASSUME NEW i \in DOMAIN settled', NEW v \in Users, NEW j \in DOMAIN pending'[v]
                 PROVE  /\ settled'[i].w # pending'[v][j]
                        /\ settled'[i].user = v => settled'[i].w < pending'[v][j]
      BY DEF SettledBefore
    <2>1. \E k \in DOMAIN pending[v] : pending[v][k] = pending'[v][j]
      BY <1>8, <1>11 DEF q
    <2>2. CASE i \in DOMAIN settled /\ settled'[i] = settled[i]
      BY <1>10, <2>1, <2>2
    <2>3. CASE settled'[i] = r
      <3>1. CASE v = u
        <4>1. j + 1 \in DOMAIN q /\ 1 < j + 1 /\ pending'[v][j] = q[j + 1]
          BY <1>8, <3>1
        <4>2. w < q[j + 1] /\ q[j + 1] \in Nat /\ w \in Nat
          <5>1. w = q[1] /\ 1 \in DOMAIN q
            BY <1>2, <1>11
          <5>2. q[1] < q[j + 1]
            BY <1>9, <4>1, <5>1
          <5> QED BY <1>11, <4>1, <5>1, <5>2
        <4> QED BY <1>5, <2>3, <4>1, <4>2
      <3>2. CASE v # u
        BY <1>5, <1>9, <2>1, <2>3, <3>2
      <3> QED BY <3>1, <3>2
    <2> QED BY <1>7, <2>2, <2>3
  <1>15. TakenInLog'
    <2> SUFFICES ASSUME NEW v \in Users
                 PROVE  taken'[v] <= Len(pending'[v]) /\ \A i \in 1..taken'[v] : InLog(log, pending'[v][i])
      BY DEF TakenInLog
    <2>1. /\ taken[v] <= Len(pending[v]) /\ \A i \in 1..taken[v] : InLog(log, pending[v][i])
          /\ taken \in [Users -> Nat] /\ taken[v] \in Nat
      BY DEF QueueInv, QueueTypeOK, TakenInLog
    <2>2. CASE v # u
      BY <1>3, <2>1, <2>2
    <2>3. CASE v = u
      <3>1. taken'[v] = n /\ Len(pending'[v]) = Len(q) - 1
        BY <1>2, <1>3, <2>1, <2>3
      <3>2. n <= Len(q) - 1
        BY <1>2, <2>1, <2>3 DEF q
      <3>3. ASSUME NEW i \in 1..n
            PROVE  InLog(log, pending'[v][i])
        <4>1. i + 1 \in 1..taken[v] /\ i \in 1..(Len(q) - 1)
          BY <1>2, <2>1, <2>3, <3>2
        <4>2. pending'[v][i] = pending[v][i + 1]
          BY <1>2, <1>3, <2>3, <4>1 DEF q
        <4> QED BY <2>1, <4>1, <4>2
      <3> QED BY <3>1, <3>2, <3>3
    <2> QED BY <2>2, <2>3
  <1>16. SettledOnceInOrder'
    <2>1. ASSUME ok PROVE InLog(log, w)
      <3>1. 1 \in 1..taken[u]
        BY <2>1 DEF QueueInv, QueueTypeOK
      <3> QED BY <3>1 DEF QueueInv, TakenInLog, w, q
    <2> SUFFICES ASSUME NEW i \in DOMAIN settled', NEW j \in DOMAIN settled'
                 PROVE  /\ settled'[i].ok => InLog(log, settled'[i].w)
                        /\ i # j => settled'[i].w # settled'[j].w
                        /\ i < j /\ settled'[i].user = settled'[j].user
                              => settled'[i].w < settled'[j].w
      BY DEF SettledOnceInOrder
    <2>2. settled'[i].ok => InLog(log, settled'[i].w)
      BY <1>5, <1>7, <2>1 DEF QueueInv, SettledOnceInOrder
    <2>3. i # j => settled'[i].w # settled'[j].w
      BY <1>5, <1>7, <1>10 DEF QueueInv, SettledOnceInOrder
    <2>4. ASSUME i < j, settled'[i].user = settled'[j].user
          PROVE  settled'[i].w < settled'[j].w
      <3>1. i \in DOMAIN settled /\ settled'[i] = settled[i]
        BY <1>6, <2>4
      <3> QED BY <1>5, <1>7, <1>10, <2>4, <3>1 DEF QueueInv, SettledOnceInOrder
    <2> QED BY <2>2, <2>3, <2>4
  <1>17. RefusedWaits'
    <2> SUFFICES ASSUME NEW v \in Users, refused'[v]
                 PROVE  taken'[v] < Len(pending'[v])
      BY DEF RefusedWaits
    <2>1. taken \in [Users -> Nat]
      BY DEF QueueInv, QueueTypeOK
    <2>2. CASE v = u
      <3>1. taken'[v] = n /\ Len(pending'[v]) = Len(q) - 1
        BY <1>2, <1>3, <2>1, <2>2
      <3>2. n + 1 < Len(q)
        BY <2>2 DEF QueueInv, RefusedWaits, q
      <3>3. Len(q) \in Nat
        BY <1>2
      <3>4. n < Len(q) - 1
        BY <3>2, <3>3
      <3> QED BY <3>1, <3>4
    <2>3. CASE v # u
      BY <1>3, <2>1, <2>3 DEF QueueInv, RefusedWaits
    <2> QED BY <2>2, <2>3
  <1> QED BY <1>12, <1>13, <1>14, <1>15, <1>16, <1>17 DEF QueueInv

(* The steps but Take leave the log alone. *)
LEMMA NextKeeps ==
  QueueInv /\ [Next]_vars => QueueInv' /\ AppliesUnsettled
  <1> SUFFICES ASSUME QueueInv, [Next]_vars
               PROVE  QueueInv' /\ AppliesUnsettled
    OBVIOUS
  <1>1. ASSUME UNCHANGED log PROVE AppliesUnsettled
    BY <1>1 DEF AppliesUnsettled
  <1>2. ASSUME NEW u \in Users, NEW w \in Writes, Issue(u, w)
        PROVE  QueueInv' /\ AppliesUnsettled
    BY <1>1, <1>2, IssueKeeps DEF Issue
  <1>3. ASSUME NEW u \in Users, Take(u)
        PROVE  QueueInv' /\ AppliesUnsettled
    BY <1>3, TakeKeeps
  <1>4. ASSUME NEW u \in Users, Refuse(u)
        PROVE  QueueInv' /\ AppliesUnsettled
    <2>1. /\ UNCHANGED <<pending, taken, log, settled>> /\ refused' = [refused EXCEPT ![u] = TRUE]
          /\ refused \in [Users -> BOOLEAN] /\ taken[u] < Len(pending[u])
      BY <1>4 DEF Refuse, QueueInv, QueueTypeOK
    <2>2. RefusedWaits'
      BY <2>1 DEF QueueInv, RefusedWaits
    <2> QED BY <1>1, <2>1, <2>2
        DEF QueueInv, QueueTypeOK, PendingInOrder, SettledBefore, TakenInLog, SettledOnceInOrder
  <1>5. ASSUME NEW u \in Users, Confirm(u)
        PROVE  QueueInv' /\ AppliesUnsettled
    <2>1. taken[u] \in Nat /\ taken[u] > 0 /\ taken[u] <= Len(pending[u]) /\ Len(pending[u]) \in Nat
      BY <1>5 DEF Confirm, QueueInv, QueueTypeOK, TakenInLog
    <2> DEFINE n == taken[u] - 1
    <2>2. n \in Nat /\ n + 1 = taken[u] /\ Len(pending[u]) > 0 /\ n + 1 <= taken[u]
      BY <2>1
    <2>3. /\ Settle(u, TRUE) /\ taken' = [taken EXCEPT ![u] = n] /\ log' = log
          /\ refused' = refused /\ refused \in [Users -> BOOLEAN]
      BY <1>5 DEF Confirm, QueueInv, QueueTypeOK
    <2> HIDE DEF n
    <2>4. QueueInv'
      BY <2>1, <2>2, <2>3, SettleKeeps
    <2> QED BY <1>1, <2>3, <2>4
  <1>6. ASSUME NEW u \in Users, Fail(u)
        PROVE  QueueInv' /\ AppliesUnsettled
    <2>1. /\ Settle(u, FALSE) /\ log' = log /\ taken' = taken /\ taken[u] = 0
          /\ refused' = [refused EXCEPT ![u] = FALSE] /\ refused[u]
          /\ refused \in [Users -> BOOLEAN] /\ taken \in [Users -> Nat]
      BY <1>6 DEF Fail, QueueInv, QueueTypeOK
    <2>2. /\ taken' = [taken EXCEPT ![u] = 0] /\ Len(pending[u]) > 0
          /\ refused' \in [Users -> BOOLEAN] /\ ~refused'[u]
          /\ \A v \in Users \ {u} : refused'[v] = refused[v]
      BY <2>1 DEF QueueInv, RefusedWaits
    <2>3. QueueInv'
      BY <2>1, <2>2, SettleKeeps
    <2> QED BY <1>1, <2>1, <2>3
  <1>7. ASSUME NEW u \in Users, Lose(u)
        PROVE  QueueInv' /\ AppliesUnsettled
    <2>1. /\ UNCHANGED <<pending, log, settled>>
          /\ taken' = [taken EXCEPT ![u] = 0] /\ refused' = [refused EXCEPT ![u] = FALSE]
          /\ taken \in [Users -> Nat] /\ refused \in [Users -> BOOLEAN]
          /\ pending \in [Users -> Seq(Writes)]
      BY <1>7 DEF Lose, QueueInv, QueueTypeOK
    <2>2. QueueTypeOK' /\ PendingInOrder' /\ SettledBefore' /\ SettledOnceInOrder'
      BY <2>1 DEF QueueInv, QueueTypeOK, PendingInOrder, SettledBefore, SettledOnceInOrder
    <2>3. \A v \in Users : taken'[v] = taken[v] \/ taken'[v] = 0
      BY <2>1
    <2>4. TakenInLog'
      <3> SUFFICES ASSUME NEW v \in Users
                   PROVE  taken'[v] <= Len(pending[v]) /\ \A i \in 1..taken'[v] : InLog(log, pending[v][i])
        BY <2>1 DEF TakenInLog
      <3>1. CASE taken'[v] = 0
        <4>1. Len(pending[v]) \in Nat
          BY <2>1
        <4> QED BY <3>1, <4>1
      <3>2. CASE taken'[v] = taken[v]
        BY <3>2 DEF QueueInv, TakenInLog
      <3> QED BY <2>3, <3>1, <3>2
    <2>5. RefusedWaits'
      BY <2>1 DEF QueueInv, RefusedWaits
    <2> QED BY <1>1, <2>1, <2>2, <2>4, <2>5 DEF QueueInv
  <1>8. CASE UNCHANGED vars
    <2>1. UNCHANGED <<pending, taken, refused, log, settled>>
      BY <1>8 DEF vars
    <2> QED BY <1>1, <2>1
        DEF QueueInv, QueueTypeOK, PendingInOrder, SettledBefore, TakenInLog, RefusedWaits,
            SettledOnceInOrder
  <1> QED BY <1>2, <1>3, <1>4, <1>5, <1>6, <1>7, <1>8 DEF Next

(* However often connections are lost: a write is settled once, in the order  *)
(* of issue, and as successful only when the server applied it. This is what  *)
(* a completion of setData or updateData may be taken for.                    *)
THEOREM SettledOnce == ASSUME Writes \subseteq Nat PROVE Spec => []SettledOnceInOrder
  <1>1. QueueInv => SettledOnceInOrder
    BY DEF QueueInv
  <1> QED BY <1>1, QueueInvInit, NextKeeps, PTL DEF Spec

(* What was settled is never sent to the server again: a write that the app   *)
(* has heard of cannot undo later ones.                                       *)
THEOREM NeverAppliedLate == ASSUME Writes \subseteq Nat PROVE Spec => [][AppliesUnsettled]_vars
  BY QueueInvInit, NextKeeps, PTL DEF Spec

================================================================================
