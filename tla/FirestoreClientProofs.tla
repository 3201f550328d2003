------------------------- MODULE FirestoreClientProofs -------------------------
(* What FirestoreClient does for every number of users, documents and writes, *)
(* every pipeline limit and every order of connections lost, users changed and *)
(* restarts: it implements WriteQueue, no write is lost and none is answered  *)
(* for another; the device shows its own writes, and what the backend has     *)
(* once all is settled.                                                       *)
EXTENDS FirestoreClient, NaturalsInduction, WellFoundedInduction, FiniteSetTheorems,
        TLAPS

--------------------------------------------------------------------------------
(* The inductive invariant. *)

Kinds == {"set", "update", "delete"}
Batch == [id : Nat, w : Nat, doc : Docs, kind : Kinds, allowed : BOOLEAN]
Result == [batch : Batch, version : Nat]
Response == [w : Nat, ok : BOOLEAN, version : Nat]
Document == [kind : {"unknown", "deleted", "doc"}, f : Nat, g : Nat, version : Nat]
Commitment == [w : Nat, docs : [Docs -> Document]]
Outcome == [user : Users, kind : Kinds, doc : Docs, result : {"pending", "ok", "failed"}]

ClientTypeOK ==
  /\ budget \in Bounds
  /\ queue \in [Users -> Seq(Batch)]
  /\ acked \in [Users -> Nat \cup {kFSTBatchIDUnknown}]
  /\ user \in Users
  /\ nextBatchID \in Nat
  /\ callbacks \in [Users -> SUBSET [id : Nat, w : Nat]]
  /\ held \in Seq(Result)
  /\ pipeline \in Seq(Batch)
  /\ stream \in {"closed", "starting", "open", "ready"}
  /\ requests \in Seq(Batch)
  /\ responses \in Seq(Response)
  /\ history \in Seq(Commitment) /\ history # <<>>
  /\ outcome \in Seq(Outcome)
  /\ settled \in Seq([user : Users, w : Nat, ok : BOOLEAN])
  /\ calls \in Seq([w : Nat, ok : BOOLEAN])

(* Queues are in the order of their ids, which is that of the writes; the     *)
(* next id is new in every queue and not taken for acknowledged; an id may    *)
(* only be given again by an empty queue.                                     *)
IdsInOrder ==
  /\ \A u \in Users : \A i \in 1..Len(queue[u]) :
       /\ queue[u][i].id < nextBatchID
       /\ \A j \in 1..Len(queue[u]) :
            i < j => queue[u][i].id < queue[u][j].id /\ queue[u][i].w < queue[u][j].w
  /\ acked[user] < nextBatchID
  /\ \A u \in Users : queue[u] # <<>> => acked[u] <= queue[u][Len(queue[u])].id

(* The user's queue begins with what is held, which is what is acknowledged.  *)
HeldFirst ==
  /\ Len(held) <= Len(queue[user])
  /\ \A i \in 1..Len(held) : held[i].batch = queue[user][i]
  /\ \A i \in 1..Len(queue[user]) : queue[user][i].id <= acked[user] <=> i <= Len(held)
  /\ held # <<>> => acked[user] = queue[user][Len(held)].id

(* The pipeline comes after it. *)
PipelineNext ==
  /\ Len(held) + Len(pipeline) <= Len(queue[user])
  /\ \A i \in 1..Len(pipeline) : pipeline[i] = queue[user][Len(held) + i]

InHistory(h, w) == \E v \in 1..Len(h) : h[v].w = w

(* The answers on their way are to the first of the pipeline, what is not     *)
(* answered yet is the rest of it; a refusal is the last answer.              *)
AnswersInOrder ==
  /\ stream # "ready" => requests = <<>> /\ responses = <<>>
  /\ Len(responses) <= Len(pipeline)
  /\ \A i \in 1..Len(responses) :
       /\ responses[i].w = pipeline[i].w
       /\ IF responses[i].ok THEN InHistory(history, responses[i].w)
          ELSE /\ i = Len(responses)
               /\ ~pipeline[i].allowed \/ pipeline[i].kind = "update"
  /\ stream = "ready" =>
       /\ Len(requests) = Len(pipeline) - Taken
       /\ \A i \in 1..Len(requests) : requests[i] = pipeline[Taken + i]

(* A write in a queue is its user's; it is pending until it is acknowledged;  *)
(* what is pending is in a queue, and after all that is settled.              *)
QueuesPending ==
  /\ \A u \in Users : \A i \in 1..Len(queue[u]) :
       /\ queue[u][i].w \in 1..Len(outcome)
       /\ outcome[queue[u][i].w].user = u
       /\ outcome[queue[u][i].w].kind = queue[u][i].kind
       /\ outcome[queue[u][i].w].result = (IF queue[u][i].id <= acked[u] THEN "ok" ELSE "pending")
  /\ \A w \in 1..Len(outcome) : outcome[w].result = "pending" =>
       \E i \in 1..Len(queue[outcome[w].user]) :
         /\ queue[outcome[w].user][i].w = w
         /\ queue[outcome[w].user][i].id > acked[outcome[w].user]
  /\ \A w, x \in 1..Len(outcome) :
       /\ outcome[w].user = outcome[x].user
       /\ outcome[w].result # "pending" /\ outcome[x].result = "pending"
       => w < x

(* What is settled was settled by the backend. *)
OutcomesTrue ==
  /\ \A w \in 1..Len(outcome) :
       /\ outcome[w].result = "ok" => InHistory(history, w)
       /\ outcome[w].result = "failed" /\ outcome[w].kind # "update" => ~InHistory(history, w)
  /\ \A u \in Users : \A i \in 1..Len(queue[u]) :
       InHistory(history, queue[u][i].w) => queue[u][i].allowed
  /\ \A v \in 1..Len(history) : history[v].w <= Len(outcome)

(* A completion waits for a pending write of its user; those called said how  *)
(* their write was settled, in the order of the writes.                       *)
CallsTrue ==
  /\ \A u \in Users : \A c \in callbacks[u] :
       \E i \in 1..Len(queue[u]) :
         queue[u][i].id > acked[u] /\ queue[u][i].id = c.id /\ queue[u][i].w = c.w
  /\ \A i \in 1..Len(calls) :
       /\ calls[i].w \in 1..Len(outcome)
       /\ outcome[calls[i].w].result = (IF calls[i].ok THEN "ok" ELSE "failed")
  /\ \A i, j \in 1..Len(calls) :
       i < j /\ outcome[calls[i].w].user = outcome[calls[j].w].user => calls[i].w < calls[j].w

(* The writes are numbered within the bounds. *)
WritesNumbered ==
  /\ \A i \in 1..Len(settled) : settled[i].w \in 1..Len(outcome)
  /\ Max({b["write"] : b \in Budgets}) \in Nat
  /\ Len(outcome) + budget["write"] <= Max({b["write"] : b \in Budgets})

ClientInv ==
  /\ ClientTypeOK
  /\ IdsInOrder
  /\ HeldFirst
  /\ PipelineNext
  /\ AnswersInOrder
  /\ QueuesPending
  /\ OutcomesTrue
  /\ CallsTrue
  /\ WritesNumbered

--------------------------------------------------------------------------------
(* Induction over the natural numbers, for a set of them. *)
LEMMA SetInduction ==
  ASSUME NEW T, 0 \in T, \A n \in Nat : n \in T => n + 1 \in T
  PROVE  \A n \in Nat : n \in T
  <1> SUFFICES ASSUME NEW n \in Nat, n \notin T PROVE FALSE
    OBVIOUS
  <1> DEFINE M == {k \in Nat : k \notin T}
  <1>1. M # {} /\ M \subseteq Nat
    OBVIOUS
  <1>2. IsWellFoundedOn(OpToRel(<, Nat), Nat)
    BY NatLessThanWellFounded
  <1> HIDE DEF M
  <1>3. \E x \in M : \A y \in M : ~ (<<y, x>> \in OpToRel(<, Nat))
    BY <1>1, <1>2, WFMin
  <1>4. PICK x \in M : \A y \in M : ~ (y < x)
    BY <1>3, <1>1 DEF OpToRel
  <1>5. x \in Nat /\ x \notin T /\ x # 0
    BY <1>4 DEF M
  <1>6. x - 1 \in Nat /\ x - 1 < x /\ (x - 1) + 1 = x
    BY <1>5
  <1>7. x - 1 \in T
    BY <1>6, <1>4 DEF M
  <1> QED BY <1>5, <1>6, <1>7

(* g tells what is kept of the first n elements of s.                         *)
Keeps(g, s, keep, n) ==
  /\ g[0] = <<>>
  /\ \A m \in 1..n : g[m] = IF m \in keep THEN Append(g[m - 1], s[m]) ELSE g[m - 1]

LEMMA KeptIs ==
  ASSUME NEW S, NEW s \in Seq(S), NEW keep, NEW g \in [0..Len(s) -> Seq(S)],
         Keeps(g, s, keep, Len(s))
  PROVE  Kept(s, keep) = g[Len(s)]
  <1> DEFINE Eq(f) == f = [n \in 0..Len(s) |->
               IF n = 0 THEN <<>>
               ELSE IF n \in keep THEN Append(f[n - 1], s[n]) ELSE f[n - 1]]
             h == CHOOSE f : Eq(f)
             T == {n \in Nat : n <= Len(s) => h[n] = g[n]}
  <1>1. Len(s) \in Nat
    OBVIOUS
  <1>2. Eq(g)
    <2>1. ASSUME NEW n \in 0..Len(s)
          PROVE  g[n] = IF n = 0 THEN <<>>
                        ELSE IF n \in keep THEN Append(g[n - 1], s[n]) ELSE g[n - 1]
      <3>1. CASE n = 0
        BY <3>1 DEF Keeps
      <3>2. CASE n # 0
        <4>1. n \in 1..Len(s)
          BY <3>2, <1>1
        <4> QED BY <3>2, <4>1 DEF Keeps
      <3> QED BY <3>1, <3>2
    <2> QED BY <2>1
  <1>3. Eq(h)
    BY <1>2
  <1>4. Kept(s, keep) = h[Len(s)]
    BY DEF Kept
  <1>5. \A n \in 0..Len(s) : h[n] = IF n = 0 THEN <<>>
               ELSE IF n \in keep THEN Append(h[n - 1], s[n]) ELSE h[n - 1]
    BY <1>3
  <1> HIDE DEF h, Eq
  <1>6. 0 \in T
    BY <1>5, <1>1 DEF Keeps
  <1>7. ASSUME NEW n \in Nat, n \in T
        PROVE  n + 1 \in T
    <2>1. SUFFICES ASSUME n + 1 <= Len(s) PROVE h[n + 1] = g[n + 1]
      OBVIOUS
    <2>2. n + 1 \in 1..Len(s) /\ n + 1 \in 0..Len(s) /\ (n + 1) - 1 = n /\ n + 1 # 0
      BY <2>1, <1>1
    <2>3. h[n] = g[n]
      BY <1>7, <2>1, <1>1
    <2>4. h[n + 1] = IF n + 1 \in keep THEN Append(h[n], s[n + 1]) ELSE h[n]
      BY <2>2, <1>5
    <2>5. g[n + 1] = IF n + 1 \in keep THEN Append(g[n], s[n + 1]) ELSE g[n]
      BY <2>2 DEF Keeps
    <2> QED BY <2>3, <2>4, <2>5
  <1> HIDE DEF T
  <1>8. \A n \in Nat : n \in T
    BY <1>6, <1>7, SetInduction
  <1> QED BY <1>1, <1>4, <1>8 DEF T

LEMMA KeptExists ==
  ASSUME NEW S, NEW s \in Seq(S), NEW keep
  PROVE  \E g \in [0..Len(s) -> Seq(S)] : Keeps(g, s, keep, Len(s))
  <1> DEFINE T == {n \in Nat : n <= Len(s) =>
                     \E g \in [0..n -> Seq(S)] : Keeps(g, s, keep, n)}
  <1>1. Len(s) \in Nat
    OBVIOUS
  <1>2. 0 \in T
    <2> DEFINE g == [m \in 0..0 |-> <<>>]
    <2>1. g \in [0..0 -> Seq(S)]
      OBVIOUS
    <2>2. Keeps(g, s, keep, 0)
      BY DEF Keeps
    <2> QED BY <2>1, <2>2
  <1>3. ASSUME NEW n \in Nat, n \in T
        PROVE  n + 1 \in T
    <2>1. SUFFICES ASSUME n + 1 <= Len(s)
                   PROVE  \E g \in [0..(n + 1) -> Seq(S)] : Keeps(g, s, keep, n + 1)
      OBVIOUS
    <2>2. n <= Len(s)
      BY <2>1, <1>1
    <2>3. PICK f \in [0..n -> Seq(S)] : Keeps(f, s, keep, n)
      BY <1>3, <2>2
    <2> DEFINE v == IF n + 1 \in keep THEN Append(f[n], s[n + 1]) ELSE f[n]
               g == [m \in 0..(n + 1) |-> IF m <= n THEN f[m] ELSE v]
    <2>4. v \in Seq(S)
      <3>1. f[n] \in Seq(S) /\ s[n + 1] \in S
        BY <2>1, <1>1
      <3> QED BY <3>1
    <2> HIDE DEF v
    <2>5. g \in [0..(n + 1) -> Seq(S)]
      BY <2>4
    <2>6. /\ \A m \in 0..n : g[m] = f[m]
          /\ g[n + 1] = v
      OBVIOUS
    <2> HIDE DEF g
    <2>7. g[0] = <<>>
      BY <2>3, <2>6 DEF Keeps
    <2>8. ASSUME NEW m \in 1..(n + 1)
          PROVE  g[m] = IF m \in keep THEN Append(g[m - 1], s[m]) ELSE g[m - 1]
      <3>1. CASE m <= n
        <4>1. m \in 1..n /\ m \in 0..n /\ m - 1 \in 0..n
          BY <3>1
        <4> QED BY <4>1, <2>3, <2>6 DEF Keeps
      <3>2. CASE m = n + 1
        <4>1. m - 1 = n /\ n \in 0..n
          BY <3>2
        <4> QED BY <4>1, <3>2, <2>6 DEF v
      <3> QED BY <3>1, <3>2
    <2>9. Keeps(g, s, keep, n + 1)
      BY <2>7, <2>8 DEF Keeps
    <2> QED BY <2>5, <2>9
  <1> HIDE DEF T
  <1>4. \A n \in Nat : n \in T
    BY <1>2, <1>3, SetInduction
  <1> QED BY <1>1, <1>4 DEF T

LEMMA KeptType ==
  ASSUME NEW S, NEW s \in Seq(S), NEW keep
  PROVE  Kept(s, keep) \in Seq(S)
  <1>1. PICK g \in [0..Len(s) -> Seq(S)] : Keeps(g, s, keep, Len(s))
    BY KeptExists
  <1>2. Kept(s, keep) = g[Len(s)]
    BY <1>1, KeptIs
  <1>3. Len(s) \in 0..Len(s)
    OBVIOUS
  <1> QED BY <1>2, <1>3

(* A whole end of s is kept. *)
LEMMA KeptSuffix ==
  ASSUME NEW S, NEW s \in Seq(S), NEW keep, NEW k \in 0..Len(s),
         \A i \in 1..Len(s) : i \in keep <=> i > k
  PROVE  Kept(s, keep) = SubSeq(s, k + 1, Len(s))
  <1> DEFINE g == [n \in 0..Len(s) |-> SubSeq(s, k + 1, n)]
  <1>1. Len(s) \in Nat /\ k \in Nat
    OBVIOUS
  <1>2. g \in [0..Len(s) -> Seq(S)]
    BY <1>1
  <1>3. g[0] = <<>>
    BY <1>1
  <1>4. ASSUME NEW m \in 1..Len(s)
        PROVE  g[m] = IF m \in keep THEN Append(g[m - 1], s[m]) ELSE g[m - 1]
    <2>1. m \in Nat /\ m - 1 \in 0..Len(s) /\ m \in 0..Len(s)
      BY <1>1
    <2>2. g[m] = SubSeq(s, k + 1, m) /\ g[m - 1] = SubSeq(s, k + 1, m - 1)
      BY <2>1
    <2>3. CASE m > k
      <3>1. SubSeq(s, k + 1, m) = Append(SubSeq(s, k + 1, m - 1), s[m])
        BY <2>1, <2>3, <1>1
      <3> QED BY <3>1, <2>2, <2>3
    <2>4. CASE m <= k
      <3>1. SubSeq(s, k + 1, m) = <<>> /\ SubSeq(s, k + 1, m - 1) = <<>>
        BY <2>1, <2>4, <1>1
      <3> QED BY <3>1, <2>2, <2>4, <2>1, <1>1
    <2> QED BY <2>1, <2>3, <2>4, <1>1
  <1>5. Keeps(g, s, keep, Len(s))
    BY <1>3, <1>4 DEF Keeps
  <1>6. Kept(s, keep) = g[Len(s)]
    BY <1>2, <1>5, KeptIs
  <1> QED BY <1>6, <1>1

LEMMA KeptAppend ==
  ASSUME NEW S, NEW s \in Seq(S), NEW x \in S, NEW keep, NEW more,
         \A i \in 1..Len(s) : i \in keep <=> i \in more
  PROVE  Kept(Append(s, x), more) =
           IF Len(s) + 1 \in more THEN Append(Kept(s, keep), x) ELSE Kept(s, keep)
  <1> DEFINE t == Append(s, x)
  <1>1. PICK g \in [0..Len(s) -> Seq(S)] : Keeps(g, s, keep, Len(s))
    BY KeptExists
  <1> HIDE DEF t
  <1>2. t \in Seq(S)
    BY DEF t
  <1>3. PICK h \in [0..Len(t) -> Seq(S)] : Keeps(h, t, more, Len(t))
    BY <1>2, KeptExists
  <1>4. Kept(s, keep) = g[Len(s)] /\ Kept(t, more) = h[Len(t)]
    BY <1>2, <1>1, <1>3, KeptIs
  <1>5. /\ Len(s) \in Nat /\ t \in Seq(S) /\ Len(t) = Len(s) + 1 /\ t[Len(s) + 1] = x
        /\ \A i \in 1..Len(s) : t[i] = s[i]
    BY DEF t
  <1> DEFINE T == {n \in Nat : n <= Len(s) => h[n] = g[n]}
  <1>6. 0 \in T
    BY <1>1, <1>3 DEF Keeps
  <1>7. ASSUME NEW n \in Nat, n \in T
        PROVE  n + 1 \in T
    <2>1. SUFFICES ASSUME n + 1 <= Len(s) PROVE h[n + 1] = g[n + 1]
      OBVIOUS
    <2>2. n + 1 \in 1..Len(s) /\ n + 1 \in 1..Len(t) /\ (n + 1) - 1 = n
      BY <2>1, <1>5
    <2>3. h[n] = g[n]
      BY <1>7, <2>1, <1>5
    <2>4. h[n + 1] = IF n + 1 \in more THEN Append(h[n], t[n + 1]) ELSE h[n]
      BY <2>2, <1>3 DEF Keeps
    <2>5. g[n + 1] = IF n + 1 \in keep THEN Append(g[n], s[n + 1]) ELSE g[n]
      BY <2>2, <1>1 DEF Keeps
    <2> QED BY <2>2, <2>3, <2>4, <2>5, <1>5
  <1> HIDE DEF T
  <1>8. \A n \in Nat : n \in T
    BY <1>6, <1>7, SetInduction
  <1>9. h[Len(s)] = g[Len(s)]
    BY <1>8, <1>5 DEF T
  <1>10. h[Len(s) + 1] = IF Len(s) + 1 \in more THEN Append(h[Len(s)], t[Len(s) + 1])
                        ELSE h[Len(s)]
    <2>1. Len(s) + 1 \in 1..Len(t) /\ (Len(s) + 1) - 1 = Len(s)
      BY <1>5
    <2> QED BY <2>1, <1>3 DEF Keeps
  <1> QED BY <1>4, <1>5, <1>9, <1>10 DEF t

(* A bounded set of integers has a greatest element. *)
LEMMA MaxExists ==
  ASSUME NEW M, M \subseteq Int, M # {}, NEW b \in Int, \A x \in M : x <= b
  PROVE  \E m \in M : \A x \in M : x <= m
  <1> SUFFICES ASSUME \A m \in M : \E x \in M : x > m
               PROVE  FALSE
    OBVIOUS
  <1>1. PICK y \in M : TRUE
    OBVIOUS
  <1> DEFINE U == {n \in Nat : \E x \in M : x >= y + n}
  <1>2. 0 \in U
    BY <1>1
  <1>3. ASSUME NEW n \in Nat, n \in U
        PROVE  n + 1 \in U
    <2>1. PICK x \in M : x >= y + n
      BY <1>3
    <2>2. PICK z \in M : z > x
      OBVIOUS
    <2>3. x \in Int /\ z \in Int /\ y \in Int
      OBVIOUS
    <2>4. z >= y + (n + 1)
      BY <2>1, <2>2, <2>3
    <2> QED BY <2>4
  <1> HIDE DEF U
  <1>4. \A n \in Nat : n \in U
    BY <1>2, <1>3, SetInduction
  <1>5. b - y + 1 \in Nat
    BY <1>1
  <1>6. PICK x \in M : x >= y + (b - y + 1)
    BY <1>4, <1>5 DEF U
  <1> QED BY <1>6, <1>1
LEMMA MaxIs ==
  ASSUME NEW M, M \subseteq Int, NEW m, m \in M, \A x \in M : x <= m
  PROVE  Max(M) = m
  <1> DEFINE P(x) == x \in M /\ \A y \in M : x >= y
  <1>1. P(m)
    OBVIOUS
  <1>2. \A x : P(x) => x = m
    BY <1>1
  <1>3. Max(M) = CHOOSE x : P(x)
    BY DEF Max
  <1> QED BY <1>1, <1>2, <1>3

LEMMA MinOfTwo ==
  ASSUME NEW a \in Int, NEW b \in Int
  PROVE  Min({a, b}) \in Int /\ Min({a, b}) <= a /\ Min({a, b}) <= b
  <1> DEFINE P(x) == x \in {a, b} /\ \A y \in {a, b} : x <= y
  <1>1. \E x : P(x)
    <2>1. CASE a <= b
      BY <2>1
    <2>2. CASE b <= a
      BY <2>2
    <2> QED BY <2>1, <2>2
  <1>2. Min({a, b}) = CHOOSE x : P(x)
    BY DEF Min
  <1>3. P(Min({a, b}))
    BY <1>1, <1>2
  <1> QED BY <1>3

--------------------------------------------------------------------------------
(* A queue in the order of its ids. *)

LEMMA BatchTypes ==
  /\ \A b \in Batch : b.id \in Nat /\ b.w \in Nat /\ b.kind \in Kinds /\ b.doc \in Docs
                      /\ b.allowed \in BOOLEAN
  /\ \A q \in Seq(Batch) : Len(q) \in Nat /\ \A i \in 1..Len(q) : q[i] \in Batch
  <1>1. \A b \in Batch : b.id \in Nat /\ b.w \in Nat /\ b.kind \in Kinds /\ b.doc \in Docs
                        /\ b.allowed \in BOOLEAN
    BY DEF Batch
  <1>2. \A q \in Seq(Batch) : Len(q) \in Nat /\ \A i \in 1..Len(q) : q[i] \in Batch
    OBVIOUS
  <1> QED BY <1>1, <1>2

Ordered(q) == \A i, j \in 1..Len(q) : i < j => q[i].id < q[j].id

(* The first k have ids up to id. *)
Splits(q, id, k) ==
  /\ k \in 0..Len(q)
  /\ \A i \in 1..Len(q) : q[i].id <= id <=> i <= k

LEMMA SplitExists ==
  ASSUME NEW q \in Seq(Batch), Ordered(q), NEW id \in Int
  PROVE  \E k \in 0..Len(q) : Splits(q, id, k)
  <1> DEFINE M == {0} \cup {i \in 1..Len(q) : q[i].id <= id}
  <1>1. Len(q) \in Nat /\ \A i \in 1..Len(q) : q[i] \in Batch /\ q[i].id \in Nat
    BY BatchTypes
  <1>2. M \subseteq Int /\ M # {} /\ Len(q) \in Int /\ \A x \in M : x <= Len(q)
    BY <1>1
  <1> HIDE DEF M
  <1>3. PICK k \in M : \A x \in M : x <= k
    BY <1>1, <1>2, MaxExists
  <1> USE DEF M
  <1>4. k \in 0..Len(q)
    BY <1>3, <1>1
  <1>5. ASSUME NEW i \in 1..Len(q)
        PROVE  q[i].id <= id <=> i <= k
    <2>1. CASE i <= k
      <3>1. k \in 1..Len(q) /\ q[k].id <= id
        BY <2>1, <1>3, <1>4, <1>1
      <3>2. i = k \/ q[i].id < q[k].id
        BY <2>1, <3>1 DEF Ordered
      <3> QED BY <2>1, <3>1, <3>2, <1>1
    <2>2. CASE i > k
      <3>1. i \notin M
        BY <2>2, <1>3, <1>1
      <3> QED BY <2>2, <3>1
    <2> QED BY <2>1, <2>2, <1>4, <1>1
  <1> QED BY <1>4, <1>5 DEF Splits

LEMMA AfterIs ==
  ASSUME NEW q \in Seq(Batch), NEW id \in Int, NEW k \in 0..Len(q), Splits(q, id, k)
  PROVE  After(q, id) = SubSeq(q, k + 1, Len(q))
  <1> DEFINE keep == {i \in 1..Len(q) : q[i].id > id}
  <1>1. \A i \in 1..Len(q) : q[i].id \in Nat
    BY BatchTypes
  <1>2. \A i \in 1..Len(q) : i \in keep <=> i > k
    BY <1>1 DEF Splits
  <1> HIDE DEF keep
  <1>3. Kept(q, keep) = SubSeq(q, k + 1, Len(q))
    BY <1>2, KeptSuffix
  <1> QED BY <1>3 DEF After, keep

(* Without the k batches after the first f.                                   *)
LEMMA KeptCut ==
  ASSUME NEW S, NEW s \in Seq(S), NEW keep, NEW f \in Nat, NEW k \in Nat, f + k <= Len(s),
         \A i \in 1..Len(s) : i \in keep <=> i <= f \/ i > f + k
  PROVE  Kept(s, keep) = SubSeq(s, 1, f) \o SubSeq(s, f + k + 1, Len(s))
  <1> DEFINE g == [n \in 0..Len(s) |->
                     SubSeq(s, 1, IF n <= f THEN n ELSE f) \o SubSeq(s, f + k + 1, n)]
  <1>1. Len(s) \in Nat
    OBVIOUS
  <1>2. g \in [0..Len(s) -> Seq(S)]
    <2>1. ASSUME NEW n \in 0..Len(s)
          PROVE  SubSeq(s, 1, IF n <= f THEN n ELSE f) \o SubSeq(s, f + k + 1, n) \in Seq(S)
      <3>1. \A m \in 0..Len(s) : SubSeq(s, 1, m) \in Seq(S)
        BY <1>1
      <3>2. SubSeq(s, f + k + 1, n) \in Seq(S)
        BY <1>1
      <3>3. (IF n <= f THEN n ELSE f) \in 0..Len(s)
        BY <1>1
      <3> QED BY <3>1, <3>2, <3>3
    <2> QED BY <2>1
  <1>3. g[0] = <<>>
    <2>1. SubSeq(s, 1, 0) = <<>> /\ SubSeq(s, f + k + 1, 0) = <<>>
      BY <1>1
    <2>2. g[0] = SubSeq(s, 1, 0) \o SubSeq(s, f + k + 1, 0)
      BY <1>1
    <2> QED BY <2>1, <2>2
  <1>4. ASSUME NEW m \in 1..Len(s)
        PROVE  g[m] = IF m \in keep THEN Append(g[m - 1], s[m]) ELSE g[m - 1]
    <2>1. m \in Nat /\ m - 1 \in 0..Len(s) /\ m \in 0..Len(s)
      BY <1>1
    <2>2. /\ g[m] = SubSeq(s, 1, IF m <= f THEN m ELSE f) \o SubSeq(s, f + k + 1, m)
          /\ g[m - 1] = SubSeq(s, 1, IF m - 1 <= f THEN m - 1 ELSE f)
                          \o SubSeq(s, f + k + 1, m - 1)
      BY <2>1
    <2> HIDE DEF g
    <2>3. CASE m <= f
      <3>1. /\ SubSeq(s, f + k + 1, m) = <<>> /\ SubSeq(s, f + k + 1, m - 1) = <<>>
            /\ SubSeq(s, 1, m) = Append(SubSeq(s, 1, m - 1), s[m])
            /\ SubSeq(s, 1, m) \in Seq(S) /\ SubSeq(s, 1, m - 1) \in Seq(S)
        BY <2>1, <2>3, <1>1
      <3>2. g[m] = SubSeq(s, 1, m) /\ g[m - 1] = SubSeq(s, 1, m - 1)
        BY <2>1, <2>2, <2>3, <3>1
      <3> QED BY <3>1, <3>2, <2>3
    <2>4. CASE m > f /\ m <= f + k
      <3>1. /\ SubSeq(s, f + k + 1, m) = <<>> /\ SubSeq(s, f + k + 1, m - 1) = <<>>
        BY <2>1, <2>4, <1>1
      <3>2. (IF m <= f THEN m ELSE f) = f /\ (IF m - 1 <= f THEN m - 1 ELSE f) = f
        BY <2>1, <2>4
      <3>3. m \notin keep
        BY <2>4, <2>1
      <3> QED BY <3>1, <3>2, <3>3, <2>2
    <2>5. CASE m > f + k
      <3>1. /\ SubSeq(s, f + k + 1, m) = Append(SubSeq(s, f + k + 1, m - 1), s[m])
            /\ SubSeq(s, f + k + 1, m - 1) \in Seq(S)
        BY <2>1, <2>5, <1>1
      <3>2. (IF m <= f THEN m ELSE f) = f /\ (IF m - 1 <= f THEN m - 1 ELSE f) = f
        BY <2>1, <2>5
      <3>3. m \in keep /\ s[m] \in S /\ SubSeq(s, 1, f) \in Seq(S)
        BY <2>5, <2>1, <1>1
      <3>4. /\ g[m] = SubSeq(s, 1, f) \o Append(SubSeq(s, f + k + 1, m - 1), s[m])
            /\ g[m - 1] = SubSeq(s, 1, f) \o SubSeq(s, f + k + 1, m - 1)
        BY <3>1, <3>2, <2>2
      <3>5. \A x, y \in Seq(S), e \in S : x \o Append(y, e) = Append(x \o y, e)
        OBVIOUS
      <3>6. SubSeq(s, 1, f) \o Append(SubSeq(s, f + k + 1, m - 1), s[m])
              = Append(SubSeq(s, 1, f) \o SubSeq(s, f + k + 1, m - 1), s[m])
        BY <3>1, <3>3, <3>5
      <3> QED BY <3>3, <3>4, <3>6
    <2> QED BY <2>1, <2>3, <2>4, <2>5
  <1>5. Keeps(g, s, keep, Len(s))
    BY <1>3, <1>4 DEF Keeps
  <1>6. Kept(s, keep) = g[Len(s)]
    BY <1>2, <1>5, KeptIs
  <1>7. (IF Len(s) <= f THEN Len(s) ELSE f) = f
    BY <1>1
  <1>8. \A n \in 0..Len(s) :
          g[n] = SubSeq(s, 1, IF n <= f THEN n ELSE f) \o SubSeq(s, f + k + 1, n)
    OBVIOUS
  <1> HIDE DEF g
  <1>9. g[Len(s)] = SubSeq(s, 1, IF Len(s) <= f THEN Len(s) ELSE f)
                      \o SubSeq(s, f + k + 1, Len(s))
    <2>1. Len(s) \in 0..Len(s)
      BY <1>1
    <2> QED BY <1>8, <2>1, Zenon
  <1> QED BY <1>6, <1>7, <1>9

CutOf(p, q, f, k) ==
  /\ p \in Seq(Batch)
  /\ Len(p) = Len(q) - k
  /\ \A i \in 1..(Len(q) - k) : /\ i <= f => p[i] = q[i]
                                /\ i > f => p[i] = q[i + k]

Cuts(q, ids, f, k) ==
  /\ f + k <= Len(q)
  /\ \A i \in 1..Len(q) : q[i].id \in ids <=> i > f /\ i <= f + k

LEMMA WithoutIs ==
  ASSUME NEW q \in Seq(Batch), NEW ids, NEW f \in Nat, NEW k \in Nat, Cuts(q, ids, f, k)
  PROVE  CutOf(Without(q, ids), q, f, k)
  <1> USE DEF Cuts, CutOf
  <1> DEFINE keep == {i \in 1..Len(q) : q[i].id \notin ids}
  <1>1. \A i \in 1..Len(q) : i \in keep <=> i <= f \/ i > f + k
    BY BatchTypes
  <1>2. Without(q, ids) = Kept(q, keep)
    BY DEF Without
  <1> HIDE DEF keep
  <1>3. Kept(q, keep) = SubSeq(q, 1, f) \o SubSeq(q, f + k + 1, Len(q))
    BY <1>1, KeptCut
  <1>4. Len(q) \in Nat
    BY BatchTypes
  <1>5. /\ SubSeq(q, 1, f) \in Seq(Batch) /\ Len(SubSeq(q, 1, f)) = f
        /\ \A i \in 1..f : SubSeq(q, 1, f)[i] = q[i]
    BY <1>4
  <1>6. /\ SubSeq(q, f + k + 1, Len(q)) \in Seq(Batch)
        /\ Len(SubSeq(q, f + k + 1, Len(q))) = Len(q) - (f + k)
        /\ \A i \in 1..(Len(q) - (f + k)) : SubSeq(q, f + k + 1, Len(q))[i] = q[f + k + i]
    BY <1>4
  <1> DEFINE x == SubSeq(q, 1, f)
             y == SubSeq(q, f + k + 1, Len(q))
  <1>7. Without(q, ids) = x \o y
    BY <1>2, <1>3
  <1> HIDE DEF x, y
  <1>8. /\ x \o y \in Seq(Batch) /\ Len(x \o y) = Len(x) + Len(y)
        /\ \A i \in 1..(Len(x) + Len(y)) :
             (x \o y)[i] = IF i <= Len(x) THEN x[i] ELSE y[i - Len(x)]
    <2>1. x \in Seq(Batch) /\ y \in Seq(Batch)
      BY <1>5, <1>6 DEF x, y
    <2> QED BY <2>1
  <1>9. Len(x) = f /\ Len(y) = Len(q) - (f + k)
    BY <1>5, <1>6 DEF x, y
  <1>10. ASSUME NEW i \in 1..(Len(q) - k)
         PROVE  /\ i <= f => (x \o y)[i] = q[i]
                /\ i > f => (x \o y)[i] = q[i + k]
    <2>1. CASE i <= f
      <3>1. (x \o y)[i] = x[i] /\ x[i] = q[i]
        BY <2>1, <1>8, <1>9, <1>5, <1>4 DEF x
      <3> QED BY <3>1, <2>1
    <2>2. CASE i > f
      <3>1. (x \o y)[i] = y[i - f] /\ i - f \in 1..(Len(q) - (f + k)) /\ ~(i <= f)
        BY <2>2, <1>8, <1>9, <1>4
      <3>2. y[i - f] = q[f + k + (i - f)] /\ f + k + (i - f) = i + k
        BY <3>1, <1>6, <1>4 DEF y
      <3> QED BY <3>1, <3>2
    <2> QED BY <2>1, <2>2, <1>4
  <1> QED BY <1>4, <1>7, <1>8, <1>9, <1>10


LEMMA SuffixesEqual ==
  ASSUME NEW S, NEW s \in Seq(S), NEW t \in Seq(S), NEW a \in 0..Len(s), NEW b \in 0..Len(t),
         Len(s) - a = Len(t) - b,
         \A i \in 1..(Len(s) - a) : s[a + i] = t[b + i]
  PROVE  SubSeq(s, a + 1, Len(s)) = SubSeq(t, b + 1, Len(t))
  <1>1. Len(s) \in Nat /\ Len(t) \in Nat /\ a \in Nat /\ b \in Nat
    OBVIOUS
  <1>2. /\ SubSeq(s, a + 1, Len(s)) \in Seq(S) /\ Len(SubSeq(s, a + 1, Len(s))) = Len(s) - a
        /\ \A i \in 1..(Len(s) - a) : SubSeq(s, a + 1, Len(s))[i] = s[a + i]
    BY <1>1
  <1>3. /\ SubSeq(t, b + 1, Len(t)) \in Seq(S) /\ Len(SubSeq(t, b + 1, Len(t))) = Len(t) - b
        /\ \A i \in 1..(Len(t) - b) : SubSeq(t, b + 1, Len(t))[i] = t[b + i]
    BY <1>1
  <1> DEFINE x == SubSeq(s, a + 1, Len(s))
             y == SubSeq(t, b + 1, Len(t))
  <1>4. /\ x \in Seq(S) /\ y \in Seq(S) /\ Len(x) = Len(y) /\ \A i \in 1..Len(x) : x[i] = y[i]
    BY <1>2, <1>3
  <1> HIDE DEF x, y
  <1>5. x = y
    BY <1>4
  <1> QED BY <1>5 DEF x, y
LEMMA AddsAre ==
  ASSUME NEW x \in Seq(Batch), NEW c \in Int, c <= Len(x)
  PROVE  /\ SubSeq(x, 1, c) \in Seq(Batch) /\ Len(SubSeq(x, 1, c)) <= Len(x)
         /\ \A i \in 1..Len(SubSeq(x, 1, c)) : SubSeq(x, 1, c)[i] = x[i]
  <1>1. CASE c >= 0
    BY <1>1
  <1>2. CASE c < 0
    <2>1. SubSeq(x, 1, c) = <<>>
      BY <1>2
    <2>2. Len(<<>>) = 0 /\ <<>> \in Seq(Batch) /\ Len(x) >= 0
      OBVIOUS
    <2>3. 1..0 = {}
      OBVIOUS
    <2> QED BY <2>1, <2>2, <2>3
  <1> QED BY <1>1, <1>2

(* Sequence p is what follows in the queue after its first k. *)
Follows(p, k) ==
  /\ k + Len(p) <= Len(queue'[user'])
  /\ \A i \in 1..Len(p) : p[i] = queue'[user'][k + i]

Filled(p, s, r, added) ==
  /\ pipeline' = p \o added
  /\ requests' = IF s = "ready" THEN r \o added ELSE r
  /\ stream' = IF s = "closed" /\ p \o added # <<>> THEN "starting" ELSE s

(* The pipeline is filled with what follows in the queue.                     *)
LEMMA FillAdds ==
  ASSUME queue'[user'] \in Seq(Batch), Ordered(queue'[user']),
         acked'[user'] \in Nat \cup {kFSTBatchIDUnknown},
         NEW k \in Nat, Splits(queue'[user'], acked'[user'], k),
         NEW p \in Seq(Batch), Follows(p, k),
         NEW s, NEW r \in Seq(Batch),
         FillWritePipeline(p, s, r)
  PROVE  \E added \in Seq(Batch) : Filled(p, s, r, added) /\ Follows(p \o added, k)
  <1>1. /\ k + Len(p) <= Len(queue'[user'])
        /\ \A i \in 1..Len(p) : p[i] = queue'[user'][k + i]
    BY DEF Follows
  <1> DEFINE q == queue'[user']
             ids == {kFSTBatchIDUnknown, acked'[user']} \cup BatchIDs(p)
             n == k + Len(p)
  <1>2. /\ Len(q) \in Nat /\ \A i \in 1..Len(q) : q[i].id \in Nat
        /\ Len(p) \in Nat /\ \A i \in 1..Len(p) : p[i].id \in Nat
    BY BatchTypes
  <1>3. n \in 0..Len(q) /\ \A i \in 1..Len(p) : k + i \in 1..Len(q)
    BY <1>1, <1>2
  <1>4. acked'[user'] \in Int /\ acked'[user'] >= -1
    BY DEF kFSTBatchIDUnknown
  <1>5. \A i \in 1..Len(q) : q[i].id <= acked'[user'] <=> i <= k
    BY DEF Splits
  <1> HIDE DEF q
  <1>6. ids \subseteq Int
    BY <1>2, <1>4 DEF BatchIDs, kFSTBatchIDUnknown
  <1>7. \E m \in Int : Max(ids) = m /\ Splits(q, m, n)
    <2>1. CASE Len(p) = 0
      <3>1. BatchIDs(p) = {}
        BY <2>1 DEF BatchIDs
      <3>2. acked'[user'] \in ids /\ \A x \in ids : x <= acked'[user']
        BY <3>1, <1>4 DEF kFSTBatchIDUnknown
      <3> HIDE DEF ids
      <3>3. Max(ids) = acked'[user']
        BY <3>2, <1>6, MaxIs
      <3>4. Splits(q, acked'[user'], n)
        BY <1>3, <1>5, <2>1 DEF Splits
      <3> QED BY <3>3, <3>4, <1>4
    <2>2. CASE Len(p) > 0
      <3>1. /\ Len(p) \in 1..Len(p) /\ n \in 1..Len(q) /\ p[Len(p)] = q[n]
        BY <2>2, <1>1, <1>2, <1>3 DEF q
      <3>2. q[n].id \in ids
        BY <3>1 DEF BatchIDs
      <3>3. q[n].id > acked'[user'] /\ q[n].id \in Nat
        BY <3>1, <1>2, <1>4, <1>5, <2>2
      <3>4. ASSUME NEW i \in 1..Len(p)
            PROVE  p[i].id <= q[n].id
        <4>1. p[i] = q[k + i] /\ k + i \in 1..Len(q) /\ k + i <= n
          BY <1>1, <1>2, <1>3 DEF q
        <4>2. k + i = n \/ q[k + i].id < q[n].id
          BY <4>1, <3>1, <1>2 DEF Ordered, q
        <4> QED BY <4>1, <4>2, <3>3, <1>2
      <3>5. \A x \in ids : x <= q[n].id
        BY <3>3, <3>4, <1>4 DEF BatchIDs, kFSTBatchIDUnknown
      <3> HIDE DEF ids
      <3>6. Max(ids) = q[n].id
        BY <3>2, <3>5, <1>6, MaxIs
      <3>7. ASSUME NEW i \in 1..Len(q)
            PROVE  q[i].id <= q[n].id <=> i <= n
        <4>1. i < n => q[i].id < q[n].id
          BY <3>1 DEF Ordered, q
        <4>2. i > n => q[n].id < q[i].id
          BY <3>1 DEF Ordered, q
        <4>3. i = n \/ i < n \/ i > n
          BY <1>2, <1>3
        <4> QED BY <4>1, <4>2, <4>3, <1>2, <3>1
      <3>8. Splits(q, q[n].id, n)
        BY <3>7, <1>3 DEF Splits
      <3> QED BY <3>6, <3>8, <3>3
    <2>3. Len(p) = 0 \/ Len(p) > 0
      BY <1>2
    <2> QED BY <2>1, <2>2, <2>3, Zenon
  <1>8. Unsent(p) = SubSeq(q, n + 1, Len(q))
    <2>1. PICK m \in Int : Max(ids) = m /\ Splits(q, m, n)
      BY <1>7
    <2>2. q \in Seq(Batch)
      BY DEF q
    <2>3. After(q, m) = SubSeq(q, n + 1, Len(q))
      BY <2>1, <2>2, <1>3, AfterIs
    <2> QED BY <2>1, <2>3 DEF Unsent, q
  <1> DEFINE x == Unsent(p)
             added == SubSeq(x, 1, Min({Len(x), Room(p)}))
  <1>9. /\ x \in Seq(Batch) /\ Len(x) = Len(q) - n
        /\ \A i \in 1..Len(x) : x[i] = q[n + i]
    <2>1. q \in Seq(Batch) /\ n \in 0..Len(q) /\ Len(q) \in Nat
      BY <1>2, <1>3 DEF q
    <2> HIDE DEF n
    <2>2. /\ SubSeq(q, n + 1, Len(q)) \in Seq(Batch)
          /\ Len(SubSeq(q, n + 1, Len(q))) = Len(q) - n
          /\ \A i \in 1..(Len(q) - n) : SubSeq(q, n + 1, Len(q))[i] = q[n + i]
      BY <2>1
    <2> QED BY <2>2, <1>8
  <1> HIDE DEF x
  <1>10. \E c \in Int : Min({Len(x), Room(p)}) = c /\ c <= Len(x)
    <2>1. Len(x) \in Int /\ Room(p) \in Int
      BY <1>9, <1>2, ClientAssumption DEF Room
    <2> QED BY <2>1, MinOfTwo
  <1>11. added \in Seq(Batch) /\ Len(added) <= Len(x) /\ \A i \in 1..Len(added) : added[i] = x[i]
    <2>1. PICK c \in Int : Min({Len(x), Room(p)}) = c /\ c <= Len(x)
      BY <1>10
    <2>2. added = SubSeq(x, 1, c)
      BY <2>1
    <2> QED BY <2>1, <2>2, <1>9, AddsAre
  <1>12. /\ pipeline' = p \o added
         /\ requests' = IF s = "ready" THEN r \o added ELSE r
         /\ stream' = IF s = "closed" /\ p \o added # <<>> THEN "starting" ELSE s
    BY DEF FillWritePipeline, HandshakeComplete, ShouldStartWriteStream, x
  <1> HIDE DEF added
  <1>13. /\ p \o added \in Seq(Batch) /\ Len(p \o added) = Len(p) + Len(added)
         /\ \A i \in 1..Len(p) : (p \o added)[i] = p[i]
         /\ \A i \in 1..Len(added) : (p \o added)[Len(p) + i] = added[i]
    BY <1>11
  <1>14. Len(added) \in Nat
    BY <1>11
  <1>15. ASSUME NEW i \in 1..Len(p \o added)
         PROVE  (p \o added)[i] = q[k + i]
    <2>1. CASE i <= Len(p)
      <3>1. i \in 1..Len(p)
        BY <2>1, <1>13
      <3> QED BY <3>1, <1>1, <1>13 DEF q
    <2>2. CASE i > Len(p)
      <3>1. i - Len(p) \in 1..Len(added) /\ i - Len(p) \in 1..Len(x) /\ Len(p) + (i - Len(p)) = i
        BY <2>2, <1>2, <1>9, <1>3, <1>11, <1>13, <1>14
      <3>2. (p \o added)[i] = q[n + (i - Len(p))]
        BY <3>1, <1>9, <1>11, <1>13
      <3>3. n + (i - Len(p)) = k + i
        BY <1>2, <3>1
      <3> QED BY <3>2, <3>3
    <2> QED BY <2>1, <2>2, <1>2, <1>13
  <1>16. k + Len(p \o added) <= Len(q)
    BY <1>2, <1>3, <1>9, <1>11, <1>13, <1>14
  <1>17. Filled(p, s, r, added) /\ Follows(p \o added, k)
    BY <1>12, <1>15, <1>16 DEF q, Filled, Follows
  <1> QED BY <1>11, <1>17

--------------------------------------------------------------------------------
(* The bounds. *)

Counted == {"write", "refused", "break", "restart", "user", "listen", "other"}

LEMMA BoundsSpent ==
  ASSUME NEW b \in Bounds, NEW what \in Counted, b[what] > 0
  PROVE  /\ [b EXCEPT ![what] = @ - 1] \in Bounds
         /\ what # "write" => [b EXCEPT ![what] = @ - 1]["write"] = b["write"]
         /\ what = "write" => [b EXCEPT ![what] = @ - 1]["write"] = b["write"] - 1
         /\ b["write"] \in Nat
  <1> DEFINE c == [b EXCEPT ![what] = @ - 1]
  <1>1. /\ b.write \in Nat /\ b.refused \in Nat /\ b.break \in Nat /\ b.restart \in Nat
        /\ b.user \in Nat /\ b.listen \in Nat /\ b.other \in Nat /\ b.docs \in SUBSET Docs
    BY DEF Bounds
  <1>2. CASE what = "write"
    BY <1>1, <1>2 DEF Bounds
  <1>3. CASE what = "refused"
    BY <1>1, <1>3 DEF Bounds
  <1>4. CASE what = "break"
    BY <1>1, <1>4 DEF Bounds
  <1>5. CASE what = "restart"
    BY <1>1, <1>5 DEF Bounds
  <1>6. CASE what = "user"
    BY <1>1, <1>6 DEF Bounds
  <1>7. CASE what = "listen"
    BY <1>1, <1>7 DEF Bounds
  <1>8. CASE what = "other"
    BY <1>1, <1>8 DEF Bounds
  <1> QED BY <1>2, <1>3, <1>4, <1>5, <1>6, <1>7, <1>8 DEF Counted

LEMMA SpendKeeps ==
  ASSUME ClientInv, NEW what \in Counted, Spend(what)
  PROVE  budget' \in Bounds /\ budget'["write"] <= budget["write"]
  <1>1. budget \in Bounds /\ budget[what] > 0 /\ budget' = [budget EXCEPT ![what] = @ - 1]
    BY DEF ClientInv, ClientTypeOK, Spend
  <1> DEFINE b == [budget EXCEPT ![what] = @ - 1]
  <1>2. /\ b \in Bounds /\ budget["write"] \in Nat
        /\ what # "write" => b["write"] = budget["write"]
        /\ what = "write" => b["write"] = budget["write"] - 1
    BY <1>1, BoundsSpent
  <1> HIDE DEF b
  <1>3. budget' = b
    BY <1>1 DEF b
  <1>4. b["write"] <= budget["write"]
    BY <1>2
  <1> QED BY <1>2, <1>3, <1>4

(* The budgets' greatest number of writes bounds the writes.                  *)
LEMMA BoundOfWrites ==
  ASSUME NEW b \in Budgets
  PROVE  /\ Max({c["write"] : c \in Budgets}) \in Nat
         /\ b["write"] <= Max({c["write"] : c \in Budgets})
  <1> DEFINE M == {c["write"] : c \in Budgets}
  <1>1. M \subseteq Nat /\ M # {} /\ b["write"] \in M
    BY ClientAssumption DEF Bounds
  <1>2. PICK n \in Nat : ExistsSurjection(1..n, Budgets)
    BY ClientAssumption, FS_NatSurjection
  <1>3. PICK f \in [1..n -> Budgets] : \A c \in Budgets : \E i \in 1..n : f[i] = c
    BY <1>2 DEF ExistsSurjection, Surjection
  <1> DEFINE T == {k \in Nat : k <= n => \E m \in Nat : \A i \in 1..k : f[i]["write"] <= m}
  <1>4. 0 \in T
    OBVIOUS
  <1>5. ASSUME NEW k \in Nat, k \in T
        PROVE  k + 1 \in T
    <2>1. SUFFICES ASSUME k + 1 <= n
                   PROVE  \E m \in Nat : \A i \in 1..(k + 1) : f[i]["write"] <= m
      OBVIOUS
    <2>2. PICK m \in Nat : \A i \in 1..k : f[i]["write"] <= m
      BY <1>5, <2>1
    <2>3. f[k + 1]["write"] \in Nat
      <3>1. f[k + 1] \in Budgets
        BY <2>1
      <3> QED BY <3>1, <1>1
    <2>4. m + f[k + 1]["write"] \in Nat
      BY <2>3
    <2>5. ASSUME NEW i \in 1..(k + 1)
          PROVE  f[i]["write"] <= m + f[k + 1]["write"]
      <3>1. CASE i = k + 1
        BY <3>1, <2>3
      <3>2. CASE i \in 1..k
        <4>1. f[i] \in Budgets
          BY <2>1, <3>2
        <4>2. f[i]["write"] \in Nat
          BY <4>1, <1>1
        <4> QED BY <4>2, <3>2, <2>2, <2>3
      <3> QED BY <3>1, <3>2
    <2> QED BY <2>4, <2>5
  <1> HIDE DEF T
  <1>6. n \in T
    BY <1>4, <1>5, SetInduction
  <1>7. PICK m \in Nat : \A i \in 1..n : f[i]["write"] <= m
    BY <1>6 DEF T
  <1>8. \A x \in M : x <= m
    BY <1>3, <1>7
  <1> HIDE DEF M
  <1>9. M \subseteq Int /\ m \in Int
    BY <1>1
  <1>10. PICK x \in M : \A y \in M : y <= x
    BY <1>1, <1>8, <1>9, MaxExists
  <1>11. Max(M) = x
    BY <1>9, <1>10, MaxIs
  <1> QED BY <1>1, <1>10, <1>11 DEF M

--------------------------------------------------------------------------------
LEMMA View ==
  ASSUME ClientInv
  PROVE  /\ queue[user] \in Seq(Batch) /\ Len(queue[user]) \in Nat
         /\ \A u \in Users : queue[u] \in Seq(Batch) /\ Ordered(queue[u])
         /\ Splits(queue[user], acked[user], Len(held))
         /\ Len(held) \in Nat /\ Len(pipeline) \in Nat
         /\ Unacknowledged(user) = SubSeq(queue[user], Len(held) + 1, Len(queue[user]))
  <1>1. /\ \A u \in Users : queue[u] \in Seq(Batch)
        /\ user \in Users /\ held \in Seq(Result) /\ pipeline \in Seq(Batch)
        /\ acked[user] \in Int
    BY DEF ClientInv, ClientTypeOK, kFSTBatchIDUnknown
  <1>2. \A u \in Users : Ordered(queue[u])
    BY DEF ClientInv, IdsInOrder, Ordered
  <1>3. Len(held) \in Nat /\ Len(pipeline) \in Nat /\ Len(queue[user]) \in Nat
    BY <1>1
  <1>4. Splits(queue[user], acked[user], Len(held)) /\ Len(held) \in 0..Len(queue[user])
    BY <1>3 DEF ClientInv, HeldFirst, Splits
  <1>5. After(queue[user], acked[user]) = SubSeq(queue[user], Len(held) + 1, Len(queue[user]))
    BY <1>1, <1>4, AfterIs
  <1> QED BY <1>1, <1>2, <1>3, <1>4, <1>5 DEF Unacknowledged

LEMMA ClientInvInit == Init => ClientInv
  <1> SUFFICES ASSUME Init PROVE ClientInv
    OBVIOUS
  <1>1. \A s : Len(s) = 0 => 1..Len(s) = {}
    OBVIOUS
  <1>2. /\ Len(<<>>) = 0 /\ \A u \in Users : queue[u] = <<>>
        /\ queue[user] = <<>> /\ acked[user] = -1 /\ user \in Users
    BY ClientAssumption DEF Init, kFSTBatchIDUnknown
  <1>3. budget \in Budgets /\ budget \in Bounds
    BY ClientAssumption DEF Init
  <1>4. history \in Seq(Commitment) /\ history # <<>> /\ Len(history) = 1 /\ history[1].w = 0
    <2>1. PICK there \in SUBSET budget.docs :
            history = <<[w |-> 0, docs |->
              [d \in Docs |-> IF d \in there THEN [kind |-> "doc", f |-> 0, g |-> 0, version |-> 1]
                              ELSE Deleted(1)]]>>
      BY DEF Init
    <2> DEFINE ds == [d \in Docs |->
                        IF d \in there THEN [kind |-> "doc", f |-> 0, g |-> 0, version |-> 1]
                        ELSE Deleted(1)]
    <2>2. ds \in [Docs -> Document]
      BY DEF Document, Deleted
    <2> HIDE DEF ds
    <2>3. [w |-> 0, docs |-> ds] \in Commitment
      BY <2>2 DEF Commitment
    <2>4. history = <<[w |-> 0, docs |-> ds]>>
      BY <2>1 DEF ds
    <2> QED BY <2>3, <2>4
  <1>5. ClientTypeOK
    BY <1>2, <1>3, <1>4, ClientAssumption DEF Init, ClientTypeOK, kFSTBatchIDUnknown
  <1>6. IdsInOrder
    BY <1>1, <1>2 DEF Init, IdsInOrder
  <1>7. HeldFirst /\ PipelineNext
    BY <1>1, <1>2 DEF Init, HeldFirst, PipelineNext
  <1>8. AnswersInOrder
    BY <1>1, <1>2 DEF Init, AnswersInOrder
  <1>9. QueuesPending
    BY <1>1, <1>2 DEF Init, QueuesPending
  <1>10. OutcomesTrue
    BY <1>1, <1>2, <1>4 DEF Init, OutcomesTrue, InHistory
  <1>11. CallsTrue
    BY <1>1, <1>2 DEF Init, CallsTrue
  <1>12. WritesNumbered
    <2>1. Len(outcome) = 0 /\ 1..Len(settled) = {}
      BY <1>1, <1>2 DEF Init
    <2>2. budget["write"] \in Nat
      BY <1>3 DEF Bounds
    <2>3. /\ Len(outcome) + budget["write"] <= Max({b["write"] : b \in Budgets})
          /\ Max({b["write"] : b \in Budgets}) \in Nat
      BY <1>3, <2>1, <2>2, BoundOfWrites
    <2> QED BY <2>1, <2>3 DEF WritesNumbered
  <1> QED BY <1>5, <1>6, <1>7, <1>8, <1>9, <1>10, <1>11, <1>12 DEF ClientInv

--------------------------------------------------------------------------------
(* Steps of the stream, the backend and the listeners: the queues stay.       *)

LEMMA BudgetIs ==
  ASSUME ClientInv
  PROVE  /\ budget \in Bounds /\ budget["write"] \in Nat /\ budget["refused"] \in Nat
         /\ budget["write"] <= budget["write"]
  <1>1. budget \in Bounds
    BY DEF ClientInv, ClientTypeOK
  <1> QED BY <1>1 DEF Bounds

LEMMA QueueStays ==
  ASSUME ClientInv,
         UNCHANGED <<queue, acked, user, nextBatchID, callbacks, held, pipeline, outcome,
                     settled, calls>>,
         budget' \in Bounds, budget'["write"] <= budget["write"],
         stream' \in {"closed", "starting", "open", "ready"},
         requests' \in Seq(Batch), responses' \in Seq(Response),
         history' \in Seq(Commitment), history' # <<>>,
         AnswersInOrder', OutcomesTrue'
  PROVE  ClientInv'
  <1>1. ClientTypeOK'
    BY DEF ClientInv, ClientTypeOK
  <1>2. IdsInOrder' /\ HeldFirst' /\ PipelineNext'
    BY DEF ClientInv, IdsInOrder, HeldFirst, PipelineNext
  <1>3. QueuesPending' /\ CallsTrue'
    BY DEF ClientInv, QueuesPending, CallsTrue
  <1>4. WritesNumbered'
    <2>1. budget["write"] \in Nat /\ budget'["write"] \in Nat /\ Len(outcome) \in Nat
      <3>1. outcome \in Seq(Outcome)
        BY DEF ClientInv, ClientTypeOK
      <3> QED BY <3>1, BudgetIs DEF Bounds
    <2> DEFINE top == Max({b["write"] : b \in Budgets})
    <2>2. /\ \A i \in 1..Len(settled) : settled[i].w \in 1..Len(outcome)
          /\ top \in Nat /\ Len(outcome) + budget["write"] <= top
      BY DEF ClientInv, WritesNumbered
    <2> HIDE DEF top
    <2>3. Len(outcome) + budget'["write"] <= top
      BY <2>1, <2>2
    <2> QED BY <2>2, <2>3 DEF WritesNumbered, top
  <1> QED BY <1>1, <1>2, <1>3, <1>4 DEF ClientInv

LEMMA HistoryStays ==
  ASSUME ClientInv, UNCHANGED <<history, outcome, queue>>
  PROVE  OutcomesTrue'
  BY DEF ClientInv, OutcomesTrue, InHistory

LEMMA AnswersStay ==
  ASSUME ClientInv, UNCHANGED <<history, pipeline, stream, requests, responses>>
  PROVE  AnswersInOrder'
  <1>1. Taken' = Taken
    BY DEF Taken, Refused
  <1>2. AnswersInOrder /\ \A w : InHistory(history', w) <=> InHistory(history, w)
    BY DEF ClientInv
  <1> QED BY <1>1, <1>2 DEF AnswersInOrder

LEMMA NothingOnTheWay ==
  ASSUME ClientInv, stream' # "ready", requests' = <<>>, responses' = <<>>,
         Len(pipeline') \in Nat
  PROVE  AnswersInOrder' /\ requests' \in Seq(Batch) /\ responses' \in Seq(Response)
  <1>1. Len(<<>>) = 0 /\ 1..0 = {}
    OBVIOUS
  <1> QED BY <1>1 DEF AnswersInOrder

LEMMA NotReady ==
  ASSUME ClientInv, stream # "ready"
  PROVE  requests = <<>> /\ responses = <<>> /\ ~Refused /\ Taken = 0
  <1>1. Len(<<>>) = 0 /\ 1..0 = {}
    OBVIOUS
  <1> QED BY <1>1 DEF ClientInv, AnswersInOrder, Refused, Taken

LEMMA StreamOpensKeeps ==
  ASSUME ClientInv, StreamOpens
  PROVE  ClientInv'
  <1>1. requests = <<>> /\ responses = <<>>
    BY NotReady DEF StreamOpens
  <1>2. AnswersInOrder' /\ requests' \in Seq(Batch) /\ responses' \in Seq(Response)
    BY <1>1, View, NothingOnTheWay DEF StreamOpens
  <1>3. /\ UNCHANGED <<queue, acked, user, nextBatchID, callbacks, held, pipeline, outcome,
                       settled, calls, history, budget>>
        /\ stream' = "open"
    BY DEF StreamOpens, persisted, memory, ghosts
  <1>4. budget \in Bounds /\ budget["write"] <= budget["write"] /\ history \in Seq(Commitment)
        /\ history # <<>>
    BY BudgetIs, SMTT(30) DEF ClientInv, ClientTypeOK
  <1> QED BY <1>2, <1>3, <1>4, HistoryStays, QueueStays

LEMMA HandshakeCompletesKeeps ==
  ASSUME ClientInv, HandshakeCompletes
  PROVE  ClientInv'
  <1>1. /\ UNCHANGED <<queue, acked, user, nextBatchID, callbacks, held, pipeline, outcome,
                       settled, calls, history, budget, responses>>
        /\ stream' = "ready" /\ requests' = pipeline
    BY DEF HandshakeCompletes, persisted, memory, ghosts
  <1>2. responses = <<>>
    BY NotReady DEF HandshakeCompletes
  <1>3. /\ budget \in Bounds /\ budget["write"] <= budget["write"] /\ history \in Seq(Commitment)
        /\ history # <<>> /\ responses \in Seq(Response) /\ pipeline \in Seq(Batch)
    BY BudgetIs, SMTT(30) DEF ClientInv, ClientTypeOK
  <1>4. Taken' = 0
    <2>1. Len(<<>>) = 0 /\ 1..0 = {}
      OBVIOUS
    <2> QED BY <1>1, <1>2, <2>1 DEF Taken, Refused
  <1>5. AnswersInOrder'
    <2>1. Len(<<>>) = 0 /\ 1..0 = {} /\ Len(pipeline) \in Nat /\ 0 <= Len(pipeline)
      BY <1>3
    <2>2. \A i \in 1..Len(pipeline) : 0 + i = i
      OBVIOUS
    <2> QED BY <1>1, <1>2, <1>4, <2>1, <2>2 DEF AnswersInOrder
  <1> QED BY <1>1, <1>3, <1>5, HistoryStays, QueueStays

LEMMA IdleClosesKeeps ==
  ASSUME ClientInv, IdleCloses
  PROVE  ClientInv' /\ responses = <<>>
  <1>1. /\ UNCHANGED <<queue, acked, user, nextBatchID, callbacks, held, pipeline, outcome,
                       settled, calls, history, budget, requests, responses>>
        /\ stream' = "closed" /\ stream = "ready" /\ pipeline = <<>>
    BY DEF IdleCloses, persisted, memory, ghosts
  <1>2. /\ budget \in Bounds /\ budget["write"] <= budget["write"] /\ history \in Seq(Commitment)
        /\ history # <<>> /\ responses \in Seq(Response) /\ requests \in Seq(Batch)
    BY BudgetIs, SMTT(30) DEF ClientInv, ClientTypeOK
  <1>3. responses = <<>> /\ requests = <<>>
    <2>1. Len(<<>>) = 0 /\ 1..0 = {}
      OBVIOUS
    <2>2. Len(responses) = 0
      BY <1>1, <1>2, <2>1 DEF ClientInv, AnswersInOrder
    <2>3. responses = <<>>
      BY <2>2, <1>2
    <2>4. Taken = 0
      BY <2>1, <2>3 DEF Taken, Refused
    <2>5. Len(requests) = 0
      BY <1>1, <2>1, <2>4 DEF ClientInv, AnswersInOrder
    <2> QED BY <2>3, <2>5, <1>2
  <1>4. AnswersInOrder'
    BY <1>1, <1>3, View, NothingOnTheWay
  <1> QED BY <1>1, <1>2, <1>3, <1>4, HistoryStays, QueueStays

LEMMA StreamBreaksKeeps ==
  ASSUME ClientInv, StreamBreaks
  PROVE  ClientInv'
  <1>1. /\ UNCHANGED <<queue, acked, user, nextBatchID, callbacks, held, pipeline, outcome,
                       settled, calls, history>>
        /\ stream' \in {"closed", "starting"} /\ requests' = <<>> /\ responses' = <<>>
    BY DEF StreamBreaks, persisted, memory, ghosts
  <1>2. history \in Seq(Commitment) /\ history # <<>>
    BY DEF ClientInv, ClientTypeOK
  <1>3. budget' \in Bounds /\ budget'["write"] <= budget["write"]
    BY SpendKeeps DEF StreamBreaks, Counted
  <1>4. AnswersInOrder' /\ requests' \in Seq(Batch) /\ responses' \in Seq(Response)
    BY <1>1, View, NothingOnTheWay
  <1> QED BY <1>1, <1>2, <1>3, <1>4, HistoryStays, QueueStays

LEMMA ListenKeeps ==
  ASSUME ClientInv, NEW d \in Docs, Listen(d)
  PROVE  ClientInv'
  <1>1. UNCHANGED <<queue, acked, user, nextBatchID, callbacks, held, pipeline, outcome,
                    settled, calls, history, stream, requests, responses>>
    BY DEF Listen, persisted, remote, ghosts
  <1>2. /\ history \in Seq(Commitment) /\ history # <<>>
        /\ stream \in {"closed", "starting", "open", "ready"}
        /\ requests \in Seq(Batch) /\ responses \in Seq(Response)
    BY DEF ClientInv, ClientTypeOK
  <1>3. budget' \in Bounds /\ budget'["write"] <= budget["write"]
    BY SpendKeeps DEF Listen, Counted
  <1>4. AnswersInOrder'
    BY <1>1, AnswersStay
  <1> QED BY <1>1, <1>2, <1>3, <1>4, HistoryStays, QueueStays

--------------------------------------------------------------------------------
(* Steps of the backend. *)

LEMMA MutationType ==
  ASSUME NEW doc \in Document, NEW m, m.w \in Nat, m.kind \in Kinds
  PROVE  ApplyMutation(doc, m) \in Document
  <1>1. ApplySet(doc, m) \in Document
    BY DEF ApplySet, Document
  <1>2. ApplyPatch(doc, m) \in Document
    BY DEF ApplyPatch, Document
  <1>3. ApplyDelete(doc, m) \in Document
    BY DEF ApplyDelete, Deleted, Document
  <1>4. m.kind = "set" \/ m.kind = "update" \/ m.kind = "delete"
    BY DEF Kinds
  <1> QED BY <1>1, <1>2, <1>3, <1>4 DEF ApplyMutation

LEMMA CommitAdds ==
  ASSUME ClientInv, NEW m, m.w \in Nat, m.kind \in Kinds, m.doc \in Docs, Commit(m)
  PROVE  /\ history' \in Seq(Commitment) /\ history' # <<>>
         /\ Len(history) \in Nat /\ Len(history') = Len(history) + 1
         /\ \A v \in 1..Len(history) : history'[v].w = history[v].w
         /\ history'[Len(history) + 1].w = m.w
         /\ \A w : InHistory(history', w) <=> InHistory(history, w) \/ w = m.w
         /\ \E docs \in [Docs -> Document] : history' = Append(history, [w |-> m.w, docs |-> docs])
  <1> DEFINE doc == [ApplyMutation(Db[m.doc], m) EXCEPT !.version = Version + 1]
             docs == [Db EXCEPT ![m.doc] = doc]
             c == [w |-> m.w, docs |-> docs]
  <1>1. history \in Seq(Commitment) /\ Len(history) \in Nat /\ Len(history) \in 1..Len(history)
    BY DEF ClientInv, ClientTypeOK
  <1>2. Db \in [Docs -> Document] /\ Version \in Nat
    <2>1. \A c0 \in Commitment : c0.docs \in [Docs -> Document]
      BY DEF Commitment
    <2>2. history[Len(history)] \in Commitment
      BY <1>1
    <2> QED BY <1>1, <2>1, <2>2 DEF Db, Version
  <1>3. ApplyMutation(Db[m.doc], m) \in Document
    BY <1>2, MutationType
  <1>4. doc \in Document
    BY <1>2, <1>3 DEF Document
  <1> HIDE DEF doc
  <1>5. docs \in [Docs -> Document]
    BY <1>2, <1>4
  <1> HIDE DEF docs
  <1>6. c \in Commitment /\ c.w = m.w
    BY <1>5 DEF Commitment
  <1>7. history' = Append(history, c)
    BY DEF Commit, c, docs, doc
  <1> HIDE DEF c
  <1>8. /\ history' \in Seq(Commitment) /\ Len(history') = Len(history) + 1
        /\ \A v \in 1..Len(history) : history'[v] = history[v]
        /\ history'[Len(history) + 1] = c
    BY <1>1, <1>6, <1>7
  <1>9. history' # <<>>
    BY <1>1, <1>8
  <1>10. \A w : InHistory(history', w) <=> InHistory(history, w) \/ w = m.w
    <2>1. \A v \in 1..Len(history') : v \in 1..Len(history) \/ v = Len(history) + 1
      BY <1>1, <1>8
    <2>2. \A v \in 1..Len(history) : v \in 1..Len(history')
      BY <1>1, <1>8
    <2>3. Len(history) + 1 \in 1..Len(history')
      BY <1>1, <1>8
    <2> QED BY <2>1, <2>2, <2>3, <1>6, <1>8 DEF InHistory
  <1> QED BY <1>1, <1>5, <1>6, <1>7, <1>8, <1>9, <1>10 DEF c

(* The write of the pipeline that the backend takes or refuses next.          *)
LEMMA NextAnswered ==
  ASSUME ClientInv, requests # <<>>, \A i \in 1..Len(responses) : responses[i].ok
  PROVE  /\ stream = "ready" /\ ~Refused /\ Taken = Len(responses) /\ Len(responses) \in Nat
         /\ Len(requests) \in Nat /\ Len(requests) = Len(pipeline) - Len(responses)
         /\ Len(responses) + 1 \in 1..Len(pipeline)
         /\ Head(requests) = pipeline[Len(responses) + 1]
         /\ Head(requests) \in Batch
         /\ Len(held) + Len(responses) + 1 \in 1..Len(queue[user])
         /\ Head(requests) = queue[user][Len(held) + Len(responses) + 1]
         /\ Head(requests).w \in 1..Len(outcome)
  <1>1. /\ stream = "ready" /\ ~Refused /\ Taken = Len(responses)
    BY NotReady DEF Refused, Taken
  <1>2. /\ requests \in Seq(Batch) /\ responses \in Seq(Response) /\ pipeline \in Seq(Batch)
        /\ user \in Users
    BY DEF ClientInv, ClientTypeOK
  <1>3. /\ Len(requests) \in Nat /\ Len(responses) \in Nat /\ Len(requests) > 0
        /\ Len(pipeline) \in Nat
        /\ 1 \in 1..Len(requests) /\ Head(requests) = requests[1] /\ Head(requests) \in Batch
    BY <1>2
  <1>4. /\ Len(requests) = Len(pipeline) - Len(responses)
        /\ requests[1] = pipeline[Len(responses) + 1]
    BY <1>1, <1>3 DEF ClientInv, AnswersInOrder
  <1>5. Len(responses) + 1 \in 1..Len(pipeline)
    BY <1>3, <1>4
  <1>6. /\ Len(held) + Len(pipeline) <= Len(queue[user]) /\ Len(held) \in Nat
        /\ Len(queue[user]) \in Nat
        /\ \A i \in 1..Len(pipeline) : pipeline[i] = queue[user][Len(held) + i]
    BY View DEF ClientInv, PipelineNext
  <1>7. /\ Len(held) + Len(responses) + 1 \in 1..Len(queue[user])
        /\ Len(held) + (Len(responses) + 1) = Len(held) + Len(responses) + 1
    BY <1>3, <1>5, <1>6
  <1>8. pipeline[Len(responses) + 1] = queue[user][Len(held) + Len(responses) + 1]
    BY <1>5, <1>6, <1>7
  <1>9. queue[user][Len(held) + Len(responses) + 1].w \in 1..Len(outcome)
    BY <1>2, <1>7 DEF ClientInv, QueuesPending
  <1> QED BY <1>1, <1>3, <1>4, <1>5, <1>7, <1>8, <1>9

LEMMA AnswerAppended ==
  ASSUME ClientInv, NEW r \in Response
  PROVE  /\ Append(responses, r) \in Seq(Response)
         /\ Len(Append(responses, r)) = Len(responses) + 1
         /\ \A i \in 1..Len(responses) : Append(responses, r)[i] = responses[i]
         /\ Append(responses, r)[Len(responses) + 1] = r
         /\ \A i \in 1..(Len(responses) + 1) : i \in 1..Len(responses) \/ i = Len(responses) + 1
         /\ Len(responses) + 1 \in 1..(Len(responses) + 1)
  <1>1. responses \in Seq(Response) /\ Len(responses) \in Nat
    BY DEF ClientInv, ClientTypeOK
  <1> QED BY <1>1

LEMMA ServerTakesKeeps ==
  ASSUME ClientInv, ServerTakes
  PROVE  ClientInv'
  <1> DEFINE m == Head(requests)
             k == Len(responses)
             r == [w |-> m.w, ok |-> TRUE, version |-> Version + 1]
  <1>1. /\ stream = "ready" /\ ~Refused /\ Taken = k /\ k \in Nat
        /\ Len(requests) \in Nat /\ Len(requests) = Len(pipeline) - k
        /\ k + 1 \in 1..Len(pipeline) /\ m = pipeline[k + 1] /\ m \in Batch
        /\ Len(held) + k + 1 \in 1..Len(queue[user])
        /\ m = queue[user][Len(held) + k + 1] /\ m.w \in 1..Len(outcome)
        /\ \A i \in 1..Len(responses) : responses[i].ok
    BY NextAnswered DEF ServerTakes
  <1>2. /\ requests \in Seq(Batch) /\ Len(outcome) \in Nat
        /\ Len(pipeline) \in Nat /\ user \in Users
    BY View DEF ClientInv, ClientTypeOK
  <1>3. /\ m.allowed /\ Commit(m)
        /\ responses' = Append(responses, r) /\ requests' = Tail(requests)
        /\ UNCHANGED <<queue, acked, user, nextBatchID, callbacks, held, pipeline, outcome,
                       settled, calls, stream, budget>>
    BY DEF ServerTakes, Accepts, persisted, memory, ghosts
  <1>4. /\ m.w \in Nat /\ m.kind \in Kinds /\ m.doc \in Docs
    BY <1>1, BatchTypes
  <1> HIDE DEF m
  <1>5. /\ history' \in Seq(Commitment) /\ history' # <<>>
        /\ \A w : InHistory(history', w) <=> InHistory(history, w) \/ w = m.w
        /\ \A v \in 1..Len(history) : history'[v].w = history[v].w
        /\ Len(history) \in Nat /\ Len(history') = Len(history) + 1
        /\ history'[Len(history) + 1].w = m.w
    BY <1>3, <1>4, CommitAdds
  <1>6. r \in Response /\ r.w = m.w /\ r.ok
    <2>1. Version \in Nat
      BY <1>5 DEF Version
    <2> QED BY <2>1, <1>4 DEF Response
  <1> HIDE DEF r
  <1>7. /\ responses' \in Seq(Response) /\ Len(responses') = k + 1
        /\ \A i \in 1..k : responses'[i] = responses[i]
        /\ responses'[k + 1] = r
        /\ \A i \in 1..(k + 1) : i \in 1..k \/ i = k + 1
    BY <1>3, <1>6, AnswerAppended
  <1>8. /\ requests' \in Seq(Batch) /\ Len(requests') = Len(requests) - 1
        /\ \A i \in 1..Len(requests') : requests'[i] = requests[i + 1] /\ i + 1 \in 1..Len(requests)
    BY <1>1, <1>2, <1>3, SMTT(30)
  <1>9. ~Refused' /\ Taken' = k + 1
    BY <1>1, <1>6, <1>7 DEF Refused, Taken
  <1>10. AnswersInOrder'
    <2>1. Len(responses') <= Len(pipeline')
      BY <1>1, <1>3, <1>7
    <2>2. ASSUME NEW i \in 1..Len(responses')
          PROVE  /\ responses'[i].w = pipeline'[i].w /\ responses'[i].ok
                 /\ InHistory(history', responses'[i].w)
      <3>1. CASE i \in 1..k
        <4>1. responses[i].w = pipeline[i].w /\ responses[i].ok
              /\ InHistory(history, responses[i].w)
          BY <3>1, <1>1 DEF ClientInv, AnswersInOrder
        <4> QED BY <4>1, <3>1, <1>3, <1>5, <1>7
      <3>2. CASE i = k + 1
        BY <3>2, <1>1, <1>3, <1>5, <1>6, <1>7
      <3> QED BY <3>1, <3>2, <1>7
    <2>3. Len(requests') = Len(pipeline') - Taken'
      BY <1>1, <1>2, <1>3, <1>8, <1>9
    <2>4. ASSUME NEW i \in 1..Len(requests')
          PROVE  requests'[i] = pipeline'[Taken' + i]
      <3>1. requests'[i] = requests[i + 1] /\ i + 1 \in 1..Len(requests)
        BY <1>8
      <3>2. requests[i + 1] = pipeline[Taken + (i + 1)]
        BY <3>1, <1>1 DEF ClientInv, AnswersInOrder
      <3>3. Taken + (i + 1) = Taken' + i
        BY <1>1, <1>9
      <3> QED BY <3>1, <3>2, <3>3, <1>3
    <2> QED BY <2>1, <2>2, <2>3, <2>4, <1>1, <1>3 DEF AnswersInOrder
  <1>11. OutcomesTrue'
    <2>1. outcome[m.w].result = "pending"
      <3>1. queue[user][Len(held) + k + 1].id > acked[user]
        <4>1. ~(Len(held) + k + 1 <= Len(held)) /\ queue[user][Len(held) + k + 1] \in Batch
          BY <1>1, View
        <4>2. ~(queue[user][Len(held) + k + 1].id <= acked[user])
          BY <4>1, <1>1 DEF ClientInv, HeldFirst
        <4>3. acked[user] \in Int /\ queue[user][Len(held) + k + 1].id \in Int
          BY <4>1, <1>2, BatchTypes DEF ClientInv, ClientTypeOK, kFSTBatchIDUnknown
        <4> QED BY <4>2, <4>3
      <3>2. ~(queue[user][Len(held) + k + 1].id <= acked[user])
        BY <1>1 DEF ClientInv, HeldFirst, View
      <3> QED BY <3>2, <1>1, <1>2 DEF ClientInv, QueuesPending
    <2>2. ASSUME NEW w \in 1..Len(outcome)
          PROVE  /\ outcome[w].result = "ok" => InHistory(history', w)
                 /\ outcome[w].result = "failed" /\ outcome[w].kind # "update" => ~InHistory(history', w)
      BY <2>1, <1>5 DEF ClientInv, OutcomesTrue
    <2>3. ASSUME NEW u \in Users, NEW i \in 1..Len(queue[u]), InHistory(history', queue[u][i].w)
          PROVE  queue[u][i].allowed
      <3>1. CASE InHistory(history, queue[u][i].w)
        BY <3>1 DEF ClientInv, OutcomesTrue
      <3>2. CASE queue[u][i].w = m.w
        <4>1. outcome[queue[u][i].w].user = u /\ outcome[m.w].user = user
          BY <1>1, <1>2, SMTT(30) DEF ClientInv, QueuesPending
        <4>2. u = user
          BY <4>1, <3>2
        <4>3. i = Len(held) + k + 1
          <5>1. /\ ~(queue[user][i].w < m.w) /\ ~(m.w < queue[user][i].w)
            BY <3>2, <4>2, <1>4
          <5>2. ~(i < Len(held) + k + 1) /\ ~(Len(held) + k + 1 < i)
            BY <5>1, <4>2, <1>1, <1>2 DEF ClientInv, IdsInOrder
          <5> QED BY <5>2, <4>2, <1>1, View
        <4> QED BY <4>2, <4>3, <1>1, <1>3
      <3> QED BY <2>3, <3>1, <3>2, <1>5
    <2>4. \A v \in 1..Len(history') : history'[v].w <= Len(outcome)
      <3>1. \A v \in 1..Len(history') : v \in 1..Len(history) \/ v = Len(history) + 1
        BY <1>5
      <3>2. m.w <= Len(outcome)
        BY <1>1, <1>2
      <3> QED BY <3>1, <3>2, <1>5 DEF ClientInv, OutcomesTrue
    <2> QED BY <2>2, <2>3, <2>4, <1>3 DEF OutcomesTrue
  <1>12. budget \in Bounds /\ budget["write"] <= budget["write"]
         /\ stream \in {"closed", "starting", "open", "ready"}
    BY BudgetIs, SMTT(30) DEF ClientInv, ClientTypeOK
  <1> QED BY <1>3, <1>5, <1>7, <1>8, <1>10, <1>11, <1>12, QueueStays

LEMMA ServerRefusesKeeps ==
  ASSUME ClientInv, ServerRefuses
  PROVE  ClientInv'
  <1> DEFINE m == Head(requests)
             k == Len(responses)
             r == [w |-> m.w, ok |-> FALSE, version |-> 0]
  <1>1. /\ stream = "ready" /\ ~Refused /\ Taken = k /\ k \in Nat
        /\ Len(requests) \in Nat /\ Len(requests) = Len(pipeline) - k
        /\ k + 1 \in 1..Len(pipeline) /\ m = pipeline[k + 1] /\ m \in Batch
        /\ Len(held) + k + 1 \in 1..Len(queue[user])
        /\ m = queue[user][Len(held) + k + 1] /\ m.w \in 1..Len(outcome)
        /\ \A i \in 1..Len(responses) : responses[i].ok
    BY NextAnswered DEF ServerRefuses
  <1>2. Len(pipeline) \in Nat /\ user \in Users /\ history \in Seq(Commitment) /\ history # <<>>
        /\ requests \in Seq(Batch)
    BY View DEF ClientInv, ClientTypeOK
  <1>3. /\ ~Accepts(m) /\ responses' = Append(responses, r)
        /\ UNCHANGED <<queue, acked, user, nextBatchID, callbacks, held, pipeline, outcome,
                       settled, calls, stream, budget, requests, history>>
    BY DEF ServerRefuses, persisted, memory, ghosts
  <1>4. ~m.allowed \/ m.kind = "update"
    BY <1>3 DEF Accepts, IsValidFor
  <1>5. m.w \in Nat
    BY <1>1, BatchTypes
  <1> HIDE DEF m
  <1>6. r \in Response /\ r.w = m.w /\ ~r.ok
    BY <1>5 DEF Response
  <1> HIDE DEF r
  <1>7. /\ responses' \in Seq(Response) /\ Len(responses') = k + 1
        /\ \A i \in 1..k : responses'[i] = responses[i]
        /\ responses'[k + 1] = r
        /\ \A i \in 1..(k + 1) : i \in 1..k \/ i = k + 1
        /\ k + 1 \in 1..(k + 1)
    BY <1>3, <1>6, AnswerAppended
  <1>8. Refused' /\ Taken' = k
    <2>1. Refused'
      BY <1>6, <1>7 DEF Refused
    <2>2. Taken' = Len(responses') - 1
      BY <2>1 DEF Taken
    <2>3. (k + 1) - 1 = k
      BY <1>1
    <2> QED BY <2>1, <2>2, <2>3, <1>7
  <1>9. AnswersInOrder'
    <2>1. Len(responses') <= Len(pipeline')
      BY <1>1, <1>3, <1>7
    <2>2. ASSUME NEW i \in 1..Len(responses')
          PROVE  /\ responses'[i].w = pipeline'[i].w
                 /\ IF responses'[i].ok THEN InHistory(history', responses'[i].w)
                    ELSE /\ i = Len(responses')
                         /\ ~pipeline'[i].allowed \/ pipeline'[i].kind = "update"
      <3>1. CASE i \in 1..k
        <4>1. /\ responses[i].w = pipeline[i].w /\ responses[i].ok
              /\ InHistory(history, responses[i].w)
          BY <3>1, <1>1 DEF ClientInv, AnswersInOrder
        <4> QED BY <4>1, <3>1, <1>3, <1>7
      <3>2. CASE i = k + 1
        BY <3>2, <1>1, <1>3, <1>4, <1>6, <1>7
      <3> QED BY <3>1, <3>2, <1>7
    <2>3. /\ Len(requests') = Len(pipeline') - Taken'
          /\ \A i \in 1..Len(requests') : requests'[i] = pipeline'[Taken' + i]
      BY <1>1, <1>3, <1>8 DEF ClientInv, AnswersInOrder
    <2> QED BY <2>1, <2>2, <2>3, <1>1, <1>3 DEF AnswersInOrder
  <1>10. budget \in Bounds /\ budget["write"] <= budget["write"]
         /\ stream \in {"closed", "starting", "open", "ready"}
    BY BudgetIs DEF ClientInv, ClientTypeOK
  <1>11. OutcomesTrue'
    BY <1>3, HistoryStays
  <1> QED BY <1>2, <1>3, <1>7, <1>9, <1>10, <1>11, QueueStays

LEMMA OtherWritesKeeps ==
  ASSUME ClientInv, NEW kind \in {"set", "delete"}, NEW d \in Docs, OtherWrites(kind, d)
  PROVE  ClientInv'
  <1> DEFINE m == [w |-> 0, kind |-> kind, doc |-> d]
  <1>1. /\ Commit(m)
        /\ UNCHANGED <<queue, acked, user, nextBatchID, callbacks, held, pipeline, outcome,
                       settled, calls, stream, requests, responses>>
    BY DEF OtherWrites, persisted, memory, remote
  <1>2. m.w = 0 /\ m.w \in Nat /\ m.kind \in Kinds /\ m.doc \in Docs
    BY DEF Kinds
  <1> HIDE DEF m
  <1>3. /\ history' \in Seq(Commitment) /\ history' # <<>>
        /\ \A w : InHistory(history', w) <=> InHistory(history, w) \/ w = m.w
        /\ \A v \in 1..Len(history) : history'[v].w = history[v].w
        /\ Len(history) \in Nat /\ Len(history') = Len(history) + 1
        /\ history'[Len(history) + 1].w = m.w
    BY <1>1, <1>2, CommitAdds
  <1>4. /\ requests \in Seq(Batch) /\ responses \in Seq(Response) /\ Len(outcome) \in Nat
        /\ stream \in {"closed", "starting", "open", "ready"}
    BY DEF ClientInv, ClientTypeOK
  <1>5. AnswersInOrder'
    <2>1. Taken' = Taken
      BY <1>1 DEF Taken, Refused
    <2>2. \A w : InHistory(history, w) => InHistory(history', w)
      BY <1>3
    <2> QED BY <2>1, <2>2, <1>1 DEF ClientInv, AnswersInOrder
  <1>6. OutcomesTrue'
    <2>1. \A w \in 1..Len(outcome) : InHistory(history', w) <=> InHistory(history, w)
      BY <1>2, <1>3, <1>4
    <2>2. \A u \in Users : \A i \in 1..Len(queue[u]) : queue[u][i].w \in 1..Len(outcome)
      BY DEF ClientInv, QueuesPending
    <2>3. \A v \in 1..Len(history') : history'[v].w <= Len(outcome)
      <3>1. \A v \in 1..Len(history') : v \in 1..Len(history) \/ v = Len(history) + 1
        BY <1>3
      <3> QED BY <3>1, <1>2, <1>3, <1>4 DEF ClientInv, OutcomesTrue
    <2> QED BY <2>1, <2>2, <2>3, <1>1 DEF ClientInv, OutcomesTrue
  <1>7. budget' \in Bounds /\ budget'["write"] <= budget["write"]
    BY SpendKeeps DEF OtherWrites, Counted
  <1> QED BY <1>1, <1>3, <1>4, <1>5, <1>6, <1>7, QueueStays

--------------------------------------------------------------------------------
(* Results are released: the first n held batches leave the queue.            *)

Released(n) ==
  /\ held' = SubSeq(held, n + 1, Len(held))
  /\ queue' = [queue EXCEPT ![user] = Without(@, {SubSeq(held, 1, n)[i].batch.id :
                                                    i \in 1..Len(SubSeq(held, 1, n))})]

LEMMA ReleasedQueue ==
  ASSUME ClientInv, NEW n \in 0..Len(held), Released(n)
  PROVE  /\ queue' \in [Users -> Seq(Batch)] /\ held' \in Seq(Result)
         /\ Len(held') = Len(held) - n /\ Len(queue'[user]) = Len(queue[user]) - n
         /\ \A i \in 1..Len(held') : i + n \in 1..Len(held) /\ held'[i] = held[i + n]
         /\ \A i \in 1..Len(queue'[user]) :
              i + n \in 1..Len(queue[user]) /\ queue'[user][i] = queue[user][i + n]
         /\ \A u \in Users : u # user => queue'[u] = queue[u]
         /\ n \in Nat /\ Len(held) \in Nat /\ Len(queue[user]) \in Nat /\ n <= Len(queue[user])
         /\ n <= Len(held)
  <1> DEFINE q == queue[user]
             gone == SubSeq(held, 1, n)
             ids == {gone[i].batch.id : i \in 1..Len(gone)}
  <1>1. /\ q \in Seq(Batch) /\ Len(q) \in Nat /\ Len(held) \in Nat /\ n \in Nat
        /\ Len(held) <= Len(q) /\ n <= Len(q) /\ n <= Len(held) /\ user \in Users
        /\ queue \in [Users -> Seq(Batch)] /\ held \in Seq(Result)
    BY View, SMTT(30) DEF ClientInv, HeldFirst, ClientTypeOK
  <1>2. Len(gone) = n /\ \A i \in 1..n : gone[i] = held[i]
    BY <1>1
  <1>3. \A i \in 1..n : held[i].batch = q[i]
    BY <1>1 DEF ClientInv, HeldFirst
  <1>4. ASSUME NEW i \in 1..Len(q)
        PROVE  q[i].id \in ids <=> i > 0 /\ i <= 0 + n
    <2>1. CASE i <= n
      <3>1. i \in 1..n
        BY <2>1, <1>1
      <3>2. gone[i].batch.id = q[i].id
        BY <3>1, <1>2, <1>3
      <3> QED BY <3>1, <3>2, <1>2
    <2>2. CASE i > n
      <3>1. \A j \in 1..n : gone[j].batch.id = q[j].id /\ j \in 1..Len(q) /\ j < i
        BY <2>2, <1>1, <1>2, <1>3
      <3>2. \A j \in 1..n : q[j].id < q[i].id
        BY <3>1, <1>1, View DEF Ordered
      <3>3. \A j \in 1..Len(q) : q[j].id \in Nat
        BY <1>1, BatchTypes
      <3>4. \A j \in 1..n : q[j].id # q[i].id
        BY <3>1, <3>2, <3>3
      <3>5. \A j \in 1..Len(gone) : gone[j].batch.id # q[i].id
        BY <3>1, <3>4, <1>2
      <3>6. q[i].id \notin ids
        BY <3>5
      <3> QED BY <3>6, <1>1, <2>2
    <2> QED BY <2>1, <2>2, <1>1
  <1> HIDE DEF gone
  <1>5. queue' = [queue EXCEPT ![user] = Without(q, ids)]
    BY DEF Released, gone
  <1> HIDE DEF ids
  <1>6. CutOf(Without(q, ids), q, 0, n)
    <2>1. Cuts(q, ids, 0, n)
      BY <1>1, <1>4 DEF Cuts
    <2> HIDE DEF q
    <2> QED BY <2>1, <1>1, WithoutIs
  <1>7. queue'[user] = Without(q, ids) /\ \A u \in Users : u # user => queue'[u] = queue[u]
    BY <1>1, <1>5
  <1>8. queue' \in [Users -> Seq(Batch)]
    BY <1>1, <1>5, <1>6 DEF CutOf
  <1>9. \A i \in 1..(Len(q) - n) : i > 0 /\ i + n \in 1..Len(q)
    BY <1>1
  <1>10. /\ held' \in Seq(Result) /\ Len(held') = Len(held) - n
         /\ \A i \in 1..Len(held') : i + n \in 1..Len(held) /\ held'[i] = held[i + n]
    BY <1>1 DEF Released
  <1> QED BY <1>1, <1>6, <1>7, <1>8, <1>9, <1>10 DEF CutOf

(* Whose acknowledged batches leave: what is pending is the same.             *)
LEMMA ReleaseKeeps ==
  ASSUME ClientInv, NEW n \in 0..Len(held), Released(n),
         UNCHANGED <<budget, acked, user, nextBatchID, callbacks, pipeline, stream,
                     requests, responses, history, outcome, settled, calls>>
  PROVE  ClientInv' /\ \A u \in Users : Unacknowledged(u)' = Unacknowledged(u)
  <1>1. /\ queue' \in [Users -> Seq(Batch)] /\ held' \in Seq(Result)
        /\ Len(held') = Len(held) - n /\ Len(queue'[user]) = Len(queue[user]) - n
        /\ \A i \in 1..Len(held') : i + n \in 1..Len(held) /\ held'[i] = held[i + n]
        /\ \A i \in 1..Len(queue'[user]) :
             i + n \in 1..Len(queue[user]) /\ queue'[user][i] = queue[user][i + n]
        /\ \A u \in Users : u # user => queue'[u] = queue[u]
        /\ n \in Nat /\ Len(held) \in Nat /\ Len(queue[user]) \in Nat /\ n <= Len(queue[user])
        /\ n <= Len(held)
    BY ReleasedQueue
  <1>2. /\ user \in Users /\ Len(pipeline) \in Nat /\ queue[user] \in Seq(Batch)
        /\ \A i \in 1..Len(queue[user]) : queue[user][i].id \in Nat
        /\ acked[user] \in Int
    BY View, BatchTypes DEF ClientInv, ClientTypeOK, kFSTBatchIDUnknown
  <1>3. ClientTypeOK'
    BY <1>1 DEF ClientInv, ClientTypeOK
  <1>4. \A u \in Users : \A i \in 1..Len(queue'[u]) :
          \E j \in 1..Len(queue[u]) : queue'[u][i] = queue[u][j]
    BY <1>1
  <1>5. \A u \in Users : \A i \in 1..Len(queue[u]) :
          queue[u][i].id > acked[u] => \E j \in 1..Len(queue'[u]) : queue'[u][j] = queue[u][i]
    <2>1. SUFFICES ASSUME NEW u \in Users, NEW i \in 1..Len(queue[u]), queue[u][i].id > acked[u]
                   PROVE  \E j \in 1..Len(queue'[u]) : queue'[u][j] = queue[u][i]
      OBVIOUS
    <2>2. CASE u # user
      BY <2>2, <1>1
    <2>3. CASE u = user
     <3>1. i \in 1..Len(queue[user]) /\ queue[user][i].id > acked[user]
      BY <2>1, <2>3
     <3>2. ~(queue[user][i].id <= acked[user])
      BY <3>1, <1>2
     <3>3. ~(i <= Len(held))
      BY <3>1, <3>2 DEF ClientInv, HeldFirst
     <3>4. i > Len(held)
      BY <3>1, <3>3, <1>1
     <3>5. i - n \in 1..Len(queue'[user]) /\ (i - n) + n = i
      BY <3>4, <2>3, <1>1
     <3>6. queue'[user][i - n] = queue[user][i]
      BY <3>5, <1>1
     <3> QED BY <3>5, <3>6, <2>3
    <2> QED BY <2>2, <2>3
  <1>6. IdsInOrder'
    <2>1. ASSUME NEW u \in Users, NEW i \in 1..Len(queue'[u]), NEW j \in 1..Len(queue'[u]), i < j
          PROVE  queue'[u][i].id < queue'[u][j].id /\ queue'[u][i].w < queue'[u][j].w
      <3>1. CASE u = user
        <4>1. i + n \in 1..Len(queue[u]) /\ j + n \in 1..Len(queue[u]) /\ i + n < j + n
          BY <3>1, <1>1, <2>1, SMTT(30)
        <4> QED BY <4>1, <3>1, <1>1 DEF ClientInv, IdsInOrder
      <3>2. CASE u # user
        BY <3>2, <1>1, <2>1 DEF ClientInv, IdsInOrder
      <3> QED BY <3>1, <3>2
    <2>2. \A u \in Users : \A i \in 1..Len(queue'[u]) : queue'[u][i].id < nextBatchID'
      BY <1>4 DEF ClientInv, IdsInOrder
    <2>3. ASSUME NEW u \in Users, queue'[u] # <<>>
          PROVE  acked'[u] <= queue'[u][Len(queue'[u])].id
      <3>1. CASE u = user
        <4>1. Len(queue'[user]) \in 1..Len(queue'[user])
          BY <2>3, <3>1, <1>1
        <4>2. queue'[user][Len(queue'[user])] = queue[user][Len(queue[user])]
          <5>1. Len(queue'[user]) + n = Len(queue[user])
            BY <1>1
          <5> QED BY <4>1, <5>1, <1>1
        <4>3. queue[user] # <<>>
          BY <4>1, <1>1
        <4> QED BY <4>2, <4>3, <3>1, <1>2 DEF ClientInv, IdsInOrder
      <3>2. CASE u # user
        BY <3>2, <2>3, <1>1 DEF ClientInv, IdsInOrder
      <3> QED BY <3>1, <3>2
    <2>4. acked'[user'] < nextBatchID'
      BY DEF ClientInv, IdsInOrder
    <2> QED BY <2>1, <2>2, <2>3, <2>4 DEF IdsInOrder
  <1>7. HeldFirst'
    <2>1. Len(held') <= Len(queue'[user])
      BY <1>1 DEF ClientInv, HeldFirst
    <2>2. \A i \in 1..Len(held') : held'[i].batch = queue'[user][i]
      <3>1. \A i \in 1..Len(held') : i \in 1..Len(queue'[user])
        BY <2>1, <1>1
      <3> QED BY <3>1, <1>1 DEF ClientInv, HeldFirst
    <2>3. \A i \in 1..Len(queue'[user]) : queue'[user][i].id <= acked[user] <=> i <= Len(held')
      <3>1. \A i \in 1..Len(queue'[user]) : i + n <= Len(held) <=> i <= Len(held')
        BY <1>1
      <3> QED BY <3>1, <1>1 DEF ClientInv, HeldFirst
    <2>4. held' # <<>> => acked[user] = queue'[user][Len(held')].id
      <3>1. SUFFICES ASSUME held' # <<>> PROVE acked[user] = queue'[user][Len(held')].id
        OBVIOUS
      <3>2. Len(held') \in 1..Len(held') /\ Len(held') + n = Len(held) /\ Len(held) > 0
        BY <3>1, <1>1
      <3>3. held # <<>> /\ Len(held') \in 1..Len(queue'[user])
        BY <3>2, <2>1, <1>1
      <3> QED BY <3>2, <3>3, <1>1 DEF ClientInv, HeldFirst
    <2> QED BY <2>1, <2>2, <2>3, <2>4 DEF HeldFirst
  <1>8. PipelineNext'
    <2>1. Len(held') + Len(pipeline) <= Len(queue'[user])
      BY <1>1, <1>2 DEF ClientInv, PipelineNext
    <2>2. ASSUME NEW i \in 1..Len(pipeline)
          PROVE  pipeline[i] = queue'[user][Len(held') + i]
      <3>1. Len(held') + i \in 1..Len(queue'[user]) /\ (Len(held') + i) + n = Len(held) + i
        BY <2>1, <1>1, <1>2
      <3> QED BY <3>1, <1>1 DEF ClientInv, PipelineNext
    <2> QED BY <2>1, <2>2 DEF PipelineNext
  <1>9. AnswersInOrder'
    BY DEF ClientInv, AnswersInOrder, Taken, Refused
  <1>10. QueuesPending'
    <2>1. ASSUME NEW u \in Users, NEW i \in 1..Len(queue'[u])
          PROVE  /\ queue'[u][i].w \in 1..Len(outcome)
                 /\ outcome[queue'[u][i].w].user = u
                 /\ outcome[queue'[u][i].w].kind = queue'[u][i].kind
                 /\ outcome[queue'[u][i].w].result
                      = (IF queue'[u][i].id <= acked[u] THEN "ok" ELSE "pending")
      <3>1. PICK j \in 1..Len(queue[u]) : queue'[u][i] = queue[u][j]
        BY <1>4
      <3> QED BY <3>1 DEF ClientInv, QueuesPending
    <2>2. ASSUME NEW w \in 1..Len(outcome), outcome[w].result = "pending"
          PROVE  \E i \in 1..Len(queue'[outcome[w].user]) :
                   /\ queue'[outcome[w].user][i].w = w
                   /\ queue'[outcome[w].user][i].id > acked[outcome[w].user]
      <3>1. outcome[w].user \in Users
        <4>1. outcome[w] \in Outcome
          BY DEF ClientInv, ClientTypeOK
        <4> QED BY <4>1 DEF Outcome
      <3>2. PICK i \in 1..Len(queue[outcome[w].user]) :
              /\ queue[outcome[w].user][i].w = w
              /\ queue[outcome[w].user][i].id > acked[outcome[w].user]
        BY <2>2 DEF ClientInv, QueuesPending
      <3> QED BY <3>1, <3>2, <1>5
    <2> QED BY <2>1, <2>2 DEF ClientInv, QueuesPending
  <1>11. OutcomesTrue'
    BY <1>4, SMTT(30) DEF ClientInv, OutcomesTrue
  <1>12. CallsTrue'
    <2>1. ASSUME NEW u \in Users, NEW c \in callbacks[u]
          PROVE  \E i \in 1..Len(queue'[u]) :
                   queue'[u][i].id > acked[u] /\ queue'[u][i].id = c.id /\ queue'[u][i].w = c.w
      <3>1. PICK i \in 1..Len(queue[u]) :
              queue[u][i].id > acked[u] /\ queue[u][i].id = c.id /\ queue[u][i].w = c.w
        BY DEF ClientInv, CallsTrue
      <3> QED BY <3>1, <1>5
    <2> QED BY <2>1 DEF ClientInv, CallsTrue
  <1>13. WritesNumbered'
    BY DEF ClientInv, WritesNumbered
  <1>14. ClientInv'
    BY <1>3, <1>6, <1>7, <1>8, <1>9, <1>10, <1>11, <1>12, <1>13 DEF ClientInv
  <1>15. ASSUME NEW u \in Users
         PROVE  Unacknowledged(u)' = Unacknowledged(u)
    <2>1. CASE u # user
      BY <2>1, <1>1 DEF Unacknowledged
    <2>2. CASE u = user
      <3> DEFINE q == queue[user]
                 p == queue'[user]
      <3>1. Unacknowledged(user) = SubSeq(q, Len(held) + 1, Len(q))
        BY View
      <3>2. /\ p \in Seq(Batch) /\ Splits(p, acked[user], Len(held')) /\ acked[user] \in Int
            /\ Len(held') \in 0..Len(p) /\ Len(p) \in Nat
        <4>1. p \in Seq(Batch) /\ acked[user] \in Int /\ Len(p) \in Nat
          BY <1>1, <1>2
        <4>2. Len(held') \in 0..Len(p)
          BY <4>1, <1>1, <1>7 DEF HeldFirst
        <4>3. \A i \in 1..Len(p) : p[i].id <= acked[user] <=> i <= Len(held')
          BY <1>7 DEF HeldFirst
        <4> QED BY <4>1, <4>2, <4>3 DEF Splits
      <3>3. After(p, acked[user]) = SubSeq(p, Len(held') + 1, Len(p))
        BY <3>2, AfterIs
      <3>4. SubSeq(p, Len(held') + 1, Len(p)) = SubSeq(q, Len(held) + 1, Len(q))
        <4>1. Len(p) - Len(held') = Len(q) - Len(held)
          BY <1>1
        <4>2. ASSUME NEW i \in 1..(Len(p) - Len(held'))
              PROVE  p[Len(held') + i] = q[Len(held) + i]
          <5>1. Len(held') + i \in 1..Len(p) /\ (Len(held') + i) + n = Len(held) + i
            BY <3>2, <1>1
          <5> QED BY <5>1, <1>1
        <4>3. Len(held) \in 0..Len(q) /\ q \in Seq(Batch)
          BY <1>1, <1>2 DEF ClientInv, HeldFirst
        <4> HIDE DEF p, q
        <4> QED BY <4>1, <4>2, <4>3, <3>2, SuffixesEqual
      <3> QED BY <3>1, <3>3, <3>4, <2>2 DEF Unacknowledged
    <2> QED BY <2>1, <2>2
  <1> QED BY <1>14, <1>15


LEMMA HeldReleased ==
  ASSUME ClientInv, NEW docs, NEW version, NEW listening,
         ReleaseHeldBatchResults(docs, version, listening)
  PROVE  \E n \in 0..Len(held) : Released(n)
  <1> DEFINE upTo(k) == \A i \in 1..k : IsRemoteUpTo(held[i], version, listening)
             M == {k \in 0..Len(held) : upTo(k)}
             n == Max(M)
  <1>1. Len(held) \in Nat
    BY View
  <1>2. upTo(0)
    OBVIOUS
  <1>3. M \subseteq Int /\ M # {} /\ Len(held) \in Int /\ \A x \in M : x <= Len(held)
    BY <1>1, <1>2
  <1>4. M \subseteq 0..Len(held)
    OBVIOUS
  <1> HIDE DEF M
  <1>5. PICK m \in M : \A x \in M : x <= m
    BY <1>1, <1>3, MaxExists
  <1>6. n = m
    BY <1>3, <1>5, MaxIs
  <1>7. n \in 0..Len(held)
    BY <1>4, <1>6
  <1>8. Released(n)
    BY DEF Released, ReleaseHeldBatchResults, ReleaseBatchResults, M
  <1> QED BY <1>7, <1>8

LEMMA StopListeningKeeps ==
  ASSUME ClientInv, NEW d, StopListening(d)
  PROVE  ClientInv' /\ \A u \in Users : Unacknowledged(u)' = Unacknowledged(u)
  <1>1. UNCHANGED <<budget, acked, user, nextBatchID, callbacks, pipeline, stream,
                    requests, responses, history, outcome, settled, calls>>
    BY DEF StopListening, remote, ghosts
  <1>2. CASE targets' = {}
    <2>1. \E n \in 0..Len(held) : Released(n)
      BY <1>2, HeldReleased DEF StopListening
    <2> QED BY <1>1, <2>1, ReleaseKeeps
  <1>3. CASE targets' # {}
    <2>1. UNCHANGED <<held, queue>>
      BY <1>3 DEF StopListening
    <2>2. ClientInv'
      <3>1. budget \in Bounds /\ budget["write"] <= budget["write"]
            /\ requests \in Seq(Batch) /\ responses \in Seq(Response)
            /\ stream \in {"closed", "starting", "open", "ready"}
            /\ history \in Seq(Commitment) /\ history # <<>>
        BY BudgetIs, SMTT(30) DEF ClientInv, ClientTypeOK
      <3>2. AnswersInOrder'
        BY <1>1, AnswersStay
      <3>3. OutcomesTrue'
        BY <1>1, <2>1 DEF ClientInv, OutcomesTrue
      <3> QED BY <1>1, <2>1, <3>1, <3>2, <3>3, QueueStays
    <2> QED BY <1>1, <2>1, <2>2 DEF Unacknowledged
  <1> QED BY <1>2, <1>3

LEMMA WatchSnapshotKeeps ==
  ASSUME ClientInv, NEW v, WatchSnapshot(v)
  PROVE  ClientInv' /\ \A u \in Users : Unacknowledged(u)' = Unacknowledged(u)
  <1>1. UNCHANGED <<budget, acked, user, nextBatchID, callbacks, pipeline, stream,
                    requests, responses, history, outcome, settled, calls>>
    BY DEF WatchSnapshot, remote, ghosts
  <1>2. \E docs : ReleaseHeldBatchResults(docs, v, targets)
    BY DEF WatchSnapshot
  <1>3. \E n \in 0..Len(held) : Released(n)
    BY <1>2, HeldReleased
  <1> QED BY <1>1, <1>3, ReleaseKeeps

--------------------------------------------------------------------------------
(* The pipeline is filled: when the answers on their way were to p, sent as r *)
(* on a stream in state s, they are to the pipeline.                          *)

Answers(p, s, r) ==
  /\ s # "ready" => r = <<>> /\ responses' = <<>>
  /\ Len(responses') <= Len(p)
  /\ \A i \in 1..Len(responses') :
       /\ responses'[i].w = p[i].w
       /\ IF responses'[i].ok THEN InHistory(history', responses'[i].w)
          ELSE /\ i = Len(responses')
               /\ ~p[i].allowed \/ p[i].kind = "update"
  /\ s = "ready" => /\ Len(r) = Len(p) - Taken'
                    /\ \A i \in 1..Len(r) : r[i] = p[Taken' + i]

LEMMA FilledKeeps ==
  ASSUME queue'[user'] \in Seq(Batch), Ordered(queue'[user']),
         acked'[user'] \in Nat \cup {kFSTBatchIDUnknown},
         Len(held') \in Nat, Splits(queue'[user'], acked'[user'], Len(held')),
         NEW p \in Seq(Batch), Follows(p, Len(held')),
         NEW s \in {"closed", "starting", "open", "ready"}, NEW r \in Seq(Batch),
         responses' \in Seq(Response), Answers(p, s, r),
         FillWritePipeline(p, s, r)
  PROVE  /\ PipelineNext' /\ AnswersInOrder'
         /\ pipeline' \in Seq(Batch) /\ requests' \in Seq(Batch)
         /\ stream' \in {"closed", "starting", "open", "ready"}
         /\ \E added \in Seq(Batch) : pipeline' = p \o added
  <1> DEFINE k == Len(held')
  <1>1. PICK added \in Seq(Batch) : Filled(p, s, r, added) /\ Follows(p \o added, k)
    BY FillAdds
  <1>2. /\ pipeline' = p \o added
        /\ requests' = IF s = "ready" THEN r \o added ELSE r
        /\ stream' = IF s = "closed" /\ p \o added # <<>> THEN "starting" ELSE s
        /\ k + Len(p \o added) <= Len(queue'[user'])
        /\ \A i \in 1..Len(p \o added) : (p \o added)[i] = queue'[user'][k + i]
    BY <1>1 DEF Filled, Follows
  <1>3. /\ p \o added \in Seq(Batch) /\ Len(p \o added) = Len(p) + Len(added)
        /\ \A i \in 1..Len(p) : (p \o added)[i] = p[i]
        /\ \A i \in 1..Len(added) : (p \o added)[Len(p) + i] = added[i]
        /\ Len(p) \in Nat /\ Len(added) \in Nat
    OBVIOUS
  <1>4. /\ r \o added \in Seq(Batch) /\ Len(r \o added) = Len(r) + Len(added)
        /\ \A i \in 1..Len(r) : (r \o added)[i] = r[i]
        /\ \A i \in 1..Len(added) : (r \o added)[Len(r) + i] = added[i]
        /\ Len(r) \in Nat
    OBVIOUS
  <1>5. PipelineNext'
    BY <1>2 DEF PipelineNext
  <1>6. stream' = "ready" <=> s = "ready"
    BY <1>2
  <1>7. Len(responses') \in Nat
    OBVIOUS
  <1>8. Taken' \in Nat
    BY <1>7 DEF Taken, Refused
  <1>9. \A i \in 1..Len(responses') : i \in 1..Len(p) /\ pipeline'[i] = p[i]
    BY <1>2, <1>3, <1>7 DEF Answers
  <1>10. ASSUME s = "ready"
        PROVE  /\ Len(requests') = Len(pipeline') - Taken'
               /\ \A i \in 1..Len(requests') : requests'[i] = pipeline'[Taken' + i]
    <2>1. requests' = r \o added /\ Len(r) = Len(p) - Taken'
      BY <1>2, <1>10 DEF Answers
    <2>2. Len(requests') = Len(pipeline') - Taken'
      BY <2>1, <1>2, <1>3, <1>4, <1>8
    <2>3. PICK T \in Nat : T = Taken'
      BY <1>8
    <2>4. /\ Len(r) \in Nat /\ Len(p) \in Nat /\ Len(added) \in Nat /\ Len(r) = Len(p) - T
          /\ Len(requests') = Len(r) + Len(added)
      BY <2>3, <2>1, <1>3, <1>4
    <2>5. ASSUME NEW i \in 1..(Len(r) + Len(added))
          PROVE  requests'[i] = pipeline'[T + i]
      <3>1. CASE i <= Len(r)
        <4>1. i \in 1..Len(r) /\ T + i \in 1..Len(p)
          BY <3>1, <2>4
        <4>2. requests'[i] = r[i] /\ r[i] = p[Taken' + i]
          BY <4>1, <2>1, <1>4, <1>10 DEF Answers
        <4>3. pipeline'[T + i] = p[T + i]
          BY <4>1, <1>2, <1>3
        <4> QED BY <4>2, <4>3, <2>3
      <3>2. CASE i > Len(r)
        <4> DEFINE j == i - Len(r)
        <4>1. j \in 1..Len(added) /\ i = Len(r) + j /\ T + i = Len(p) + j
          BY <3>2, <2>4
        <4> HIDE DEF j
        <4>2. requests'[i] = added[j]
          BY <4>1, <2>1, <1>4
        <4>3. pipeline'[Len(p) + j] = added[j]
          BY <4>1, <1>2, <1>3
        <4> QED BY <4>1, <4>2, <4>3
      <3> QED BY <3>1, <3>2, <2>4
    <2> QED BY <2>3, <2>2, <2>4, <2>5
  <1>11. AnswersInOrder'
    <2>1. stream' # "ready" => requests' = <<>> /\ responses' = <<>>
      BY <1>2, <1>6 DEF Answers
    <2>2. Len(responses') <= Len(pipeline')
      BY <1>2, <1>3, <1>7 DEF Answers
    <2>3. \A i \in 1..Len(responses') :
            /\ responses'[i].w = pipeline'[i].w
            /\ IF responses'[i].ok THEN InHistory(history', responses'[i].w)
               ELSE /\ i = Len(responses')
                    /\ ~pipeline'[i].allowed \/ pipeline'[i].kind = "update"
      BY <1>9 DEF Answers
    <2> QED BY <2>1, <2>2, <2>3, <1>6, <1>10 DEF AnswersInOrder
  <1>12. /\ requests' \in Seq(Batch) /\ pipeline' \in Seq(Batch)
         /\ stream' \in {"closed", "starting", "open", "ready"}
    BY <1>2, <1>3, <1>4
  <1> QED BY <1>2, <1>5, <1>11, <1>12

(* What is acknowledged is no later than the last of the queue.               *)
LEMMA LastAfterHeld ==
  ASSUME queue'[user'] \in Seq(Batch), Ordered(queue'[user']), HeldFirst',
         held' \in Seq(Result), acked'[user'] \in Int, queue'[user'] # <<>>
  PROVE  acked'[user'] <= queue'[user'][Len(queue'[user'])].id
  <1> DEFINE q == queue'[user']
             n == Len(q)
  <1>1. n \in Nat /\ n \in 1..n /\ \A i \in 1..n : q[i].id \in Nat
    BY BatchTypes
  <1>2. Len(held') \in Nat /\ Len(held') <= n
    BY DEF HeldFirst
  <1>3. q[n].id <= acked'[user'] <=> n <= Len(held')
    BY <1>1 DEF HeldFirst
  <1>4. CASE n <= Len(held')
    <2>1. Len(held') = n /\ held' # <<>>
      BY <1>1, <1>2, <1>4
    <2>2. acked'[user'] = q[n].id
      BY <2>1 DEF HeldFirst
    <2> QED BY <2>2, <1>1
  <1>5. CASE ~(n <= Len(held'))
    BY <1>1, <1>3, <1>5
  <1> QED BY <1>4, <1>5

LEMMA ViewNext ==
  ASSUME ClientInv'
  PROVE  /\ queue'[user'] \in Seq(Batch) /\ Len(queue'[user']) \in Nat
         /\ \A u \in Users : queue'[u] \in Seq(Batch) /\ Ordered(queue'[u])
         /\ Splits(queue'[user'], acked'[user'], Len(held'))
         /\ Len(held') \in Nat /\ Len(pipeline') \in Nat
         /\ Len(held') \in 0..Len(queue'[user'])
         /\ Unacknowledged(user)' = SubSeq(queue'[user'], Len(held') + 1, Len(queue'[user']))
  <1>1. /\ \A u \in Users : queue'[u] \in Seq(Batch)
        /\ user' \in Users /\ held' \in Seq(Result) /\ pipeline' \in Seq(Batch)
        /\ acked'[user'] \in Int
    BY DEF ClientInv, ClientTypeOK, kFSTBatchIDUnknown
  <1>2. \A u \in Users : Ordered(queue'[u])
    BY DEF ClientInv, IdsInOrder, Ordered
  <1>3. Len(held') \in Nat /\ Len(pipeline') \in Nat /\ Len(queue'[user']) \in Nat
    BY <1>1
  <1>4. Splits(queue'[user'], acked'[user'], Len(held')) /\ Len(held') \in 0..Len(queue'[user'])
    BY <1>3 DEF ClientInv, HeldFirst, Splits
  <1>5. After(queue'[user'], acked'[user'])
          = SubSeq(queue'[user'], Len(held') + 1, Len(queue'[user']))
    BY <1>1, <1>4, AfterIs
  <1> QED BY <1>1, <1>2, <1>3, <1>4, <1>5 DEF Unacknowledged

--------------------------------------------------------------------------------
(* The app writes.                                                            *)

Written(b) ==
  /\ b = [id |-> nextBatchID, w |-> Len(outcome) + 1, doc |-> b.doc, kind |-> b.kind,
          allowed |-> b.allowed]
  /\ b \in Batch
  /\ queue' = [queue EXCEPT ![user] = Append(@, b)]
  /\ nextBatchID' = nextBatchID + 1
  /\ callbacks' = [callbacks EXCEPT ![user] = @ \cup {[id |-> b.id, w |-> b.w]}]
  /\ outcome' = Append(outcome, [user |-> user, kind |-> b.kind, doc |-> b.doc,
                                 result |-> "pending"])
  /\ UNCHANGED <<acked, user, held, responses, history, settled, calls>>
  /\ FillWritePipeline(pipeline, stream, requests)
  /\ budget["write"] > 0
  /\ budget' \in Bounds /\ budget'["write"] = budget["write"] - 1

LEMMA WriteIs ==
  ASSUME ClientInv, NEW kind \in Kinds, NEW d \in Docs, NEW allowed \in BOOLEAN,
         Write(kind, d, allowed)
  PROVE  \E b \in Batch : Written(b)
  <1> DEFINE b == [id |-> nextBatchID, w |-> Len(outcome) + 1, doc |-> d, kind |-> kind,
                   allowed |-> allowed]
  <1>1. /\ nextBatchID \in Nat /\ Len(outcome) \in Nat /\ budget \in Bounds
        /\ budget["write"] \in Nat /\ budget["refused"] \in Nat
    BY BudgetIs, SMTT(30) DEF ClientInv, ClientTypeOK
  <1>2. b \in Batch
    BY <1>1 DEF Batch
  <1>3. /\ budget["write"] > 0
        /\ budget' \in Bounds /\ budget'["write"] = budget["write"] - 1
    <2>1. CASE allowed
      <3>1. Spend("write")
        BY <2>1 DEF Write
      <3>2. budget["write"] > 0 /\ budget' = [budget EXCEPT !["write"] = @ - 1]
        BY <3>1 DEF Spend
      <3> QED BY <3>2, <1>1 DEF Bounds
    <2>2. CASE ~allowed
      <3>1. /\ budget["write"] > 0 /\ budget["refused"] > 0
            /\ budget' = [budget EXCEPT !["write"] = @ - 1, !["refused"] = @ - 1]
        BY <2>2 DEF Write
      <3> QED BY <3>1, <1>1, SMTT(30) DEF Bounds
    <2> QED BY <2>1, <2>2
  <1>4. /\ b.id = nextBatchID /\ b.w = Len(outcome) + 1 /\ b.doc = d /\ b.kind = kind
        /\ b.allowed = allowed
    OBVIOUS
  <1>5. /\ queue' = [queue EXCEPT ![user] = Append(@, b)]
        /\ nextBatchID' = nextBatchID + 1
        /\ callbacks' = [callbacks EXCEPT ![user] = @ \cup {[id |-> b.id, w |-> b.w]}]
        /\ outcome' = Append(outcome, [user |-> user, kind |-> kind, doc |-> d,
                                       result |-> "pending"])
        /\ UNCHANGED <<acked, user, held, responses, history, settled, calls>>
        /\ FillWritePipeline(pipeline, stream, requests)
    BY DEF Write, AddMutationBatch, AddMutationCompletionBlock
  <1>6. b = [id |-> nextBatchID, w |-> Len(outcome) + 1, doc |-> b.doc, kind |-> b.kind,
             allowed |-> b.allowed]
    BY <1>4
  <1> HIDE DEF b
  <1> QED BY <1>2, <1>3, <1>4, <1>5, <1>6 DEF Written

LEMMA WriteKeeps ==
  ASSUME ClientInv, NEW b \in Batch, Written(b)
  PROVE  ClientInv'
  <1> DEFINE q == queue[user]
             n == Len(q)
             o == [user |-> user, kind |-> b.kind, doc |-> b.doc, result |-> "pending"]
  <1>1. /\ q \in Seq(Batch) /\ n \in Nat /\ user \in Users /\ Len(outcome) \in Nat
        /\ queue \in [Users -> Seq(Batch)] /\ nextBatchID \in Nat /\ outcome \in Seq(Outcome)
        /\ b.id = nextBatchID /\ b.w = Len(outcome) + 1 /\ b.kind \in Kinds /\ b.doc \in Docs
        /\ held \in Seq(Result) /\ Len(held) \in Nat /\ Len(held) <= n
        /\ acked[user] \in Int
    <2>1. b.id = nextBatchID /\ b.w = Len(outcome) + 1
      BY DEF Written
    <2>2. Len(outcome) \in Nat
      BY DEF ClientInv, ClientTypeOK
    <2> QED BY <2>1, <2>2, View, BatchTypes, SMTT(30)
            DEF ClientInv, ClientTypeOK, HeldFirst, kFSTBatchIDUnknown
  <1>2. /\ queue' = [queue EXCEPT ![user] = Append(@, b)]
        /\ nextBatchID' = nextBatchID + 1
        /\ callbacks' = [callbacks EXCEPT ![user] = @ \cup {[id |-> b.id, w |-> b.w]}]
        /\ outcome' = Append(outcome, o)
        /\ UNCHANGED <<acked, user, held, responses, history, settled, calls>>
    BY DEF Written
  <1>3. /\ queue'[user] = Append(q, b)
        /\ \A u \in Users : u # user => queue'[u] = queue[u]
        /\ queue' \in [Users -> Seq(Batch)]
    BY <1>1, <1>2
  <1>4. /\ Len(queue'[user]) = n + 1 /\ queue'[user][n + 1] = b
        /\ \A i \in 1..n : queue'[user][i] = q[i]
        /\ \A i \in 1..(n + 1) : i \in 1..n \/ i = n + 1
    BY <1>1, <1>3
  <1>5. /\ o \in Outcome /\ outcome' \in Seq(Outcome) /\ Len(outcome') = Len(outcome) + 1
        /\ \A w \in 1..Len(outcome) : outcome'[w] = outcome[w]
        /\ outcome'[b.w] = o
        /\ \A w \in 1..Len(outcome') : w \in 1..Len(outcome) \/ w = b.w
    BY <1>1, <1>2 DEF Outcome, Kinds
  <1>6. o.user = user /\ o.kind = b.kind /\ o.result = "pending"
    OBVIOUS
  <1> HIDE DEF q, n, o
  <1>7. \A i \in 1..n : /\ q[i].id \in Nat /\ q[i].id < b.id /\ q[i].w < b.w
                        /\ q[i].w \in 1..Len(outcome)
    <2>1. \A i \in 1..n : q[i].id \in Nat /\ q[i].id < nextBatchID
      BY <1>1, BatchTypes DEF ClientInv, IdsInOrder, q, n
    <2>2. \A i \in 1..n : q[i].w \in 1..Len(outcome)
      BY <1>1 DEF ClientInv, QueuesPending, q, n
    <2> QED BY <2>1, <2>2, <1>1
  <1>8. ~(b.id <= acked[user]) /\ acked[user] < b.id
    BY <1>1 DEF ClientInv, IdsInOrder
  <1>9. ASSUME NEW u \in Users, NEW i \in 1..Len(queue'[u]), NEW j \in 1..Len(queue'[u]), i < j
        PROVE  queue'[u][i].id < queue'[u][j].id /\ queue'[u][i].w < queue'[u][j].w
    <2>1. CASE u # user
      BY <2>1, <1>3, <1>9 DEF ClientInv, IdsInOrder
    <2>2. CASE u = user /\ j \in 1..n
      <3>1. i \in 1..n
        BY <2>2, <1>1, <1>4, <1>9
      <3> QED BY <2>2, <3>1, <1>4, <1>9, <1>1 DEF ClientInv, IdsInOrder, q, n
    <2>3. CASE u = user /\ j = n + 1
      <3>1. i \in 1..n
        BY <2>3, <1>1, <1>4, <1>9
      <3> QED BY <2>3, <3>1, <1>4, <1>7
    <2> QED BY <2>1, <2>2, <2>3, <1>4
  <1>10. Ordered(queue'[user])
    BY <1>9, <1>1 DEF Ordered
  <1>11. HeldFirst'
    <2>1. Len(held) <= Len(queue'[user])
      BY <1>1, <1>4
    <2>2. \A i \in 1..Len(held) : i \in 1..n /\ queue'[user][i] = q[i]
      BY <1>1, <1>4
    <2>3. \A i \in 1..Len(held) : held[i].batch = queue'[user][i]
      BY <2>2 DEF ClientInv, HeldFirst, q
    <2>4. ASSUME NEW i \in 1..Len(queue'[user])
          PROVE  queue'[user][i].id <= acked[user] <=> i <= Len(held)
      <3>1. CASE i \in 1..n
        BY <3>1, <1>4 DEF ClientInv, HeldFirst, q, n
      <3>2. CASE i = n + 1
        BY <3>2, <1>1, <1>4, <1>8
      <3> QED BY <3>1, <3>2, <1>4
    <2>5. held # <<>> => acked[user] = queue'[user][Len(held)].id
      <3>1. held # <<>> => Len(held) \in 1..Len(held)
        BY <1>1
      <3> QED BY <3>1, <2>2 DEF ClientInv, HeldFirst, q
    <2> QED BY <2>1, <2>3, <2>4, <2>5, <1>2 DEF HeldFirst
  <1>12. IdsInOrder'
    <2>1. \A u \in Users : \A i \in 1..Len(queue'[u]) : queue'[u][i].id < nextBatchID'
      <3>1. SUFFICES ASSUME NEW u \in Users, NEW i \in 1..Len(queue'[u])
                     PROVE  queue'[u][i].id < nextBatchID + 1
        BY <1>2
      <3>2. CASE u # user
        <4>1. queue[u] \in Seq(Batch) /\ i \in 1..Len(queue[u]) /\ queue'[u][i] = queue[u][i]
          BY <3>2, <1>1, <1>3
        <4>2. queue[u][i].id \in Nat
          BY <4>1, BatchTypes
        <4> QED BY <4>1, <4>2, <1>1, SMTT(30) DEF ClientInv, IdsInOrder
      <3>3. CASE u = user /\ i \in 1..n
        <4>1. q[i].id \in Nat /\ q[i].id < nextBatchID /\ queue'[u][i] = q[i]
          BY <3>3, <1>1, <1>4, <1>7
        <4>2. nextBatchID \in Nat
          BY <1>1
        <4> QED BY <4>1, <4>2
      <3>4. CASE u = user /\ i = n + 1
        BY <3>4, <1>1, <1>4
      <3> QED BY <3>2, <3>3, <3>4, <1>4
    <2>2. acked'[user'] < nextBatchID'
      BY <1>1, <1>2, <1>8
    <2>3. ASSUME NEW u \in Users, queue'[u] # <<>>
          PROVE  acked'[u] <= queue'[u][Len(queue'[u])].id
      <3>1. CASE u # user
        BY <3>1, <2>3, <1>2, <1>3 DEF ClientInv, IdsInOrder
      <3>2. CASE u = user
        BY <3>2, <1>1, <1>2, <1>4, <1>8
      <3> QED BY <3>1, <3>2
    <2> QED BY <1>9, <2>1, <2>2, <2>3 DEF IdsInOrder
  <1>13. /\ PipelineNext' /\ AnswersInOrder'
         /\ pipeline' \in Seq(Batch) /\ requests' \in Seq(Batch)
         /\ stream' \in {"closed", "starting", "open", "ready"}
    <2>1. /\ queue'[user'] \in Seq(Batch) /\ Ordered(queue'[user'])
          /\ acked'[user'] \in Nat \cup {kFSTBatchIDUnknown}
          /\ Len(held') \in Nat
      BY <1>1, <1>2, <1>3, <1>10 DEF ClientInv, ClientTypeOK
    <2>2. Splits(queue'[user'], acked'[user'], Len(held'))
      <3>1. Len(held') \in 0..Len(queue'[user'])
        BY <1>1, <1>2, <1>4
      <3> QED BY <3>1, <1>11 DEF Splits, HeldFirst
    <2>3. /\ pipeline \in Seq(Batch) /\ requests \in Seq(Batch) /\ responses' \in Seq(Response)
          /\ stream \in {"closed", "starting", "open", "ready"}
      BY <1>2 DEF ClientInv, ClientTypeOK
    <2>4. Follows(pipeline, Len(held'))
      <3>1. Len(pipeline) \in Nat /\ Len(held) + Len(pipeline) <= n
        BY <2>3 DEF ClientInv, PipelineNext, q, n
      <3>2. \A i \in 1..Len(pipeline) : Len(held) + i \in 1..n
        BY <3>1, <1>1
      <3>3. \A i \in 1..Len(pipeline) : pipeline[i] = queue'[user][Len(held) + i]
        BY <3>2, <1>4 DEF ClientInv, PipelineNext, q
      <3> QED BY <3>1, <3>3, <1>1, <1>2, <1>4, SMTT(30) DEF Follows
    <2>5. Answers(pipeline, stream, requests)
      BY <1>2 DEF ClientInv, AnswersInOrder, Answers, Taken, Refused
    <2>6. FillWritePipeline(pipeline, stream, requests)
      BY DEF Written
    <2> QED BY <2>1, <2>2, <2>3, <2>4, <2>5, <2>6, FilledKeeps
  <1>14. QueuesPending'
    <2>1. ASSUME NEW u \in Users, NEW i \in 1..Len(queue'[u])
          PROVE  /\ queue'[u][i].w \in 1..Len(outcome')
                 /\ outcome'[queue'[u][i].w].user = u
                 /\ outcome'[queue'[u][i].w].kind = queue'[u][i].kind
                 /\ outcome'[queue'[u][i].w].result
                      = (IF queue'[u][i].id <= acked'[u] THEN "ok" ELSE "pending")
      <3>1. CASE u = user /\ i = n + 1
        BY <3>1, <1>1, <1>2, <1>4, <1>5, <1>6, <1>8
      <3>2. CASE u # user \/ i \in 1..n
        <4>1. i \in 1..Len(queue[u]) /\ queue'[u][i] = queue[u][i]
          BY <3>2, <1>3, <1>4 DEF q, n
        <4>2. queue[u][i].w \in 1..Len(outcome)
          BY <4>1 DEF ClientInv, QueuesPending
        <4>3. /\ queue[u][i].w \in 1..Len(outcome')
              /\ outcome'[queue[u][i].w] = outcome[queue[u][i].w]
          BY <4>2, <1>1, <1>5, SMTT(30)
        <4>4. /\ outcome[queue[u][i].w].user = u
              /\ outcome[queue[u][i].w].kind = queue[u][i].kind
              /\ outcome[queue[u][i].w].result
                   = (IF queue[u][i].id <= acked[u] THEN "ok" ELSE "pending")
          BY <4>1 DEF ClientInv, QueuesPending
        <4>5. acked' = acked
          BY <1>2
        <4> QED BY <4>1, <4>3, <4>4, <4>5
      <3> QED BY <3>1, <3>2, <1>4
    <2>2. ASSUME NEW w \in 1..Len(outcome'), outcome'[w].result = "pending"
          PROVE  \E i \in 1..Len(queue'[outcome'[w].user]) :
                   /\ queue'[outcome'[w].user][i].w = w
                   /\ queue'[outcome'[w].user][i].id > acked'[outcome'[w].user]
      <3>1. CASE w = b.w
        <4>1. n + 1 \in 1..Len(queue'[user])
          BY <1>1, <1>4
        <4>2. b.id > acked[user]
          BY <1>1, <1>8
        <4>3. outcome'[w].user = user
          BY <3>1, <1>5, <1>6
        <4> QED BY <3>1, <4>1, <4>2, <4>3, <1>2, <1>4
      <3>2. CASE w \in 1..Len(outcome)
        <4>1. outcome'[w] = outcome[w]
          BY <3>2, <1>5
        <4>2. PICK i \in 1..Len(queue[outcome[w].user]) :
                /\ queue[outcome[w].user][i].w = w
                /\ queue[outcome[w].user][i].id > acked[outcome[w].user]
          BY <3>2, <4>1, <2>2 DEF ClientInv, QueuesPending
        <4>3. outcome[w].user \in Users
          <5>1. outcome[w] \in Outcome
            BY <3>2, <1>1
          <5> QED BY <5>1 DEF Outcome
        <4>4. /\ i \in 1..Len(queue'[outcome[w].user])
              /\ queue'[outcome[w].user][i] = queue[outcome[w].user][i]
          <5>1. CASE outcome[w].user = user
            BY <5>1, <1>1, <1>4 DEF q, n
          <5>2. CASE outcome[w].user # user
            BY <5>2, <4>3, <1>3
          <5> QED BY <5>1, <5>2
        <4> QED BY <4>1, <4>2, <4>4, <1>2
      <3> QED BY <3>1, <3>2, <1>5
    <2>3. ASSUME NEW w \in 1..Len(outcome'), NEW x \in 1..Len(outcome'),
                 outcome'[w].user = outcome'[x].user,
                 outcome'[w].result # "pending", outcome'[x].result = "pending"
          PROVE  w < x
      <3>1. w \in 1..Len(outcome)
        BY <2>3, <1>5, <1>6
      <3>2. CASE x = b.w
        BY <3>1, <3>2, <1>1
      <3>3. CASE x \in 1..Len(outcome)
        BY <3>1, <3>3, <2>3, <1>5 DEF ClientInv, QueuesPending
      <3> QED BY <3>2, <3>3, <1>5
    <2> QED BY <2>1, <2>2, <2>3 DEF QueuesPending
  <1>15. \A v \in 1..Len(history) : history[v].w <= Len(outcome)
    BY DEF ClientInv, OutcomesTrue
  <1>16. \A v \in 1..Len(history) : history[v].w \in Nat
    <2>1. \A v \in 1..Len(history) : history[v] \in Commitment
      BY DEF ClientInv, ClientTypeOK
    <2> QED BY <2>1 DEF Commitment
  <1>17. ~InHistory(history, b.w)
    BY <1>1, <1>15, <1>16 DEF InHistory
  <1>18. OutcomesTrue'
    <2>1. ASSUME NEW w \in 1..Len(outcome')
          PROVE  /\ outcome'[w].result = "ok" => InHistory(history', w)
                 /\ outcome'[w].result = "failed" /\ outcome'[w].kind # "update"
                      => ~InHistory(history', w)
      BY <1>2, <1>5, <1>6 DEF ClientInv, OutcomesTrue
    <2>2. ASSUME NEW u \in Users, NEW i \in 1..Len(queue'[u]),
                 InHistory(history', queue'[u][i].w)
          PROVE  queue'[u][i].allowed
      <3>1. ~(u = user /\ i = n + 1)
        BY <2>2, <1>2, <1>4, <1>17
      <3>2. i \in 1..Len(queue[u]) /\ queue'[u][i] = queue[u][i]
        BY <3>1, <1>3, <1>4 DEF q, n
      <3> QED BY <3>2, <2>2, <1>2 DEF ClientInv, OutcomesTrue
    <2>3. \A v \in 1..Len(history') : history'[v].w <= Len(outcome')
      BY <1>1, <1>2, <1>5, <1>15, <1>16
    <2> QED BY <2>1, <2>2, <2>3 DEF OutcomesTrue
  <1>19. CallsTrue'
    <2>1. ASSUME NEW u \in Users, NEW c \in callbacks'[u]
          PROVE  \E i \in 1..Len(queue'[u]) :
                   /\ queue'[u][i].id > acked'[u]
                   /\ queue'[u][i].id = c.id /\ queue'[u][i].w = c.w
      <3>1. CASE c \in callbacks[u]
        <4>1. PICK i \in 1..Len(queue[u]) :
                queue[u][i].id > acked[u] /\ queue[u][i].id = c.id /\ queue[u][i].w = c.w
          BY <3>1 DEF ClientInv, CallsTrue
        <4>2. i \in 1..Len(queue'[u]) /\ queue'[u][i] = queue[u][i]
          <5>1. CASE u = user
            BY <5>1, <1>1, <1>4 DEF q, n
          <5>2. CASE u # user
            BY <5>2, <1>3
          <5> QED BY <5>1, <5>2
        <4> QED BY <4>1, <4>2, <1>2
      <3>2. CASE c \notin callbacks[u]
        <4>1. callbacks \in [Users -> SUBSET [id : Nat, w : Nat]]
          BY DEF ClientInv, ClientTypeOK
        <4>2. u = user /\ c = [id |-> b.id, w |-> b.w]
          BY <3>2, <4>1, <1>2
        <4>3. n + 1 \in 1..Len(queue'[user]) /\ b.id > acked[user]
          BY <1>1, <1>4, <1>8
        <4> QED BY <4>2, <4>3, <1>2, <1>4
      <3> QED BY <3>1, <3>2
    <2>2. \A i \in 1..Len(calls) : /\ calls[i].w \in 1..Len(outcome)
                                   /\ calls[i].w \in 1..Len(outcome')
                                   /\ outcome'[calls[i].w] = outcome[calls[i].w]
      <3>1. \A i \in 1..Len(calls) : calls[i].w \in 1..Len(outcome)
        BY DEF ClientInv, CallsTrue
      <3> QED BY <3>1, <1>1, <1>5
    <2>3. \A i \in 1..Len(calls') :
            /\ calls'[i].w \in 1..Len(outcome')
            /\ outcome'[calls'[i].w].result = (IF calls'[i].ok THEN "ok" ELSE "failed")
      BY <2>2, <1>2 DEF ClientInv, CallsTrue
    <2>4. \A i, j \in 1..Len(calls') :
            i < j /\ outcome'[calls'[i].w].user = outcome'[calls'[j].w].user
              => calls'[i].w < calls'[j].w
      BY <2>2, <1>2 DEF ClientInv, CallsTrue
    <2> QED BY <2>1, <2>3, <2>4 DEF CallsTrue
  <1>20. WritesNumbered'
    <2>1. /\ budget["write"] \in Nat /\ budget'["write"] = budget["write"] - 1
          /\ Max({c["write"] : c \in Budgets}) \in Nat
          /\ Len(outcome) + budget["write"] <= Max({c["write"] : c \in Budgets})
          /\ \A i \in 1..Len(settled) : settled[i].w \in 1..Len(outcome)
      BY DEF ClientInv, ClientTypeOK, WritesNumbered, Bounds, Written
    <2>2. \A i \in 1..Len(settled') : settled'[i].w \in 1..Len(outcome')
      BY <2>1, <1>1, <1>2, <1>5, SMTT(30)
    <2>3. Len(outcome') + budget'["write"] <= Max({c["write"] : c \in Budgets})
      BY <2>1, <1>1, <1>5
    <2> QED BY <2>1, <2>2, <2>3 DEF WritesNumbered
  <1>21. ClientTypeOK'
    <2>1. callbacks' \in [Users -> SUBSET [id : Nat, w : Nat]]
      <3>1. b.id \in Nat /\ b.w \in Nat
        BY BatchTypes
      <3>2. callbacks \in [Users -> SUBSET [id : Nat, w : Nat]]
        BY DEF ClientInv, ClientTypeOK
      <3>3. [id |-> b.id, w |-> b.w] \in [id : Nat, w : Nat]
        BY <3>1
      <3>4. callbacks[user] \cup {[id |-> b.id, w |-> b.w]} \in SUBSET [id : Nat, w : Nat]
        BY <3>2, <3>3, <1>1
      <3> QED BY <3>2, <3>4, <1>2
    <2>2. nextBatchID' \in Nat /\ budget' \in Bounds
      BY <1>1, <1>2 DEF Written
    <2> QED BY <2>1, <2>2, <1>2, <1>3, <1>5, <1>13 DEF ClientInv, ClientTypeOK
  <1> QED BY <1>11, <1>12, <1>13, <1>14, <1>18, <1>19, <1>20, <1>21 DEF ClientInv

--------------------------------------------------------------------------------
(* A write is settled: the first of the pipeline, which is in the queue right *)
(* after what is held.                                                        *)

(* What is known of it. *)
First(b, h) ==
  /\ h = Len(held) + 1 /\ h \in 1..Len(queue[user])
  /\ b \in Batch /\ b = queue[user][h]
  /\ b.w \in 1..Len(outcome)
  /\ outcome[b.w].user = user /\ outcome[b.w].result = "pending"
  /\ b.id > acked[user]
  /\ \A j \in 1..Len(queue[user]) :
       /\ j < h => queue[user][j].id < b.id /\ queue[user][j].w < b.w
       /\ j > h => queue[user][j].id > b.id /\ queue[user][j].w > b.w

LEMMA FirstIs ==
  ASSUME ClientInv, responses # <<>>
  PROVE  /\ stream = "ready" /\ Len(pipeline) \in Nat \ {0}
         /\ First(Head(pipeline), Len(held) + 1)
         /\ Head(responses).ok => InHistory(history, Head(pipeline).w)
         /\ ~Head(responses).ok => /\ Len(responses) = 1
                                   /\ \/ ~Head(pipeline).allowed
                                      \/ Head(pipeline).kind = "update"
  <1> DEFINE q == queue[user]
             h == Len(held) + 1
             b == Head(pipeline)
  <1>1. /\ responses \in Seq(Response) /\ Len(responses) \in Nat /\ 1 \in 1..Len(responses)
        /\ Head(responses) = responses[1] /\ responses[1] \in Response
    <2>1. responses \in Seq(Response)
      BY DEF ClientInv, ClientTypeOK
    <2> QED BY <2>1
  <1>2. /\ stream = "ready" /\ Len(responses) <= Len(pipeline)
        /\ IF responses[1].ok THEN InHistory(history, responses[1].w)
           ELSE 1 = Len(responses) /\ (~pipeline[1].allowed \/ pipeline[1].kind = "update")
        /\ responses[1].w = pipeline[1].w
    BY <1>1 DEF ClientInv, AnswersInOrder
  <1>3. /\ pipeline \in Seq(Batch) /\ Len(pipeline) \in Nat \ {0} /\ 1 \in 1..Len(pipeline)
        /\ b = pipeline[1]
    <2>1. pipeline \in Seq(Batch)
      BY DEF ClientInv, ClientTypeOK
    <2> QED BY <2>1, <1>1, <1>2
  <1>4. /\ q \in Seq(Batch) /\ Len(q) \in Nat /\ Len(held) \in Nat /\ user \in Users
        /\ \A i \in 1..Len(q) : q[i] \in Batch /\ q[i].id \in Nat /\ q[i].w \in Nat
    BY View, BatchTypes DEF ClientInv, ClientTypeOK
  <1>5. h \in 1..Len(q) /\ b = q[h]
    BY <1>3, <1>4 DEF ClientInv, PipelineNext
  <1>6. acked[user] \in Int
    BY <1>4 DEF ClientInv, ClientTypeOK, kFSTBatchIDUnknown
  <1>7. b.id > acked[user]
    <2>1. ~(q[h].id <= acked[user])
      BY <1>4, <1>5 DEF ClientInv, HeldFirst
    <2> QED BY <2>1, <1>4, <1>5, <1>6
  <1>8. /\ b.w \in 1..Len(outcome)
        /\ outcome[b.w].user = user /\ outcome[b.w].result = "pending"
    <2>1. ~(q[h].id <= acked[user])
      BY <1>4, <1>5, <1>6, <1>7
    <2> QED BY <2>1, <1>4, <1>5 DEF ClientInv, QueuesPending
  <1>9. ASSUME NEW j \in 1..Len(q)
        PROVE  /\ j < h => q[j].id < b.id /\ q[j].w < b.w
               /\ j > h => q[j].id > b.id /\ q[j].w > b.w
    <2>1. \A i, k \in 1..Len(q) : i < k => q[i].id < q[k].id /\ q[i].w < q[k].w
      BY <1>4 DEF ClientInv, IdsInOrder
    <2>2. j < h => q[j].id < q[h].id /\ q[j].w < q[h].w
      BY <2>1, <1>5
    <2>3. j > h => q[h].id < q[j].id /\ q[h].w < q[j].w
      BY <2>1, <1>4, <1>5
    <2> QED BY <2>2, <2>3, <1>4, <1>5
  <1>10. First(b, h)
    BY <1>4, <1>5, <1>7, <1>8, <1>9 DEF First
  <1> QED BY <1>1, <1>2, <1>3, <1>10

LEMMA AtMostOne ==
  ASSUME NEW S, NEW x, S = {} \/ S = {x}
  PROVE  SetToSeq(S) = <<>> \/ (S = {x} /\ SetToSeq(S) = <<x>>)
  <1>1. CASE S = {}
    <2>1. Cardinality(S) = 0
      BY <1>1, FS_EmptySet
    <2>2. \A f \in [1..0 -> S] : f = <<>>
      BY <1>1
    <2>3. <<>> \in [1..0 -> S] /\ IsInjective(<<>>)
      BY DEF IsInjective
    <2>4. \E f \in [1..Cardinality(S) -> S] : IsInjective(f)
      BY <2>1, <2>3
    <2>5. SetToSeq(S) \in [1..Cardinality(S) -> S]
      BY <2>4 DEF SetToSeq
    <2> QED BY <2>1, <2>2, <2>5
  <1>2. CASE S = {x}
    <2>1. Cardinality(S) = 1
      BY <1>2, FS_Singleton
    <2>2. ASSUME NEW f \in [1..1 -> S]
          PROVE  f = <<x>>
      <3>1. f[1] = x /\ DOMAIN f = 1..1
        BY <1>2
      <3>2. <<x>> \in [1..1 -> S] /\ \A i \in 1..1 : f[i] = <<x>>[i]
        BY <3>1, <1>2
      <3> QED BY <3>2
    <2>3. <<x>> \in [1..1 -> S] /\ IsInjective(<<x>>)
      BY <1>2 DEF IsInjective
    <2>4. \E f \in [1..Cardinality(S) -> S] : IsInjective(f)
      BY <2>1, <2>3
    <2>5. SetToSeq(S) \in [1..Cardinality(S) -> S]
      BY <2>4 DEF SetToSeq
    <2> QED BY <1>2, <2>1, <2>2, <2>5
  <1> QED BY <1>1, <1>2

(* At most one completion is called, that of the write.                       *)
LEMMA CallsAdded ==
  ASSUME ClientInv, NEW b, NEW h, First(b, h), NEW ok \in BOOLEAN,
         ProcessUserCallbacks(b, ok)
  PROVE  /\ \/ calls' = calls
            \/ calls' = Append(calls, [w |-> b.w, ok |-> ok])
         /\ \A u \in Users : callbacks'[u] \subseteq callbacks[u]
         /\ \A c \in callbacks'[user] : c.id # b.id
         /\ callbacks' \in [Users -> SUBSET [id : Nat, w : Nat]]
  <1> DEFINE mine == {c \in callbacks[user] : c.id = b.id}
             x == [w |-> b.w, ok |-> ok]
             S == {[w |-> c.w, ok |-> ok] : c \in mine}
  <1>1. /\ callbacks \in [Users -> SUBSET [id : Nat, w : Nat]] /\ user \in Users
        /\ calls \in Seq([w : Nat, ok : BOOLEAN])
    BY DEF ClientInv, ClientTypeOK
  <1>2. ASSUME NEW c \in mine
        PROVE  c.w = b.w
    <2>1. PICK i \in 1..Len(queue[user]) :
            queue[user][i].id > acked[user] /\ queue[user][i].id = c.id /\ queue[user][i].w = c.w
      BY <1>1 DEF ClientInv, CallsTrue
    <2>2. i = h
      <3>1. queue[user] \in Seq(Batch)
        BY View
      <3>2. queue[user][i].id = b.id /\ b.id \in Nat /\ h \in Nat /\ i \in Nat
        BY <2>1, <3>1, BatchTypes DEF First
      <3>3. ~(i < h) /\ ~(i > h)
        BY <3>2 DEF First
      <3> QED BY <3>2, <3>3
    <2> QED BY <2>1, <2>2 DEF First
  <1>3. S = {} \/ S = {x}
    <2>1. \A y \in S : y = x
      BY <1>2
    <2> HIDE DEF S, x
    <2> QED BY <2>1
  <1>4. /\ calls' = calls \o SetToSeq(S)
        /\ callbacks' = [callbacks EXCEPT ![user] = @ \ mine]
    BY DEF ProcessUserCallbacks
  <1>5. SetToSeq(S) = <<>> \/ SetToSeq(S) = <<x>>
    <2> HIDE DEF S, x
    <2> QED BY <1>3, AtMostOne
  <1>6. calls' = calls \/ calls' = Append(calls, x)
    <2>1. x \in [w : Nat, ok : BOOLEAN]
      BY BatchTypes DEF First
    <2> HIDE DEF S, x
    <2>2. calls \o <<>> = calls /\ calls \o <<x>> = Append(calls, x)
      BY <1>1, <2>1
    <2> QED BY <2>2, <1>4, <1>5
  <1> QED BY <1>1, <1>4, <1>6

(* The queue keeps the order of what it keeps, which is at least what comes   *)
(* after the settled write.                                                   *)
Shrunk(h, ok) ==
  /\ queue' \in [Users -> Seq(Batch)]
  /\ \A u \in Users : u # user => queue'[u] = queue[u]
  /\ \A i, j \in 1..Len(queue'[user]) :
       i < j => queue'[user][i].id < queue'[user][j].id /\ queue'[user][i].w < queue'[user][j].w
  /\ \A i \in 1..Len(queue'[user]) :
       \E j \in 1..Len(queue[user]) : queue'[user][i] = queue[user][j] /\ (ok \/ j # h)
  /\ \A j \in 1..Len(queue[user]) :
       j > h => \E i \in 1..Len(queue'[user]) : queue'[user][i] = queue[user][j]

LEMMA SettleKeeps ==
  ASSUME ClientInv, NEW b, NEW h, First(b, h), NEW ok \in BOOLEAN,
         ProcessUserCallbacks(b, ok), Shrunk(h, ok), HeldFirst', held' \in Seq(Result),
         acked' = IF ok THEN [acked EXCEPT ![user] = b.id] ELSE acked,
         IF ok THEN InHistory(history, b.w) ELSE ~b.allowed \/ b.kind = "update",
         UNCHANGED <<budget, user, nextBatchID, history>>
  PROVE  /\ IdsInOrder' /\ QueuesPending' /\ OutcomesTrue' /\ CallsTrue' /\ WritesNumbered'
         /\ acked' \in [Users -> Nat \cup {kFSTBatchIDUnknown}]
         /\ callbacks' \in [Users -> SUBSET [id : Nat, w : Nat]]
         /\ outcome' \in Seq(Outcome)
         /\ settled' \in Seq([user : Users, w : Nat, ok : BOOLEAN])
         /\ calls' \in Seq([w : Nat, ok : BOOLEAN])
  <1> DEFINE q == queue[user]
             res == IF ok THEN "ok" ELSE "failed"
  <1>1. /\ q \in Seq(Batch) /\ Len(q) \in Nat /\ user \in Users /\ h \in 1..Len(q) /\ b = q[h]
        /\ b \in Batch /\ b.id \in Nat /\ b.w \in Nat /\ b.w \in 1..Len(outcome)
        /\ outcome \in Seq(Outcome) /\ Len(outcome) \in Nat
        /\ \A i \in 1..Len(q) : q[i] \in Batch /\ q[i].id \in Nat /\ q[i].w \in Nat
    BY View, BatchTypes, SMTT(30) DEF ClientInv, ClientTypeOK, First
  <1>2. \A u \in Users : acked[u] \in Int
    BY DEF ClientInv, ClientTypeOK, kFSTBatchIDUnknown
  <1>3. acked' \in [Users -> Nat \cup {kFSTBatchIDUnknown}]
    <2>1. acked \in [Users -> Nat \cup {kFSTBatchIDUnknown}]
      BY DEF ClientInv, ClientTypeOK
    <2> QED BY <2>1, <1>1
  <1>4. /\ \A u \in Users : u # user => acked'[u] = acked[u]
        /\ acked'[user] = IF ok THEN b.id ELSE acked[user]
        /\ acked'[user] \in Int
    <2>1. acked \in [Users -> Nat \cup {kFSTBatchIDUnknown}]
      BY DEF ClientInv, ClientTypeOK
    <2>2. /\ \A u \in Users : u # user => acked'[u] = acked[u]
          /\ acked'[user] = IF ok THEN b.id ELSE acked[user]
      BY <2>1, <1>1
    <2> QED BY <2>2, <1>1, <1>2
  <1>5. /\ outcome' \in Seq(Outcome) /\ Len(outcome') = Len(outcome)
        /\ \A w \in 1..Len(outcome) : /\ w # b.w => outcome'[w] = outcome[w]
                                      /\ outcome'[w].user = outcome[w].user
                                      /\ outcome'[w].kind = outcome[w].kind
                                      /\ outcome[w].user \in Users
        /\ outcome'[b.w].result = res /\ res # "pending"
        /\ outcome[b.w].user = user /\ outcome[b.w].result = "pending"
    <2>1. outcome' = [outcome EXCEPT ![b.w].result = res]
      BY DEF ProcessUserCallbacks
    <2>2. res \in {"ok", "failed"} /\ res # "pending"
      OBVIOUS
    <2>3. \A w \in 1..Len(outcome) : outcome[w] \in Outcome
      BY <1>1
    <2> HIDE DEF res
    <2>4. [outcome[b.w] EXCEPT !.result = res] \in Outcome
      BY <2>2, <2>3, <1>1 DEF Outcome
    <2>5. outcome' \in Seq(Outcome) /\ Len(outcome') = Len(outcome)
          /\ \A w \in 1..Len(outcome) :
               outcome'[w] = IF w = b.w THEN [outcome[b.w] EXCEPT !.result = res] ELSE outcome[w]
      BY <2>1, <2>4, <1>1
    <2>6. ASSUME NEW w \in 1..Len(outcome)
          PROVE  /\ w # b.w => outcome'[w] = outcome[w]
                 /\ outcome'[w].user = outcome[w].user
                 /\ outcome'[w].kind = outcome[w].kind
                 /\ outcome[w].user \in Users
                 /\ w = b.w => outcome'[w].result = res
      BY <2>3, <2>5 DEF Outcome
    <2> QED BY <2>2, <2>5, <2>6, <1>1 DEF First
  <1> HIDE DEF q, res
  <1>6. \A j \in 1..Len(q) : /\ j < h => q[j].id < b.id /\ q[j].w < b.w
                             /\ j > h => q[j].id > b.id /\ q[j].w > b.w
    BY DEF First, q
  <1>7. \A j \in 1..Len(q) : j # h => q[j].w # b.w /\ q[j].id # b.id
    BY <1>1, <1>6, SMTT(30)
  <1>8. \A j \in 1..Len(q) : q[j].id <= acked[user] <=> j < h
    <2>1. Len(held) \in Nat /\ h = Len(held) + 1
      BY View DEF First
    <2>2. \A j \in 1..Len(q) : q[j].id <= acked[user] <=> j <= Len(held)
      BY DEF ClientInv, HeldFirst, q
    <2> QED BY <2>1, <2>2
  <1>9. \A w \in 1..Len(outcome) : outcome[w].user # user => w # b.w
    BY <1>5
  <1>10. IdsInOrder'
    <2>1. ASSUME NEW u \in Users, NEW i \in 1..Len(queue'[u])
          PROVE  queue'[u][i].id < nextBatchID
      <3>1. CASE u # user
        BY <3>1 DEF Shrunk, ClientInv, IdsInOrder
      <3>2. CASE u = user
        <4>1. PICK j \in 1..Len(queue[user]) : queue'[user][i] = queue[user][j]
          BY <3>2 DEF Shrunk
        <4> QED BY <3>2, <4>1, <1>1 DEF ClientInv, IdsInOrder
      <3> QED BY <3>1, <3>2
    <2>2. ASSUME NEW u \in Users, NEW i \in 1..Len(queue'[u]), NEW j \in 1..Len(queue'[u]), i < j
          PROVE  queue'[u][i].id < queue'[u][j].id /\ queue'[u][i].w < queue'[u][j].w
      <3>1. CASE u # user
        BY <3>1, <2>2 DEF Shrunk, ClientInv, IdsInOrder
      <3>2. CASE u = user
        BY <3>2, <2>2 DEF Shrunk
      <3> QED BY <3>1, <3>2
    <2>3. acked'[user] < nextBatchID
      <3>1. b.id < nextBatchID
        BY <1>1 DEF ClientInv, IdsInOrder, q
      <3>2. acked[user] < nextBatchID
        BY DEF ClientInv, IdsInOrder
      <3> QED BY <3>1, <3>2, <1>4
    <2>4. ASSUME NEW u \in Users, queue'[u] # <<>>
          PROVE  acked'[u] <= queue'[u][Len(queue'[u])].id
      <3>1. CASE u # user
        BY <3>1, <2>4, <1>4 DEF Shrunk, ClientInv, IdsInOrder
      <3>2. CASE u = user
        <4>1. queue'[user] \in Seq(Batch) /\ Ordered(queue'[user])
          BY <1>1 DEF Shrunk, Ordered
        <4> QED BY <3>2, <4>1, <2>4, <1>4, LastAfterHeld
      <3> QED BY <3>1, <3>2
    <2> QED BY <2>1, <2>2, <2>3, <2>4 DEF IdsInOrder
  <1>11. QueuesPending'
    <2>1. ASSUME NEW u \in Users, NEW i \in 1..Len(queue'[u])
          PROVE  /\ queue'[u][i].w \in 1..Len(outcome)
                 /\ outcome'[queue'[u][i].w].user = u
                 /\ outcome'[queue'[u][i].w].kind = queue'[u][i].kind
                 /\ outcome'[queue'[u][i].w].result
                      = (IF queue'[u][i].id <= acked'[u] THEN "ok" ELSE "pending")
      <3>1. CASE u # user
        <4>1. i \in 1..Len(queue[u]) /\ queue'[u][i] = queue[u][i]
          BY <3>1 DEF Shrunk
        <4>2. queue[u][i].w \in 1..Len(outcome) /\ outcome[queue[u][i].w].user = u
          BY <4>1 DEF ClientInv, QueuesPending
        <4>3. outcome'[queue[u][i].w] = outcome[queue[u][i].w]
          BY <4>2, <3>1, <1>5, <1>9
        <4> QED BY <3>1, <4>1, <4>2, <4>3, <1>4 DEF ClientInv, QueuesPending
      <3>2. CASE u = user
        <4>1. PICK j \in 1..Len(q) : queue'[user][i] = q[j] /\ (ok \/ j # h)
          BY <3>2 DEF Shrunk, q
        <4>2. /\ q[j].w \in 1..Len(outcome) /\ outcome[q[j].w].user = user
              /\ outcome[q[j].w].kind = q[j].kind
              /\ outcome[q[j].w].result = (IF q[j].id <= acked[user] THEN "ok" ELSE "pending")
          BY <1>1, SMTT(30) DEF ClientInv, QueuesPending, q
        <4>3. CASE j = h
          <5>1. ok /\ q[j] = b /\ b.id <= acked'[user]
            BY <4>1, <4>3, <1>1, <1>4
          <5>2. res = "ok"
            BY <5>1 DEF res
          <5> QED BY <3>2, <4>1, <4>2, <5>1, <5>2, <1>5
        <4>4. CASE j # h
          <5>1. q[j].w # b.w /\ outcome'[q[j].w] = outcome[q[j].w]
            BY <4>2, <4>4, <1>5, <1>7
          <5>2. q[j].id <= acked'[user] <=> q[j].id <= acked[user]
            <6>1. CASE ok
              <7>1. q[j].id <= b.id <=> j < h
                BY <4>4, <1>1, <1>6
              <7> QED BY <6>1, <7>1, <1>4, <1>8
            <6>2. CASE ~ok
              BY <6>2, <1>4
            <6> QED BY <6>1, <6>2
          <5> QED BY <3>2, <4>1, <4>2, <5>1, <5>2
        <4> QED BY <4>3, <4>4
      <3> QED BY <3>1, <3>2
    <2>2. ASSUME NEW w \in 1..Len(outcome), outcome'[w].result = "pending"
          PROVE  \E i \in 1..Len(queue'[outcome'[w].user]) :
                   /\ queue'[outcome'[w].user][i].w = w
                   /\ queue'[outcome'[w].user][i].id > acked'[outcome'[w].user]
      <3>1. w # b.w /\ outcome'[w] = outcome[w] /\ outcome[w].user \in Users
        BY <2>2, <1>5
      <3>2. PICK i \in 1..Len(queue[outcome[w].user]) :
              /\ queue[outcome[w].user][i].w = w
              /\ queue[outcome[w].user][i].id > acked[outcome[w].user]
        BY <2>2, <3>1 DEF ClientInv, QueuesPending
      <3>3. CASE outcome[w].user # user
        BY <3>1, <3>2, <3>3, <1>4 DEF Shrunk
      <3>4. CASE outcome[w].user = user
        <4>1. i \in 1..Len(q) /\ q[i].w = w /\ ~(q[i].id <= acked[user])
          BY <3>2, <3>4, <1>1, <1>2 DEF q
        <4>2. i # h /\ ~(i < h)
          BY <4>1, <3>1, <1>1, <1>8
        <4>3. i > h
          BY <4>1, <4>2, <1>1
        <4>4. PICK j \in 1..Len(queue'[user]) : queue'[user][j] = q[i]
          BY <4>1, <4>3 DEF Shrunk, q
        <4>5. q[i].id > acked'[user]
          BY <4>1, <4>3, <1>1, <1>2, <1>4, <1>6, SMTT(30)
        <4> QED BY <3>1, <3>4, <4>1, <4>4, <4>5
      <3> QED BY <3>3, <3>4
    <2>3. ASSUME NEW w \in 1..Len(outcome), NEW x \in 1..Len(outcome),
                 outcome'[w].user = outcome'[x].user,
                 outcome'[w].result # "pending", outcome'[x].result = "pending"
          PROVE  w < x
      <3>1. x # b.w /\ outcome'[x] = outcome[x]
        BY <2>3, <1>5
      <3>2. CASE w # b.w
        <4>1. outcome'[w] = outcome[w]
          BY <3>2, <1>5
        <4> QED BY <3>1, <4>1, <2>3 DEF ClientInv, QueuesPending
      <3>3. CASE w = b.w
        <4>1. outcome[x].user = user /\ outcome[x].result = "pending"
          BY <3>1, <3>3, <2>3, <1>5
        <4>2. PICK i \in 1..Len(queue[outcome[x].user]) :
                /\ queue[outcome[x].user][i].w = x
                /\ queue[outcome[x].user][i].id > acked[outcome[x].user]
          BY <4>1 DEF ClientInv, QueuesPending
        <4>3. i \in 1..Len(q) /\ q[i].w = x /\ ~(q[i].id <= acked[user])
          BY <4>1, <4>2, <1>1, <1>2 DEF q
        <4>4. i # h /\ ~(i < h)
          BY <4>3, <3>1, <1>1, <1>8
        <4>5. i > h
          BY <4>3, <4>4, <1>1
        <4> QED BY <4>3, <4>5, <3>3, <1>1, <1>6
      <3> QED BY <3>2, <3>3
    <2> QED BY <2>1, <2>2, <2>3, <1>5 DEF QueuesPending
  <1>12. OutcomesTrue'
    <2>1. ~ok => (InHistory(history, b.w) => b.allowed)
      BY <1>1 DEF ClientInv, OutcomesTrue, q
    <2>2. outcome[b.w].kind = b.kind
      BY <1>1 DEF ClientInv, QueuesPending, q
    <2>3. ASSUME NEW w \in 1..Len(outcome)
          PROVE  /\ outcome'[w].result = "ok" => InHistory(history, w)
                 /\ outcome'[w].result = "failed" /\ outcome'[w].kind # "update"
                      => ~InHistory(history, w)
      <3>1. CASE w # b.w
        <4>1. outcome'[w] = outcome[w]
          BY <3>1, <1>5
        <4> QED BY <4>1 DEF ClientInv, OutcomesTrue
      <3>2. CASE w = b.w
        <4>1. outcome'[w].result = res /\ outcome'[w].kind = b.kind
          BY <3>2, <2>2, <1>1, <1>5
        <4>2. CASE ok
          BY <3>2, <4>1, <4>2 DEF res
        <4>3. CASE ~ok
          BY <3>2, <4>1, <4>3, <2>1 DEF res
        <4> QED BY <4>2, <4>3
      <3> QED BY <3>1, <3>2
    <2>4. ASSUME NEW u \in Users, NEW i \in 1..Len(queue'[u]), InHistory(history, queue'[u][i].w)
          PROVE  queue'[u][i].allowed
      <3>1. \E j \in 1..Len(queue[u]) : queue'[u][i] = queue[u][j]
        <4>1. CASE u # user
          <5>1. queue'[u] = queue[u]
            BY <4>1 DEF Shrunk
          <5> QED BY <5>1
        <4>2. CASE u = user
          BY <4>2 DEF Shrunk
        <4> QED BY <4>1, <4>2
      <3> QED BY <3>1, <2>4 DEF ClientInv, OutcomesTrue
    <2>5. \A v \in 1..Len(history) : history[v].w <= Len(outcome)
      BY DEF ClientInv, OutcomesTrue
    <2> QED BY <2>3, <2>4, <2>5, <1>5 DEF OutcomesTrue
  <1>13. /\ \/ calls' = calls
            \/ calls' = Append(calls, [w |-> b.w, ok |-> ok])
         /\ \A u \in Users : callbacks'[u] \subseteq callbacks[u]
         /\ \A c \in callbacks'[user] : c.id # b.id
         /\ callbacks' \in [Users -> SUBSET [id : Nat, w : Nat]]
    BY CallsAdded
  <1>14. /\ calls \in Seq([w : Nat, ok : BOOLEAN]) /\ Len(calls) \in Nat
         /\ [w |-> b.w, ok |-> ok] \in [w : Nat, ok : BOOLEAN]
    BY <1>1 DEF ClientInv, ClientTypeOK
  <1>15. calls' \in Seq([w : Nat, ok : BOOLEAN])
    <2> DEFINE T == [w : Nat, ok : BOOLEAN]
               x == [w |-> b.w, ok |-> ok]
    <2>1. (calls' = calls \/ calls' = Append(calls, x)) /\ x \in T /\ calls \in Seq(T)
      BY <1>13, <1>14
    <2> HIDE DEF T, x
    <2>2. calls' \in Seq(T)
      BY <2>1
    <2> QED BY <2>2 DEF T
  <1>16. CallsTrue'
    <2>1. ASSUME NEW u \in Users, NEW c \in callbacks'[u]
          PROVE  \E i \in 1..Len(queue'[u]) :
                   /\ queue'[u][i].id > acked'[u]
                   /\ queue'[u][i].id = c.id /\ queue'[u][i].w = c.w
      <3>1. PICK i \in 1..Len(queue[u]) :
              queue[u][i].id > acked[u] /\ queue[u][i].id = c.id /\ queue[u][i].w = c.w
        BY <1>13 DEF ClientInv, CallsTrue
      <3>2. CASE u # user
        BY <3>1, <3>2, <1>4 DEF Shrunk
      <3>3. CASE u = user
        <4>1. i \in 1..Len(q) /\ q[i].id = c.id /\ ~(q[i].id <= acked[user]) /\ c.id # b.id
          BY <3>1, <3>3, <1>1, <1>2, <1>13 DEF q
        <4>2. i # h /\ ~(i < h)
          BY <4>1, <1>1, <1>8
        <4>3. i > h
          BY <4>1, <4>2, <1>1
        <4>4. PICK j \in 1..Len(queue'[user]) : queue'[user][j] = q[i]
          BY <4>1, <4>3 DEF Shrunk, q
        <4>5. q[i].id > acked'[user]
          BY <4>1, <4>3, <1>1, <1>2, <1>4, <1>6, SMTT(30)
        <4>6. q[i].w = c.w
          BY <3>1, <3>3 DEF q
        <4> QED BY <3>3, <4>1, <4>4, <4>5, <4>6
      <3> QED BY <3>2, <3>3
    <2>2. \A i \in 1..Len(calls) :
            /\ calls[i].w \in 1..Len(outcome) /\ calls[i].w # b.w
            /\ outcome'[calls[i].w].result = (IF calls[i].ok THEN "ok" ELSE "failed")
            /\ outcome'[calls[i].w].user = outcome[calls[i].w].user
            /\ outcome[calls[i].w].user = user => calls[i].w < b.w
      <3>1. SUFFICES ASSUME NEW i \in 1..Len(calls)
                     PROVE  /\ calls[i].w \in 1..Len(outcome) /\ calls[i].w # b.w
                            /\ outcome'[calls[i].w].result
                                 = (IF calls[i].ok THEN "ok" ELSE "failed")
                            /\ outcome'[calls[i].w].user = outcome[calls[i].w].user
                            /\ outcome[calls[i].w].user = user => calls[i].w < b.w
        OBVIOUS
      <3>2. /\ calls[i].w \in 1..Len(outcome)
            /\ outcome[calls[i].w].result = (IF calls[i].ok THEN "ok" ELSE "failed")
        BY DEF ClientInv, CallsTrue
      <3>3. outcome[calls[i].w].result # "pending"
        BY <3>2
      <3>4. calls[i].w # b.w /\ outcome'[calls[i].w] = outcome[calls[i].w]
        BY <3>2, <3>3, <1>5
      <3>5. outcome[calls[i].w].user = user => calls[i].w < b.w
        BY <3>2, <3>3, <1>1, <1>5 DEF ClientInv, QueuesPending
      <3> QED BY <3>2, <3>4, <3>5
    <2>3. CASE calls' = calls
      <3>1. \A i, j \in 1..Len(calls) :
              i < j /\ outcome'[calls[i].w].user = outcome'[calls[j].w].user
                => calls[i].w < calls[j].w
        BY <2>2 DEF ClientInv, CallsTrue
      <3> QED BY <2>1, <2>2, <2>3, <3>1, <1>5 DEF CallsTrue
    <2>4. CASE calls' = Append(calls, [w |-> b.w, ok |-> ok])
      <3>1. /\ Len(calls') = Len(calls) + 1
            /\ \A i \in 1..Len(calls) : calls'[i] = calls[i]
            /\ calls'[Len(calls) + 1].w = b.w /\ calls'[Len(calls) + 1].ok = ok
            /\ \A i \in 1..Len(calls') : i \in 1..Len(calls) \/ i = Len(calls) + 1
        BY <2>4, <1>14
      <3>2. ASSUME NEW i \in 1..Len(calls')
            PROVE  /\ calls'[i].w \in 1..Len(outcome)
                   /\ outcome'[calls'[i].w].result = (IF calls'[i].ok THEN "ok" ELSE "failed")
        <4>1. CASE i \in 1..Len(calls)
          BY <4>1, <3>1, <2>2
        <4>2. CASE i = Len(calls) + 1
          BY <4>2, <3>1, <1>1, <1>5 DEF res
        <4> QED BY <4>1, <4>2, <3>1
      <3>3. ASSUME NEW i \in 1..Len(calls'), NEW j \in 1..Len(calls'), i < j,
                   outcome'[calls'[i].w].user = outcome'[calls'[j].w].user
            PROVE  calls'[i].w < calls'[j].w
        <4>1. i \in 1..Len(calls)
          BY <3>1, <3>3, <1>14
        <4>2. CASE j \in 1..Len(calls)
          <5>1. outcome[calls[i].w].user = outcome[calls[j].w].user
            BY <4>1, <4>2, <3>1, <3>3, <2>2
          <5>2. calls[i].w < calls[j].w
            BY <4>1, <4>2, <5>1, <3>3 DEF ClientInv, CallsTrue
          <5> QED BY <5>2, <4>1, <4>2, <3>1
        <4>3. CASE j = Len(calls) + 1
          <5>1. outcome[calls[i].w].user = user
            BY <4>1, <4>3, <3>1, <3>3, <2>2, <1>1, <1>5, SMTT(30)
          <5> QED BY <5>1, <4>1, <4>3, <3>1, <2>2
        <4> QED BY <4>2, <4>3, <3>1
      <3> QED BY <2>1, <3>2, <3>3, <1>5 DEF CallsTrue
    <2> QED BY <2>3, <2>4, <1>13
  <1>17. /\ settled' \in Seq([user : Users, w : Nat, ok : BOOLEAN])
         /\ \A i \in 1..Len(settled') : settled'[i].w \in 1..Len(outcome)
    <2>1. settled \in Seq([user : Users, w : Nat, ok : BOOLEAN])
      BY DEF ClientInv, ClientTypeOK
    <2> DEFINE e == [user |-> user, w |-> b.w, ok |-> ok]
    <2>2. settled' = Append(settled, e)
      BY DEF ProcessUserCallbacks
    <2>3. e \in [user : Users, w : Nat, ok : BOOLEAN] /\ e.w = b.w
      BY <1>1
    <2> HIDE DEF e
    <2>4. /\ settled' \in Seq([user : Users, w : Nat, ok : BOOLEAN])
          /\ \A i \in 1..Len(settled') : \/ i \in 1..Len(settled) /\ settled'[i] = settled[i]
                                         \/ settled'[i] = e
      BY <2>1, <2>2, <2>3
    <2> QED BY <2>3, <2>4, <1>1 DEF ClientInv, WritesNumbered
  <1>18. WritesNumbered'
    BY <1>5, <1>17 DEF ClientInv, WritesNumbered
  <1> QED BY <1>3, <1>5, <1>10, <1>11, <1>12, <1>13, <1>15, <1>16, <1>17, <1>18

(* What is not acknowledged loses its first. *)
FirstGone ==
  /\ Len(queue'[user]) - Len(held') = Len(queue[user]) - (Len(held) + 1)
  /\ \A i \in 1..(Len(queue'[user]) - Len(held')) :
       queue'[user][Len(held') + i] = queue[user][Len(held) + 1 + i]
  /\ \A u \in Users : u # user => queue'[u] = queue[u]

(* The pipeline without its first goes on in the queue.                       *)
LEMMA TailFollows ==
  ASSUME ClientInv, Len(pipeline) \in Nat \ {0}, user' = user, FirstGone,
         queue'[user] \in Seq(Batch), Len(held') \in Nat, Len(held') <= Len(queue'[user])
  PROVE  /\ Tail(pipeline) \in Seq(Batch) /\ Len(Tail(pipeline)) = Len(pipeline) - 1
         /\ \A i \in 1..(Len(pipeline) - 1) : Tail(pipeline)[i] = pipeline[i + 1]
         /\ Follows(Tail(pipeline), Len(held'))
  <1>1. /\ pipeline \in Seq(Batch) /\ Len(pipeline) \in Nat /\ pipeline # <<>>
        /\ Len(held) \in Nat /\ Len(queue[user]) \in Nat
        /\ Len(held) + Len(pipeline) <= Len(queue[user])
    <2>1. pipeline \in Seq(Batch)
      BY DEF ClientInv, ClientTypeOK
    <2> QED BY <2>1, View DEF ClientInv, PipelineNext
  <1>2. /\ Tail(pipeline) \in Seq(Batch) /\ Len(Tail(pipeline)) = Len(pipeline) - 1
        /\ \A i \in 1..(Len(pipeline) - 1) : Tail(pipeline)[i] = pipeline[i + 1]
    BY <1>1
  <1>3. Len(queue'[user]) \in Nat
    OBVIOUS
  <1>4. Len(held') + Len(Tail(pipeline)) <= Len(queue'[user])
    BY <1>1, <1>2, <1>3 DEF FirstGone
  <1>5. ASSUME NEW i \in 1..Len(Tail(pipeline))
        PROVE  Tail(pipeline)[i] = queue'[user][Len(held') + i]
    <2>1. /\ i \in 1..(Len(pipeline) - 1) /\ i + 1 \in 1..Len(pipeline)
          /\ i \in 1..(Len(queue'[user]) - Len(held'))
          /\ Len(held) + (i + 1) = Len(held) + 1 + i
      BY <1>1, <1>2, <1>3, <1>4
    <2>2. pipeline[i + 1] = queue[user][Len(held) + (i + 1)]
      BY <2>1 DEF ClientInv, PipelineNext
    <2>3. queue'[user][Len(held') + i] = queue[user][Len(held) + 1 + i]
      BY <2>1 DEF FirstGone
    <2> QED BY <2>1, <2>2, <2>3, <1>2
  <1> QED BY <1>2, <1>4, <1>5 DEF Follows

(* The answers after the first are to the pipeline after its first.           *)
LEMMA TailAnswers ==
  ASSUME ClientInv, responses # <<>>, Head(responses).ok, responses' = Tail(responses),
         history' = history, Len(pipeline) \in Nat \ {0},
         Len(Tail(pipeline)) = Len(pipeline) - 1,
         \A i \in 1..(Len(pipeline) - 1) : Tail(pipeline)[i] = pipeline[i + 1]
  PROVE  /\ Answers(Tail(pipeline), stream, requests) /\ responses' \in Seq(Response)
         /\ Taken \in Nat \ {0} /\ Taken' = Taken - 1 /\ (Refused' <=> Refused)
  <1>1. /\ responses \in Seq(Response) /\ Len(responses) \in Nat \ {0} /\ responses[1].ok
        /\ requests \in Seq(Batch) /\ Len(requests) \in Nat
    BY DEF ClientInv, ClientTypeOK
  <1>2. /\ responses' \in Seq(Response) /\ Len(responses') = Len(responses) - 1
        /\ \A i \in 1..(Len(responses) - 1) : responses'[i] = responses[i + 1]
    BY <1>1
  <1>3. /\ stream = "ready" /\ Len(responses) <= Len(pipeline)
        /\ Len(requests) = Len(pipeline) - Taken
        /\ \A i \in 1..Len(requests) : requests[i] = pipeline[Taken + i]
    BY DEF ClientInv, AnswersInOrder
  <1>4. Refused' <=> Refused
    <2>1. ASSUME NEW i \in 1..Len(responses), ~responses[i].ok
          PROVE  Refused'
      <3>1. i - 1 \in 1..Len(responses') /\ (i - 1) + 1 = i
        BY <2>1, <1>1, <1>2
      <3>2. responses'[i - 1] = responses[i]
        BY <3>1, <1>2
      <3> QED BY <3>1, <3>2, <2>1 DEF Refused
    <2>2. ASSUME NEW i \in 1..Len(responses'), ~responses'[i].ok
          PROVE  Refused
      <3>1. i + 1 \in 1..Len(responses) /\ responses'[i] = responses[i + 1]
        BY <1>1, <1>2
      <3> QED BY <3>1, <2>2 DEF Refused
    <2> QED BY <2>1, <2>2 DEF Refused
  <1>5. Taken \in Nat \ {0}
    <2>1. CASE Refused
      <3>1. PICK i \in 1..Len(responses) : ~responses[i].ok
        BY <2>1 DEF Refused
      <3>2. Len(responses) > 1
        BY <3>1, <1>1
      <3> QED BY <3>2, <2>1, <1>1 DEF Taken
    <2>2. CASE ~Refused
      BY <2>2, <1>1 DEF Taken
    <2> QED BY <2>1, <2>2
  <1>6. Taken' = Taken - 1
    BY <1>1, <1>2, <1>4 DEF Taken
  <1>7. ASSUME NEW i \in 1..Len(responses')
        PROVE  /\ responses'[i].w = Tail(pipeline)[i].w
               /\ IF responses'[i].ok THEN InHistory(history, responses'[i].w)
                  ELSE /\ i = Len(responses')
                       /\ ~Tail(pipeline)[i].allowed \/ Tail(pipeline)[i].kind = "update"
    <2>1. /\ i \in 1..(Len(responses) - 1) /\ i + 1 \in 1..Len(responses)
          /\ i \in 1..(Len(pipeline) - 1) /\ (i + 1 = Len(responses) => i = Len(responses'))
      BY <1>1, <1>2, <1>3
    <2>2. responses'[i] = responses[i + 1] /\ Tail(pipeline)[i] = pipeline[i + 1]
      BY <2>1, <1>2
    <2>3. /\ responses[i + 1].w = pipeline[i + 1].w
          /\ IF responses[i + 1].ok THEN InHistory(history, responses[i + 1].w)
             ELSE /\ i + 1 = Len(responses)
                  /\ ~pipeline[i + 1].allowed \/ pipeline[i + 1].kind = "update"
      BY <2>1 DEF ClientInv, AnswersInOrder
    <2> QED BY <2>1, <2>2, <2>3
  <1>8. Len(responses') <= Len(Tail(pipeline))
    BY <1>1, <1>2, <1>3
  <1>9. Len(requests) = Len(Tail(pipeline)) - Taken'
    BY <1>3, <1>5, <1>6
  <1>10. ASSUME NEW i \in 1..Len(requests)
         PROVE  requests[i] = Tail(pipeline)[Taken' + i]
    <2>1. /\ (Taken - 1) + i \in 1..(Len(pipeline) - 1)
          /\ ((Taken - 1) + i) + 1 = Taken + i
      BY <1>1, <1>3, <1>5
    <2> QED BY <2>1, <1>3, <1>6
  <1> QED BY <1>2, <1>3, <1>4, <1>5, <1>6, <1>7, <1>8, <1>9, <1>10 DEF Answers

(* Both ends of the two actions: what is left to show of the invariant.       *)
LEMMA SettledIs ==
  ASSUME ClientInv, NEW b, NEW h, First(b, h), NEW ok \in BOOLEAN,
         ProcessUserCallbacks(b, ok), Shrunk(h, ok), HeldFirst', held' \in Seq(Result),
         acked' = IF ok THEN [acked EXCEPT ![user] = b.id] ELSE acked,
         IF ok THEN InHistory(history, b.w) ELSE ~b.allowed \/ b.kind = "update",
         UNCHANGED <<budget, user, nextBatchID, history>>,
         Len(pipeline) \in Nat \ {0}, FirstGone,
         NEW s \in {"closed", "starting", "open", "ready"}, NEW r \in Seq(Batch),
         Answers(Tail(pipeline), s, r), responses' \in Seq(Response),
         FillWritePipeline(Tail(pipeline), s, r)
  PROVE  ClientInv'
  <1>1. /\ IdsInOrder' /\ QueuesPending' /\ OutcomesTrue' /\ CallsTrue' /\ WritesNumbered'
        /\ acked' \in [Users -> Nat \cup {kFSTBatchIDUnknown}]
        /\ callbacks' \in [Users -> SUBSET [id : Nat, w : Nat]]
        /\ outcome' \in Seq(Outcome)
        /\ settled' \in Seq([user : Users, w : Nat, ok : BOOLEAN])
        /\ calls' \in Seq([w : Nat, ok : BOOLEAN])
    BY SettleKeeps
  <1>2. /\ user \in Users /\ user' = user /\ queue' \in [Users -> Seq(Batch)]
        /\ queue'[user] \in Seq(Batch)
    BY DEF ClientInv, ClientTypeOK, Shrunk
  <1>3. Len(held') \in Nat /\ Len(held') <= Len(queue'[user])
    BY <1>2 DEF HeldFirst
  <1>4. Tail(pipeline) \in Seq(Batch) /\ Follows(Tail(pipeline), Len(held'))
    BY <1>2, <1>3, TailFollows
  <1>5. Ordered(queue'[user'])
    BY <1>1, <1>2 DEF IdsInOrder, Ordered
  <1>6. Splits(queue'[user'], acked'[user'], Len(held'))
    <2>1. Len(held') \in 0..Len(queue'[user'])
      BY <1>2, <1>3
    <2> QED BY <2>1 DEF HeldFirst, Splits
  <1>7. acked'[user'] \in Nat \cup {kFSTBatchIDUnknown}
    BY <1>1, <1>2
  <1>8. /\ PipelineNext' /\ AnswersInOrder'
        /\ pipeline' \in Seq(Batch) /\ requests' \in Seq(Batch)
        /\ stream' \in {"closed", "starting", "open", "ready"}
    <2> DEFINE p == Tail(pipeline)
    <2>1. /\ p \in Seq(Batch) /\ Follows(p, Len(held')) /\ Answers(p, s, r)
          /\ FillWritePipeline(p, s, r) /\ queue'[user'] \in Seq(Batch)
      BY <1>2, <1>4
    <2> HIDE DEF p
    <2> QED BY <2>1, <1>3, <1>5, <1>6, <1>7, FilledKeeps
  <1>9. ClientTypeOK'
    BY <1>1, <1>2, <1>8 DEF ClientInv, ClientTypeOK
  <1> QED BY <1>1, <1>8, <1>9 DEF ClientInv

LEMMA WriteResponseKeeps ==
  ASSUME ClientInv, WriteResponse
  PROVE  /\ ClientInv' /\ FirstGone /\ First(Head(pipeline), Len(held) + 1)
         /\ Taken \in Nat \ {0} /\ Taken' = Taken - 1 /\ (Refused' <=> Refused)
  <1> DEFINE b == Head(pipeline)
             h == Len(held) + 1
             q == queue[user]
             result == [batch |-> b, version |-> Head(responses).version]
  <1>1. /\ stream = "ready" /\ Len(pipeline) \in Nat \ {0}
        /\ First(b, h) /\ InHistory(history, b.w)
        /\ responses # <<>> /\ Head(responses).ok
    BY FirstIs DEF WriteResponse
  <1>2. /\ ProcessUserCallbacks(b, TRUE) /\ AcknowledgeBatch(result)
        /\ user' = user /\ FillWritePipeline(Tail(pipeline), stream, requests)
        /\ responses' = Tail(responses)
        /\ UNCHANGED <<budget, nextBatchID, history>>
    BY DEF WriteResponse
  <1>3. /\ q \in Seq(Batch) /\ Len(q) \in Nat /\ user \in Users /\ h \in 1..Len(q) /\ b = q[h]
        /\ Len(held) \in Nat /\ h = Len(held) + 1 /\ b \in Batch /\ b.id \in Nat
        /\ queue \in [Users -> Seq(Batch)] /\ held \in Seq(Result)
        /\ \A i \in 1..Len(q) : q[i] \in Batch /\ q[i].id \in Nat /\ q[i].w \in Nat
    BY <1>1, View, BatchTypes DEF ClientInv, ClientTypeOK, First
  <1>4. result \in Result /\ result.batch = b
    <2>1. Head(responses) \in Response
      <3>1. responses \in Seq(Response)
        BY DEF ClientInv, ClientTypeOK
      <3> QED BY <3>1, <1>1
    <2> QED BY <2>1, <1>3 DEF Response, Result
  <1>5. /\ acked' = [acked EXCEPT ![user] = b.id] /\ acked'[user] = b.id
    <2>1. acked' = [acked EXCEPT ![user] = b.id]
      BY <1>2, <1>4 DEF AcknowledgeBatch
    <2> QED BY <2>1, <1>3 DEF ClientInv, ClientTypeOK
  <1> HIDE DEF b, h, q, result
  <1>6. /\ \A j \in 1..Len(q) : q[j].id <= b.id <=> j <= h
        /\ \A i, j \in 1..Len(q) : i < j => q[i].id < q[j].id /\ q[i].w < q[j].w
    <2>1. \A j \in 1..Len(q) : /\ j < h => q[j].id < b.id
                               /\ j > h => q[j].id > b.id
      BY <1>1 DEF First, q
    <2>2. \A j \in 1..Len(q) : q[j].id <= b.id <=> j <= h
      <3>1. SUFFICES ASSUME NEW j \in 1..Len(q) PROVE q[j].id <= b.id <=> j <= h
        OBVIOUS
      <3>2. CASE j < h
        BY <3>2, <2>1, <1>3
      <3>3. CASE j > h
        BY <3>3, <2>1, <1>3
      <3>4. CASE j = h
        BY <3>4, <1>3
      <3> QED BY <3>2, <3>3, <3>4, <1>3
    <2> QED BY <2>2, <1>3 DEF ClientInv, IdsInOrder, q
  <1>7. HeldFirst' /\ held' \in Seq(Result) /\ Shrunk(h, TRUE) /\ FirstGone
    <2>1. CASE held # <<>> \/ ~IsRemoteUpTo(result, lastRemote, targets)
      <3>1. held' = Append(held, result) /\ queue' = queue
        BY <2>1, <1>2 DEF AcknowledgeBatch
      <3>2. /\ held' \in Seq(Result) /\ Len(held') = h /\ held'[h] = result
            /\ \A i \in 1..Len(held) : held'[i] = held[i]
            /\ \A i \in 1..h : i \in 1..Len(held) \/ i = h
            /\ h <= Len(q)
        BY <3>1, <1>3, <1>4
      <3>3. HeldFirst'
        <4>1. ASSUME NEW i \in 1..h
              PROVE  held'[i].batch = q[i]
          <5>1. CASE i \in 1..Len(held)
            BY <5>1, <3>2 DEF ClientInv, HeldFirst, q
          <5>2. CASE i = h
            BY <5>2, <3>2, <1>3, <1>4
          <5> QED BY <5>1, <5>2, <3>2
        <4> QED BY <4>1, <3>1, <3>2, <1>2, <1>3, <1>5, <1>6 DEF HeldFirst, q
      <3>4. Shrunk(h, TRUE)
        BY <3>1, <1>3, <1>6 DEF Shrunk, q
      <3>5. FirstGone
        BY <3>1, <3>2, <1>3 DEF FirstGone, q
      <3> QED BY <3>2, <3>3, <3>4, <3>5
    <2>2. CASE ~(held # <<>> \/ ~IsRemoteUpTo(result, lastRemote, targets))
      <3>1. held' = held /\ held = <<>> /\ ReleaseBatchResults(<<result>>, cache)
        BY <2>2, <1>2 DEF AcknowledgeBatch
      <3>2. h = 1 /\ Len(held) = 0 /\ Len(held') = 0
        BY <3>1, <1>3
      <3> DEFINE ids == {<<result>>[i].batch.id : i \in 1..Len(<<result>>)}
                 x == Without(q, ids)
      <3>3. ids = {b.id}
        BY <1>4
      <3>4. queue' = [queue EXCEPT ![user] = x]
        BY <3>1 DEF ReleaseBatchResults, q
      <3> HIDE DEF ids
      <3>5. Cuts(q, ids, 0, 1)
        <4>1. ASSUME NEW i \in 1..Len(q)
              PROVE  q[i].id \in ids <=> i > 0 /\ i <= 0 + 1
          <5>1. i <= h <=> i = h
            BY <3>2
          <5>2. i # h => q[i].id # b.id
            BY <5>1, <1>3, <1>6
          <5> QED BY <5>2, <3>2, <3>3, <1>3
        <4> QED BY <4>1, <3>2, <1>3 DEF Cuts
      <3>6. CutOf(x, q, 0, 1)
        BY <3>5, <1>3, WithoutIs
      <3> HIDE DEF x
      <3>7. /\ x \in Seq(Batch) /\ Len(x) = Len(q) - 1
            /\ \A i \in 1..(Len(q) - 1) : i + 1 \in 1..Len(q) /\ x[i] = q[i + 1]
        BY <3>6, <1>3 DEF CutOf
      <3>8. /\ queue'[user] = x /\ queue' \in [Users -> Seq(Batch)]
            /\ \A u \in Users : u # user => queue'[u] = queue[u]
        BY <3>4, <3>7, <1>3
      <3>9. HeldFirst'
        <4>1. \A i \in 1..Len(x) : ~(x[i].id <= b.id) /\ ~(i <= 0)
          BY <3>2, <3>7, <1>3, <1>6, SMTT(30)
        <4> QED BY <4>1, <3>1, <3>2, <3>7, <3>8, <1>2, <1>3, <1>5 DEF HeldFirst
      <3>10. Shrunk(h, TRUE)
        <4>1. \A i, j \in 1..Len(x) : i < j => x[i].id < x[j].id /\ x[i].w < x[j].w
          <5>1. SUFFICES ASSUME NEW i \in 1..Len(x), NEW j \in 1..Len(x), i < j
                         PROVE  x[i].id < x[j].id /\ x[i].w < x[j].w
            OBVIOUS
          <5>2. i + 1 \in 1..Len(q) /\ j + 1 \in 1..Len(q) /\ i + 1 < j + 1
            BY <5>1, <3>7, <1>3
          <5> QED BY <5>2, <3>7, <1>6
        <4>2. \A i \in 1..Len(x) : \E j \in 1..Len(q) : x[i] = q[j]
          BY <3>7
        <4>3. ASSUME NEW j \in 1..Len(q), j > h
              PROVE  \E i \in 1..Len(x) : x[i] = q[j]
          <5>1. j - 1 \in 1..Len(x) /\ (j - 1) + 1 = j
            BY <4>3, <3>2, <3>7, <1>3
          <5> QED BY <5>1, <3>7
        <4> QED BY <4>1, <4>2, <4>3, <3>8 DEF Shrunk, q
      <3>11. FirstGone
        <4>1. \A i \in 1..(Len(x) - 0) : x[0 + i] = q[0 + 1 + i]
          <5>1. SUFFICES ASSUME NEW i \in 1..(Len(x) - 0) PROVE x[0 + i] = q[0 + 1 + i]
            OBVIOUS
          <5>2. i \in 1..(Len(q) - 1) /\ 0 + i = i /\ 0 + 1 + i = i + 1
            BY <3>7, <1>3
          <5> QED BY <5>2, <3>7
        <4> QED BY <4>1, <3>2, <3>7, <3>8, <1>3 DEF FirstGone, q
      <3> QED BY <3>1, <3>9, <3>10, <3>11, <1>3
    <2> QED BY <2>1, <2>2
  <1>8. /\ Len(Tail(pipeline)) = Len(pipeline) - 1
        /\ \A i \in 1..(Len(pipeline) - 1) : Tail(pipeline)[i] = pipeline[i + 1]
    <2>1. pipeline \in Seq(Batch)
      BY DEF ClientInv, ClientTypeOK
    <2> QED BY <2>1, <1>1
  <1>9. /\ Answers(Tail(pipeline), stream, requests) /\ responses' \in Seq(Response)
        /\ Taken \in Nat \ {0} /\ Taken' = Taken - 1 /\ (Refused' <=> Refused)
    BY <1>1, <1>2, <1>8, TailAnswers
  <1>10. requests \in Seq(Batch) /\ stream \in {"closed", "starting", "open", "ready"}
    BY DEF ClientInv, ClientTypeOK
  <1>11. ClientInv'
    BY <1>1, <1>2, <1>5, <1>7, <1>9, <1>10, SettledIs
  <1> QED BY <1>1, <1>7, <1>9, <1>11 DEF b, h

LEMMA WriteErrorKeeps ==
  ASSUME ClientInv, WriteError
  PROVE  /\ ClientInv' /\ FirstGone /\ First(Head(pipeline), Len(held) + 1)
         /\ Taken = 0 /\ Refused /\ Taken' = 0 /\ ~Refused'
  <1> DEFINE b == Head(pipeline)
             h == Len(held) + 1
             q == queue[user]
  <1>1. /\ stream = "ready" /\ Len(pipeline) \in Nat \ {0}
        /\ First(b, h) /\ Len(responses) = 1 /\ (~b.allowed \/ b.kind = "update")
        /\ responses # <<>> /\ ~Head(responses).ok
    BY FirstIs DEF WriteError
  <1>2. /\ ProcessUserCallbacks(b, FALSE) /\ RejectBatch(b)
        /\ user' = user /\ FillWritePipeline(Tail(pipeline), "closed", <<>>)
        /\ responses' = <<>> /\ held' = held /\ acked' = acked
        /\ UNCHANGED <<budget, nextBatchID, history>>
    BY DEF WriteError
  <1>3. /\ q \in Seq(Batch) /\ Len(q) \in Nat /\ user \in Users /\ h \in 1..Len(q) /\ b = q[h]
        /\ Len(held) \in Nat /\ h = Len(held) + 1 /\ b \in Batch /\ b.id \in Nat
        /\ queue \in [Users -> Seq(Batch)] /\ held \in Seq(Result)
        /\ \A i \in 1..Len(q) : q[i] \in Batch /\ q[i].id \in Nat /\ q[i].w \in Nat
    BY <1>1, View, BatchTypes DEF ClientInv, ClientTypeOK, First
  <1> DEFINE x == Without(q, {b.id})
  <1>4. queue' = [queue EXCEPT ![user] = x]
    BY <1>2 DEF RejectBatch
  <1>5. /\ Len(responses) = 1 /\ Refused /\ Taken = 0 /\ ~Refused' /\ Taken' = 0
    <2>1. 1 \in 1..Len(responses) /\ ~responses[1].ok
      BY <1>1
    <2>2. Refused /\ Taken = 0
      BY <2>1, <1>1 DEF Refused, Taken
    <2>3. Len(responses') = 0
      BY <1>2
    <2>4. ~Refused'
      BY <2>3 DEF Refused
    <2> QED BY <2>2, <2>3, <2>4, <1>1 DEF Taken
  <1> HIDE DEF b, h, q
  <1>6. /\ \A j \in 1..Len(q) : /\ j < h => q[j].id < b.id
                                /\ j > h => q[j].id > b.id
        /\ \A i, j \in 1..Len(q) : i < j => q[i].id < q[j].id /\ q[i].w < q[j].w
    <2>1. \A j \in 1..Len(q) : /\ j < h => q[j].id < b.id
                               /\ j > h => q[j].id > b.id
      BY <1>1 DEF First, q
    <2> QED BY <2>1, <1>3 DEF ClientInv, IdsInOrder, q
  <1>7. Cuts(q, {b.id}, Len(held), 1)
    <2>1. ASSUME NEW i \in 1..Len(q)
          PROVE  q[i].id \in {b.id} <=> i > Len(held) /\ i <= Len(held) + 1
      <3>1. CASE i < h
        BY <3>1, <1>3, <1>6
      <3>2. CASE i > h
        BY <3>2, <1>3, <1>6
      <3>3. CASE i = h
        BY <3>3, <1>3
      <3> QED BY <3>1, <3>2, <3>3, <1>3
    <2> QED BY <2>1, <1>3 DEF Cuts
  <1>8. CutOf(x, q, Len(held), 1)
    <2> DEFINE f == Len(held)
               ids == {b.id}
    <2>1. f \in Nat /\ 1 \in Nat /\ Cuts(q, ids, f, 1)
      BY <1>3, <1>7
    <2> HIDE DEF f, ids
    <2>2. CutOf(Without(q, ids), q, f, 1)
      BY <2>1, <1>3, WithoutIs
    <2> QED BY <2>2 DEF f, ids
  <1> HIDE DEF x
  <1>9. /\ x \in Seq(Batch) /\ Len(x) = Len(q) - 1
        /\ \A i \in 1..Len(x) : /\ i \in 1..Len(q) /\ i + 1 \in 1..Len(q)
                                /\ i <= Len(held) => x[i] = q[i]
                                /\ i > Len(held) => x[i] = q[i + 1]
    BY <1>3, <1>8 DEF CutOf
  <1>10. /\ queue'[user] = x /\ queue' \in [Users -> Seq(Batch)]
         /\ \A u \in Users : u # user => queue'[u] = queue[u]
    BY <1>3, <1>4, <1>9
  <1>11. HeldFirst'
    <2>1. Len(held) <= Len(x)
      BY <1>3, <1>9
    <2>2. \A i \in 1..Len(held) : i \in 1..Len(x) /\ x[i] = q[i]
      BY <2>1, <1>3, <1>9
    <2>3. \A i \in 1..Len(held) : held[i].batch = x[i]
      BY <2>2 DEF ClientInv, HeldFirst, q
    <2>4. ASSUME NEW i \in 1..Len(x)
          PROVE  x[i].id <= acked[user] <=> i <= Len(held)
      <3>1. CASE i <= Len(held)
        BY <3>1, <1>9 DEF ClientInv, HeldFirst, q
      <3>2. CASE i > Len(held)
        <4>1. x[i] = q[i + 1] /\ ~(i + 1 <= Len(held)) /\ i + 1 \in 1..Len(q)
          BY <3>2, <1>3, <1>9
        <4>2. ~(q[i + 1].id <= acked[user])
          BY <4>1 DEF ClientInv, HeldFirst, q
        <4> QED BY <3>2, <4>1, <4>2, <1>3
      <3> QED BY <3>1, <3>2, <1>3
    <2>5. held # <<>> => acked[user] = x[Len(held)].id
      <3>1. held # <<>> => Len(held) \in 1..Len(held)
        BY <1>3
      <3> QED BY <3>1, <2>2 DEF ClientInv, HeldFirst, q
    <2> QED BY <2>1, <2>3, <2>4, <2>5, <1>2, <1>10 DEF HeldFirst
  <1>12. Shrunk(h, FALSE)
    <2>1. ASSUME NEW i \in 1..Len(x)
          PROVE  \E j \in 1..Len(q) : x[i] = q[j] /\ j # h
                                      /\ j = IF i <= Len(held) THEN i ELSE i + 1
      <3>1. CASE i <= Len(held)
        BY <3>1, <1>3, <1>9
      <3>2. CASE i > Len(held)
        <4>1. i + 1 \in 1..Len(q) /\ x[i] = q[i + 1] /\ i + 1 # h
          BY <3>2, <1>3, <1>9
        <4> QED BY <4>1, <3>2, <1>3
      <3> QED BY <3>1, <3>2, <1>3
    <2>2. ASSUME NEW i \in 1..Len(x), NEW j \in 1..Len(x), i < j
          PROVE  x[i].id < x[j].id /\ x[i].w < x[j].w
      <3>1. PICK k \in 1..Len(q) : x[i] = q[k] /\ k = IF i <= Len(held) THEN i ELSE i + 1
        BY <2>1
      <3>2. PICK l \in 1..Len(q) : x[j] = q[l] /\ l = IF j <= Len(held) THEN j ELSE j + 1
        BY <2>1
      <3>3. k < l
        BY <3>1, <3>2, <2>2, <1>3
      <3> QED BY <3>1, <3>2, <3>3, <1>6
    <2>3. ASSUME NEW j \in 1..Len(q), j > h
          PROVE  \E i \in 1..Len(x) : x[i] = q[j]
      <3>1. j - 1 \in 1..Len(x) /\ (j - 1) + 1 = j /\ j - 1 > Len(held)
        BY <2>3, <1>3, <1>9
      <3> QED BY <3>1, <1>9
    <2> QED BY <2>1, <2>2, <2>3, <1>10 DEF Shrunk, q
  <1>13. FirstGone
    <2>1. ASSUME NEW i \in 1..(Len(x) - Len(held))
          PROVE  x[Len(held) + i] = q[Len(held) + 1 + i]
      <3>1. /\ Len(held) + i \in 1..Len(x) /\ Len(held) + i > Len(held)
            /\ (Len(held) + i) + 1 = Len(held) + 1 + i
        BY <1>3, <1>9
      <3> QED BY <3>1, <1>9
    <2>2. Len(x) - Len(held) = Len(q) - (Len(held) + 1)
      BY <1>3, <1>9
    <2> QED BY <2>1, <2>2, <1>2, <1>10 DEF FirstGone, q
  <1>14. <<>> \in Seq(Batch) /\ Answers(Tail(pipeline), "closed", <<>>)
         /\ responses' \in Seq(Response)
    <2>1. Len(responses') = 0 /\ Len(Tail(pipeline)) \in Nat /\ responses' \in Seq(Response)
      <3>1. pipeline \in Seq(Batch) /\ pipeline # <<>>
        BY <1>1 DEF ClientInv, ClientTypeOK
      <3>2. Tail(pipeline) \in Seq(Batch)
        BY <3>1
      <3> QED BY <3>2, <1>2
    <2> QED BY <2>1, <1>2 DEF Answers
  <1>15. ClientInv'
    <2>1. "closed" \in {"closed", "starting", "open", "ready"} /\ FALSE \in BOOLEAN
      OBVIOUS
    <2>2. /\ IF FALSE THEN InHistory(history, b.w) ELSE ~b.allowed \/ b.kind = "update"
          /\ acked' = IF FALSE THEN [acked EXCEPT ![user] = b.id] ELSE acked
          /\ held' \in Seq(Result)
      BY <1>1, <1>2, <1>3
    <2> QED BY <2>1, <2>2, <1>1, <1>2, <1>11, <1>12, <1>13, <1>14, SettledIs
  <1> QED BY <1>1, <1>5, <1>13, <1>15 DEF b, h

--------------------------------------------------------------------------------
(* A queue is started: after a change of user, after a restart.               *)

(* The next id is above all ids in use. *)
LEMMA NextIs ==
  ASSUME ClientInv
  PROVE  /\ LoadNextBatchID(queue) \in Nat
         /\ \A u \in Users : \A i \in 1..Len(queue[u]) :
              queue[u][i].id < LoadNextBatchID(queue)
  <1> DEFINE M == {kFSTBatchIDUnknown} \cup UNION {BatchIDs(queue[u]) : u \in Users}
  <1>1. /\ \A u \in Users : \A i \in 1..Len(queue[u]) :
             queue[u][i].id \in Nat /\ queue[u][i].id < nextBatchID
        /\ nextBatchID \in Nat
    BY View, BatchTypes DEF ClientInv, ClientTypeOK, IdsInOrder
  <1>2. /\ M \subseteq Int /\ M # {} /\ nextBatchID \in Int
        /\ \A x \in M : x <= nextBatchID
    BY <1>1 DEF BatchIDs, kFSTBatchIDUnknown
  <1>3. kFSTBatchIDUnknown \in M
    OBVIOUS
  <1>4. \A u \in Users : \A i \in 1..Len(queue[u]) : queue[u][i].id \in M
    BY DEF BatchIDs
  <1> HIDE DEF M
  <1>5. PICK m \in M : \A x \in M : x <= m
    BY <1>2, MaxExists
  <1>6. Max(M) = m
    BY <1>2, <1>5, MaxIs
  <1>7. LoadNextBatchID(queue) = m + 1
    BY <1>6 DEF LoadNextBatchID, M
  <1>8. m \in Int /\ m >= -1
    BY <1>2, <1>3, <1>5 DEF kFSTBatchIDUnknown
  <1>9. \A u \in Users : \A i \in 1..Len(queue[u]) : queue[u][i].id <= m
    BY <1>4, <1>5
  <1> QED BY <1>1, <1>7, <1>8, <1>9

(* The queue of v loses the k batches that were acknowledged, and its         *)
(* acknowledged id if it may be given again.                                  *)
Started(v, next, k) ==
  /\ next \in Nat /\ \A u \in Users : \A i \in 1..Len(queue[u]) : queue[u][i].id < next
  /\ nextBatchID' = next /\ held' = <<>>
  /\ k \in 0..Len(queue[v]) /\ Splits(queue[v], acked[v], k)
  /\ queue' \in [Users -> Seq(Batch)] /\ queue'[v] = SubSeq(queue[v], k + 1, Len(queue[v]))
  /\ \A u \in Users : u # v => queue'[u] = queue[u] /\ acked'[u] = acked[u]
  /\ acked' \in [Users -> Nat \cup {kFSTBatchIDUnknown}]
  /\ acked'[v] < next
  /\ \A i \in 1..Len(queue[v]) : i > k => queue[v][i].id > acked'[v]

LEMMA StartIs ==
  ASSUME ClientInv, NEW v \in Users, StartMutationQueue(v)
  PROVE  \E k \in 0..Len(queue[v]) : Started(v, LoadNextBatchID(queue), k)
  <1> DEFINE next == LoadNextBatchID(queue)
             last == HighestAcknowledged(v, next)
             q == queue[v]
  <1>1. /\ q \in Seq(Batch) /\ Len(q) \in Nat /\ Ordered(q)
        /\ acked[v] \in Int /\ acked[v] \in Nat \cup {kFSTBatchIDUnknown}
        /\ queue \in [Users -> Seq(Batch)]
        /\ acked \in [Users -> Nat \cup {kFSTBatchIDUnknown}]
        /\ \A i \in 1..Len(q) : q[i].id \in Nat
    BY View, BatchTypes, SMTT(30) DEF ClientInv, ClientTypeOK, kFSTBatchIDUnknown
  <1>2. /\ next \in Nat
        /\ \A u \in Users : \A i \in 1..Len(queue[u]) : queue[u][i].id < next
    BY NextIs
  <1>3. PICK k \in 0..Len(q) : Splits(q, acked[v], k)
    BY <1>1, SplitExists
  <1>4. /\ nextBatchID' = next /\ held' = <<>>
        /\ acked' = [acked EXCEPT ![v] = last]
        /\ queue' = [queue EXCEPT ![v] = After(q, last)]
    BY DEF StartMutationQueue
  <1> HIDE DEF next, q
  <1>5. /\ last \in Nat \cup {kFSTBatchIDUnknown} /\ last \in Int /\ last < next
        /\ After(q, last) = SubSeq(q, k + 1, Len(q))
        /\ \A i \in 1..Len(q) : i > k => q[i].id > last
    <2>1. CASE acked[v] >= next
      <3>1. last = -1
        BY <2>1 DEF HighestAcknowledged, kFSTBatchIDUnknown
      <3>2. q = <<>>
        <4>1. SUFFICES ASSUME q # <<>> PROVE FALSE
          OBVIOUS
        <4>2. Len(q) \in 1..Len(q)
          BY <4>1, <1>1
        <4>3. acked[v] <= q[Len(q)].id
          BY <4>1 DEF ClientInv, IdsInOrder, q
        <4>4. q[Len(q)].id < next /\ q[Len(q)].id \in Nat
          BY <4>2, <1>1, <1>2 DEF q
        <4> QED BY <4>3, <4>4, <2>1, <1>1, <1>2
      <3>3. Len(q) = 0 /\ k = 0
        BY <3>2
      <3>4. Splits(q, last, k)
        BY <3>3 DEF Splits
      <3> HIDE DEF last
      <3>5. last \in Int
        BY <3>1
      <3>6. After(q, last) = SubSeq(q, k + 1, Len(q))
        BY <3>4, <3>5, <1>1, AfterIs
      <3> QED BY <3>1, <3>3, <3>6, <1>2 DEF kFSTBatchIDUnknown
    <2>2. CASE ~(acked[v] >= next)
      <3>1. last = acked[v]
        BY <2>2 DEF HighestAcknowledged
      <3> HIDE DEF last
      <3>2. After(q, last) = SubSeq(q, k + 1, Len(q))
        BY <3>1, <1>1, <1>3, AfterIs
      <3>3. \A i \in 1..Len(q) : i > k => ~(q[i].id <= acked[v])
        BY <1>1, <1>3 DEF Splits
      <3> QED BY <3>1, <3>2, <3>3, <2>2, <1>1, <1>2
    <2> QED BY <2>1, <2>2
  <1> HIDE DEF last
  <1>6. SubSeq(q, k + 1, Len(q)) \in Seq(Batch)
    BY <1>1
  <1>7. /\ queue' \in [Users -> Seq(Batch)] /\ queue'[v] = SubSeq(q, k + 1, Len(q))
        /\ \A u \in Users : u # v => queue'[u] = queue[u]
    BY <1>1, <1>4, <1>5, <1>6
  <1>8. /\ acked' \in [Users -> Nat \cup {kFSTBatchIDUnknown}] /\ acked'[v] = last
        /\ \A u \in Users : u # v => acked'[u] = acked[u]
    BY <1>1, <1>4, <1>5
  <1>9. Started(v, next, k)
    BY <1>2, <1>3, <1>4, <1>5, <1>7, <1>8 DEF Started, q
  <1> QED BY <1>3, <1>9 DEF next, q

LEMMA StartKeeps ==
  ASSUME ClientInv, NEW v \in Users, NEW next, NEW k, Started(v, next, k), user' = v,
         UNCHANGED <<history, outcome, settled, calls>>,
         callbacks' \in [Users -> SUBSET [id : Nat, w : Nat]],
         \A u \in Users : callbacks'[u] \subseteq callbacks[u],
         budget' \in Bounds, budget'["write"] <= budget["write"],
         FillWritePipeline(<<>>, "closed", <<>>), responses' = <<>>
  PROVE  ClientInv' /\ \A u \in Users : Unacknowledged(u)' = Unacknowledged(u)
  <1> DEFINE q == queue[v]
             p == queue'[v]
  <1>1. /\ q \in Seq(Batch) /\ Len(q) \in Nat /\ k \in 0..Len(q) /\ k \in Nat
        /\ p = SubSeq(q, k + 1, Len(q)) /\ queue' \in [Users -> Seq(Batch)]
        /\ \A i \in 1..Len(q) : q[i] \in Batch /\ q[i].id \in Nat /\ q[i].w \in Nat
        /\ acked[v] \in Int /\ acked'[v] \in Int /\ acked'[v] < next /\ next \in Nat
    <2>1. /\ q \in Seq(Batch) /\ acked[v] \in Int
      BY View DEF ClientInv, ClientTypeOK, kFSTBatchIDUnknown
    <2>2. acked'[v] \in Int
      BY DEF Started, kFSTBatchIDUnknown
    <2> QED BY <2>1, <2>2, BatchTypes DEF Started
  <1>2. /\ p \in Seq(Batch) /\ Len(p) = Len(q) - k
        /\ \A i \in 1..Len(p) : k + i \in 1..Len(q) /\ k + i > k /\ p[i] = q[k + i]
    <2> HIDE DEF q, p
    <2>1. /\ q \in Seq(Batch) /\ Len(q) \in Nat /\ k \in Nat /\ k <= Len(q)
          /\ p = SubSeq(q, k + 1, Len(q))
      BY <1>1
    <2>2. /\ p \in Seq(Batch) /\ Len(p) = Len(q) - k
          /\ \A i \in 1..(Len(q) - k) : p[i] = q[k + i]
      BY <2>1
    <2>3. \A i \in 1..(Len(q) - k) : k + i \in 1..Len(q) /\ k + i > k
      BY <2>1
    <2> QED BY <2>2, <2>3
  <1>3. /\ \A u \in Users : u # v => queue'[u] = queue[u] /\ acked'[u] = acked[u]
        /\ nextBatchID' = next /\ held' = <<>>
        /\ \A u \in Users : \A i \in 1..Len(queue[u]) : queue[u][i].id < next
        /\ \A i \in 1..Len(q) : i > k => q[i].id > acked'[v]
        /\ acked' \in [Users -> Nat \cup {kFSTBatchIDUnknown}]
        /\ \A i \in 1..Len(q) : q[i].id <= acked[v] <=> i <= k
    BY DEF Started, Splits
  <1> HIDE DEF q, p
  <1>4. ASSUME NEW u \in Users, NEW i \in 1..Len(queue'[u])
        PROVE  \E j \in 1..Len(queue[u]) :
                 /\ queue'[u][i] = queue[u][j]
                 /\ queue'[u][i].id <= acked'[u] <=> queue[u][j].id <= acked[u]
    <2>1. CASE u # v
      BY <2>1, <1>3
    <2>2. CASE u = v
      <3>1. i \in 1..Len(p)
        BY <2>2 DEF p
      <3>2. /\ k + i \in 1..Len(q) /\ p[i] = q[k + i] /\ ~(q[k + i].id <= acked[v])
            /\ q[k + i].id > acked'[v] /\ q[k + i].id \in Nat
        <4>1. k + i \in 1..Len(q) /\ k + i > k /\ p[i] = q[k + i]
          BY <3>1, <1>2
        <4>2. ~(k + i <= k)
          BY <4>1, <1>1
        <4>3. q[k + i].id > acked'[v] /\ q[k + i].id \in Nat
          BY <4>1, <1>1, <1>3
        <4>4. ~(q[k + i].id <= acked[v])
          BY <4>1, <4>2, <1>3
        <4> QED BY <4>1, <4>3, <4>4
      <3>3. ~(q[k + i].id <= acked'[v])
        BY <3>2, <1>1, SMTT(30)
      <3> QED BY <2>2, <3>2, <3>3 DEF p, q
    <2> QED BY <2>1, <2>2
  <1>5. ASSUME NEW u \in Users, NEW i \in 1..Len(queue[u]), queue[u][i].id > acked[u]
        PROVE  \E j \in 1..Len(queue'[u]) :
                 queue'[u][j] = queue[u][i] /\ queue'[u][j].id > acked'[u]
    <2>1. CASE u # v
      BY <2>1, <1>3, <1>5
    <2>2. CASE u = v
      <3>1. i \in 1..Len(q) /\ ~(q[i].id <= acked[v])
        BY <2>2, <1>1, <1>5 DEF q
      <3>2. i > k
        BY <3>1, <1>1, <1>3
      <3>3. i - k \in 1..Len(p) /\ k + (i - k) = i
        <4>1. i \in Nat /\ i <= Len(q) /\ Len(q) \in Nat /\ k \in Nat /\ Len(p) = Len(q) - k
          BY <3>1, <1>1, <1>2
        <4> QED BY <4>1, <3>2
      <3>4. p[i - k] = q[i] /\ q[i].id > acked'[v]
        BY <3>1, <3>2, <3>3, <1>2, <1>3
      <3> QED BY <2>2, <3>3, <3>4 DEF p, q
    <2> QED BY <2>1, <2>2
  <1>6. HeldFirst'
    <2>1. \A i \in 1..Len(p) : ~(p[i].id <= acked'[v])
      <3>1. SUFFICES ASSUME NEW i \in 1..Len(p) PROVE ~(p[i].id <= acked'[v])
        OBVIOUS
      <3>2. q[k + i].id > acked'[v] /\ q[k + i].id \in Nat /\ p[i] = q[k + i]
        <4>1. k + i \in 1..Len(q) /\ k + i > k /\ p[i] = q[k + i]
          BY <1>2
        <4> QED BY <4>1, <1>1, <1>3
      <3>3. p[i].id > acked'[v] /\ p[i].id \in Nat /\ acked'[v] \in Int
        BY <3>2, <1>1
      <3> QED BY <3>3
    <2>2. Len(held') = 0 /\ Len(p) \in Nat
      BY <1>2, <1>3
    <2> QED BY <2>1, <2>2, <1>3 DEF HeldFirst, p
  <1>7. ASSUME NEW u \in Users, NEW i \in 1..Len(queue'[u]), NEW j \in 1..Len(queue'[u]), i < j
        PROVE  queue'[u][i].id < queue'[u][j].id /\ queue'[u][i].w < queue'[u][j].w
    <2>1. CASE u # v
      BY <2>1, <1>3, <1>7 DEF ClientInv, IdsInOrder
    <2>2. CASE u = v
      <3>1. /\ k + i \in 1..Len(q) /\ k + j \in 1..Len(q) /\ k + i < k + j
            /\ p[i] = q[k + i] /\ p[j] = q[k + j]
        BY <2>2, <1>1, <1>2, <1>7 DEF p
      <3>2. q[k + i].id < q[k + j].id /\ q[k + i].w < q[k + j].w
        BY <3>1 DEF ClientInv, IdsInOrder, q
      <3> QED BY <2>2, <3>1, <3>2 DEF p
    <2> QED BY <2>1, <2>2
  <1>8. Ordered(queue'[user'])
    BY <1>7 DEF Ordered
  <1>9. IdsInOrder'
    <2>1. \A u \in Users : \A i \in 1..Len(queue'[u]) : queue'[u][i].id < nextBatchID'
      BY <1>3, <1>4
    <2>2. acked'[user'] < nextBatchID'
      BY <1>1, <1>3
    <2>3. ASSUME NEW u \in Users, queue'[u] # <<>>
          PROVE  acked'[u] <= queue'[u][Len(queue'[u])].id
      <3>1. CASE u # v
        BY <3>1, <2>3, <1>3 DEF ClientInv, IdsInOrder
      <3>2. CASE u = v
        <4>1. held' \in Seq(Result)
          BY <1>3
        <4> QED BY <3>2, <4>1, <2>3, <1>1, <1>6, <1>8, LastAfterHeld
      <3> QED BY <3>1, <3>2
    <2> QED BY <1>7, <2>1, <2>2, <2>3 DEF IdsInOrder
  <1>10. /\ PipelineNext' /\ AnswersInOrder'
         /\ pipeline' \in Seq(Batch) /\ requests' \in Seq(Batch)
         /\ stream' \in {"closed", "starting", "open", "ready"}
    <2>1. /\ queue'[user'] \in Seq(Batch) /\ Ordered(queue'[user'])
          /\ acked'[user'] \in Nat \cup {kFSTBatchIDUnknown}
          /\ Len(held') = 0 /\ Len(held') \in Nat
      BY <1>1, <1>3, <1>8
    <2>2. Splits(queue'[user'], acked'[user'], Len(held'))
      <3>1. Len(held') \in 0..Len(queue'[user'])
        BY <2>1
      <3> QED BY <3>1, <1>6 DEF Splits, HeldFirst
    <2> DEFINE e == <<>>
               s == "closed"
    <2>3. /\ e \in Seq(Batch) /\ Follows(e, Len(held')) /\ Answers(e, s, e)
          /\ FillWritePipeline(e, s, e) /\ responses' \in Seq(Response)
          /\ s \in {"closed", "starting", "open", "ready"}
      <3>1. Len(responses') = 0 /\ Len(e) = 0 /\ 0 + 0 <= Len(queue'[user'])
        BY <2>1
      <3>2. Follows(e, Len(held'))
        BY <3>1, <2>1 DEF Follows
      <3>3. Answers(e, s, e)
        BY <3>1 DEF Answers
      <3> QED BY <3>2, <3>3
    <2> HIDE DEF e, s
    <2> QED BY <2>1, <2>2, <2>3, FilledKeeps
  <1>11. QueuesPending'
    <2>1. ASSUME NEW u \in Users, NEW i \in 1..Len(queue'[u])
          PROVE  /\ queue'[u][i].w \in 1..Len(outcome)
                 /\ outcome[queue'[u][i].w].user = u
                 /\ outcome[queue'[u][i].w].kind = queue'[u][i].kind
                 /\ outcome[queue'[u][i].w].result
                      = (IF queue'[u][i].id <= acked'[u] THEN "ok" ELSE "pending")
      <3>1. PICK j \in 1..Len(queue[u]) :
              /\ queue'[u][i] = queue[u][j]
              /\ queue'[u][i].id <= acked'[u] <=> queue[u][j].id <= acked[u]
        BY <1>4
      <3> QED BY <3>1 DEF ClientInv, QueuesPending
    <2>2. ASSUME NEW w \in 1..Len(outcome), outcome[w].result = "pending"
          PROVE  \E i \in 1..Len(queue'[outcome[w].user]) :
                   /\ queue'[outcome[w].user][i].w = w
                   /\ queue'[outcome[w].user][i].id > acked'[outcome[w].user]
      <3>1. outcome[w].user \in Users
        <4>1. outcome[w] \in Outcome
          BY DEF ClientInv, ClientTypeOK
        <4> QED BY <4>1 DEF Outcome
      <3>2. PICK i \in 1..Len(queue[outcome[w].user]) :
              /\ queue[outcome[w].user][i].w = w
              /\ queue[outcome[w].user][i].id > acked[outcome[w].user]
        BY <2>2 DEF ClientInv, QueuesPending
      <3> QED BY <3>1, <3>2, <1>5, SMTT(30)
    <2>3. \A w, x \in 1..Len(outcome) :
            /\ outcome[w].user = outcome[x].user
            /\ outcome[w].result # "pending" /\ outcome[x].result = "pending"
            => w < x
      BY DEF ClientInv, QueuesPending
    <2> QED BY <2>1, <2>2, <2>3, SMTT(30) DEF QueuesPending
  <1>12. OutcomesTrue'
    <2>1. \A u \in Users : \A i \in 1..Len(queue'[u]) :
            \E j \in 1..Len(queue[u]) : queue'[u][i] = queue[u][j]
      BY <1>4
    <2> QED BY <2>1 DEF ClientInv, OutcomesTrue
  <1>13. CallsTrue'
    <2>1. ASSUME NEW u \in Users, NEW c \in callbacks'[u]
          PROVE  \E i \in 1..Len(queue'[u]) :
                   /\ queue'[u][i].id > acked'[u]
                   /\ queue'[u][i].id = c.id /\ queue'[u][i].w = c.w
      <3>1. PICK i \in 1..Len(queue[u]) :
              queue[u][i].id > acked[u] /\ queue[u][i].id = c.id /\ queue[u][i].w = c.w
        BY DEF ClientInv, CallsTrue
      <3> QED BY <3>1, <1>5, SMTT(30)
    <2> QED BY <2>1 DEF ClientInv, CallsTrue
  <1>14. WritesNumbered'
    <2>1. /\ budget["write"] \in Nat /\ budget'["write"] \in Nat /\ Len(outcome) \in Nat
          /\ Max({c["write"] : c \in Budgets}) \in Nat
          /\ Len(outcome) + budget["write"] <= Max({c["write"] : c \in Budgets})
      BY DEF ClientInv, ClientTypeOK, WritesNumbered, Bounds
    <2>2. Len(outcome) + budget'["write"] <= Max({c["write"] : c \in Budgets})
      BY <2>1
    <2> QED BY <2>2 DEF ClientInv, WritesNumbered
  <1>15. ClientTypeOK'
    <2>1. user' \in Users /\ nextBatchID' \in Nat /\ held' \in Seq(Result)
      BY <1>1, <1>3
    <2>2. queue' \in [Users -> Seq(Batch)] /\ responses' \in Seq(Response)
      BY <1>1
    <2> QED BY <2>1, <2>2, <1>3, <1>10 DEF ClientInv, ClientTypeOK
  <1>16. ClientInv'
    BY <1>6, <1>9, <1>10, <1>11, <1>12, <1>13, <1>14, <1>15 DEF ClientInv
  <1>17. ASSUME NEW u \in Users
         PROVE  Unacknowledged(u)' = Unacknowledged(u)
    <2>1. CASE u # v
      BY <2>1, <1>3 DEF Unacknowledged
    <2>2. CASE u = v
      <3>1. After(q, acked[v]) = p
        <4>1. Splits(q, acked[v], k)
          BY DEF Started, q
        <4> QED BY <4>1, <1>1, AfterIs
      <3>2. After(p, acked'[v]) = SubSeq(p, 1, Len(p))
        <4> DEFINE z == 0
        <4>1. z \in 0..Len(p) /\ Splits(p, acked'[v], z)
          <5>1. \A i \in 1..Len(p) : p[i].id <= acked'[v] <=> i <= 0
            BY <1>2, <1>3, <1>6 DEF HeldFirst, p
          <5>2. Len(p) \in Nat
            BY <1>2
          <5> QED BY <5>1, <5>2 DEF Splits
        <4> HIDE DEF z
        <4>2. After(p, acked'[v]) = SubSeq(p, z + 1, Len(p))
          BY <4>1, <1>1, <1>2, AfterIs
        <4> QED BY <4>2 DEF z
      <3>3. SubSeq(p, 1, Len(p)) = p
        BY <1>2
      <3> QED BY <2>2, <3>1, <3>2, <3>3 DEF Unacknowledged, p, q
    <2> QED BY <2>1, <2>2
  <1> QED BY <1>16, <1>17

LEMMA CredentialDidChangeKeeps ==
  ASSUME ClientInv, NEW v \in Users, CredentialDidChange(v)
  PROVE  ClientInv' /\ \A u \in Users : Unacknowledged(u)' = Unacknowledged(u)
  <1>1. /\ Spend("user") /\ user' = v /\ responses' = <<>>
        /\ FillWritePipeline(<<>>, "closed", <<>>)
        /\ UNCHANGED <<callbacks, history, outcome, settled, calls>>
    BY DEF CredentialDidChange
  <1>2. budget' \in Bounds /\ budget'["write"] <= budget["write"]
    BY <1>1, SpendKeeps DEF Counted
  <1>3. callbacks \in [Users -> SUBSET [id : Nat, w : Nat]]
    BY DEF ClientInv, ClientTypeOK
  <1>4. CASE v # user
    <2>1. PICK k \in 0..Len(queue[v]) : Started(v, LoadNextBatchID(queue), k)
      BY <1>4, StartIs DEF CredentialDidChange
    <2> QED BY <2>1, <1>1, <1>2, <1>3, StartKeeps
  <1>5. CASE v = user
    <2>1. UNCHANGED <<nextBatchID, acked, held, queue>>
      BY <1>5 DEF CredentialDidChange
    <2>2. /\ queue'[user'] \in Seq(Batch) /\ Ordered(queue'[user'])
          /\ acked'[user'] \in Nat \cup {kFSTBatchIDUnknown}
          /\ Len(held') \in Nat /\ Splits(queue'[user'], acked'[user'], Len(held'))
          /\ Len(held) <= Len(queue[user]) /\ Len(queue[user]) \in Nat
      BY <2>1, <1>1, <1>5, View DEF ClientInv, ClientTypeOK, HeldFirst
    <2> DEFINE e == <<>>
               s == "closed"
    <2>3. /\ e \in Seq(Batch) /\ Follows(e, Len(held')) /\ Answers(e, s, e)
          /\ FillWritePipeline(e, s, e) /\ responses' \in Seq(Response)
          /\ s \in {"closed", "starting", "open", "ready"}
      <3>1. Len(responses') = 0 /\ Len(e) = 0
        BY <1>1
      <3>2. Len(held') + 0 <= Len(queue'[user'])
        BY <2>1, <2>2, <1>1, <1>5
      <3>3. Follows(e, Len(held'))
        BY <3>1, <3>2 DEF Follows
      <3>4. Answers(e, s, e)
        BY <3>1, <1>1 DEF Answers
      <3> QED BY <3>3, <3>4, <1>1
    <2> HIDE DEF e, s
    <2>4. /\ PipelineNext' /\ AnswersInOrder'
          /\ pipeline' \in Seq(Batch) /\ requests' \in Seq(Batch)
          /\ stream' \in {"closed", "starting", "open", "ready"}
      BY <2>2, <2>3, FilledKeeps
    <2>5. user' = user
      BY <1>1, <1>5
    <2>6. /\ IdsInOrder' /\ HeldFirst' /\ QueuesPending' /\ CallsTrue'
      <3>1. IdsInOrder'
        BY <2>1, <2>5 DEF ClientInv, IdsInOrder
      <3>2. HeldFirst'
        BY <2>1, <2>5 DEF ClientInv, HeldFirst
      <3>3. QueuesPending'
        BY <1>1, <2>1 DEF ClientInv, QueuesPending
      <3>4. CallsTrue'
        BY <1>1, <2>1 DEF ClientInv, CallsTrue
      <3> QED BY <3>1, <3>2, <3>3, <3>4
    <2>7. OutcomesTrue'
      BY <1>1, <2>1, HistoryStays
    <2>8. WritesNumbered'
      <3>1. /\ budget["write"] \in Nat /\ budget'["write"] \in Nat /\ Len(outcome) \in Nat
            /\ Max({c["write"] : c \in Budgets}) \in Nat
            /\ Len(outcome) + budget["write"] <= Max({c["write"] : c \in Budgets})
        BY <1>2 DEF ClientInv, ClientTypeOK, WritesNumbered, Bounds
      <3>2. Len(outcome) + budget'["write"] <= Max({c["write"] : c \in Budgets})
        BY <3>1, <1>2
      <3> QED BY <3>2, <1>1 DEF ClientInv, WritesNumbered
    <2>9. ClientTypeOK'
      BY <1>1, <1>2, <2>1, <2>3, <2>4, <2>5 DEF ClientInv, ClientTypeOK
    <2>10. ClientInv'
      BY <2>4, <2>6, <2>7, <2>8, <2>9 DEF ClientInv
    <2> QED BY <2>1, <2>10 DEF Unacknowledged
  <1> QED BY <1>4, <1>5

LEMMA RestartKeeps ==
  ASSUME ClientInv, Restart
  PROVE  ClientInv' /\ \A u \in Users : Unacknowledged(u)' = Unacknowledged(u)
  <1>1. /\ Spend("restart") /\ user' = user /\ responses' = <<>>
        /\ FillWritePipeline(<<>>, "closed", <<>>)
        /\ callbacks' = [u \in Users |-> {}] /\ StartMutationQueue(user)
        /\ UNCHANGED <<history, outcome, settled, calls>>
    BY DEF Restart
  <1>2. budget' \in Bounds /\ budget'["write"] <= budget["write"]
    BY <1>1, SpendKeeps DEF Counted
  <1>3. user \in Users
    BY DEF ClientInv, ClientTypeOK
  <1>4. /\ callbacks' \in [Users -> SUBSET [id : Nat, w : Nat]]
        /\ \A u \in Users : callbacks'[u] \subseteq callbacks[u]
    BY <1>1
  <1>5. PICK k \in 0..Len(queue[user]) : Started(user, LoadNextBatchID(queue), k)
    BY <1>1, <1>3, StartIs
  <1> QED BY <1>1, <1>2, <1>3, <1>4, <1>5, StartKeeps

--------------------------------------------------------------------------------
(* The invariant. *)

LEMMA DocsOfBudget == ClientInv => budget.docs \subseteq Docs
  BY SMTT(30) DEF ClientInv, ClientTypeOK, Bounds

LEMMA NextKeeps == ClientInv /\ [Next]_vars => ClientInv'
  <1> SUFFICES ASSUME ClientInv, [Next]_vars
               PROVE  ClientInv'
    OBVIOUS
  <1>1. ASSUME NEW d \in budget.docs, NEW kind \in {"set", "update", "delete"},
               NEW allowed \in BOOLEAN, Write(kind, d, allowed)
        PROVE  ClientInv'
    <2>1. d \in Docs /\ kind \in Kinds
      BY DocsOfBudget DEF Kinds
    <2>2. PICK b \in Batch : Written(b)
      BY <1>1, <2>1, WriteIs
    <2> QED BY <2>2, WriteKeeps
  <1>2. ASSUME NEW d \in budget.docs, Listen(d)
        PROVE  ClientInv'
    <2>1. d \in Docs
      BY DocsOfBudget
    <2> QED BY <1>2, <2>1, ListenKeeps
  <1>3. ASSUME NEW d \in budget.docs, StopListening(d)
        PROVE  ClientInv'
    BY <1>3, StopListeningKeeps
  <1>4. ASSUME Client
        PROVE  ClientInv'
    BY <1>4, StreamOpensKeeps, HandshakeCompletesKeeps, WriteResponseKeeps, WriteErrorKeeps,
       IdleClosesKeeps DEF Client
  <1>5. ASSUME NEW v \in 1..Version, WatchSnapshot(v)
        PROVE  ClientInv'
    BY <1>5, WatchSnapshotKeeps
  <1>6. ASSUME NEW kind \in {"set", "delete"}, NEW d \in budget.docs, OtherWrites(kind, d)
        PROVE  ClientInv'
    <2>1. d \in Docs
      BY DocsOfBudget
    <2> QED BY <1>6, <2>1, OtherWritesKeeps
  <1>7. ASSUME UNCHANGED vars
        PROVE  ClientInv'
    <2>1. /\ UNCHANGED <<queue, acked, user, nextBatchID, callbacks, held, pipeline, outcome,
                         settled, calls, history, stream, requests, responses, budget>>
      BY <1>7 DEF vars, persisted, memory, remote, ghosts
    <2>2. /\ history \in Seq(Commitment) /\ history # <<>>
          /\ stream \in {"closed", "starting", "open", "ready"}
          /\ requests \in Seq(Batch) /\ responses \in Seq(Response)
          /\ budget \in Bounds /\ budget["write"] <= budget["write"]
      BY BudgetIs, SMTT(30) DEF ClientInv, ClientTypeOK
    <2>3. AnswersInOrder'
      BY <2>1, AnswersStay
    <2> QED BY <2>1, <2>2, <2>3, HistoryStays, QueueStays
  <1>8. CASE App
    BY <1>8, <1>1, <1>2, <1>3 DEF App
  <1>9. CASE Backend
    BY <1>9, <1>5, <1>6, ServerTakesKeeps, ServerRefusesKeeps DEF Backend
  <1>10. ASSUME NEW v \in Users, CredentialDidChange(v)
         PROVE  ClientInv'
    BY <1>10, CredentialDidChangeKeeps
  <1> QED BY <1>4, <1>7, <1>8, <1>9, <1>10, StreamBreaksKeeps, RestartKeeps DEF Next

(* The invariant holds in every reachable state, for every number of users,   *)
(* documents and writes, every limit of the pipeline, whatever is lost, and   *)
(* however often the user changes and the app is started again.               *)
THEOREM ClientInvariant == Spec => []ClientInv
  BY ClientInvInit, NextKeeps, PTL DEF Spec

--------------------------------------------------------------------------------
(* What it says of the properties. *)

LEMMA UnacknowledgedIs ==
  ASSUME ClientInv, NEW u \in Users
  PROVE  \E k \in 0..Len(queue[u]) :
           /\ Splits(queue[u], acked[u], k)
           /\ Unacknowledged(u) = SubSeq(queue[u], k + 1, Len(queue[u]))
           /\ Unacknowledged(u) \in Seq(Batch)
           /\ Len(Unacknowledged(u)) = Len(queue[u]) - k
           /\ \A i \in 1..(Len(queue[u]) - k) :
                k + i \in 1..Len(queue[u]) /\ Unacknowledged(u)[i] = queue[u][k + i]
  <1> DEFINE q == queue[u]
  <1>1. q \in Seq(Batch) /\ Ordered(q) /\ acked[u] \in Int /\ Len(q) \in Nat
    <2>1. q \in Seq(Batch) /\ Ordered(q) /\ acked[u] \in Int
      BY View DEF ClientInv, ClientTypeOK, kFSTBatchIDUnknown
    <2> QED BY <2>1
  <1> HIDE DEF q
  <1>2. PICK k \in 0..Len(q) : Splits(q, acked[u], k)
    BY <1>1, SplitExists
  <1>3. After(q, acked[u]) = SubSeq(q, k + 1, Len(q))
    BY <1>1, <1>2, AfterIs
  <1>4. /\ SubSeq(q, k + 1, Len(q)) \in Seq(Batch)
        /\ Len(SubSeq(q, k + 1, Len(q))) = Len(q) - k
        /\ \A i \in 1..(Len(q) - k) : SubSeq(q, k + 1, Len(q))[i] = q[k + i]
    BY <1>1, <1>2
  <1>5. \A i \in 1..(Len(q) - k) : k + i \in 1..Len(q)
    BY <1>1, <1>2
  <1>6. Unacknowledged(u) = SubSeq(q, k + 1, Len(q))
    BY <1>3 DEF Unacknowledged, q
  <1> QED BY <1>2, <1>4, <1>5, <1>6 DEF q

(* Two prefixes that agree. *)
LEMMA PrefixIs ==
  ASSUME NEW S, NEW s \in Seq(S), NEW t \in Seq(S), Len(s) <= Len(t),
         \A i \in 1..Len(s) : s[i] = t[i]
  PROVE  IsPrefix(s, t)
  <1>1. Len(s) \in Nat /\ Len(t) \in Nat
    OBVIOUS
  <1>2. /\ SubSeq(s, 1, Len(s)) \in Seq(S) /\ Len(SubSeq(s, 1, Len(s))) = Len(s)
        /\ \A i \in 1..Len(s) : SubSeq(s, 1, Len(s))[i] = s[i]
    BY <1>1
  <1>3. /\ SubSeq(t, 1, Len(s)) \in Seq(S) /\ Len(SubSeq(t, 1, Len(s))) = Len(s)
        /\ \A i \in 1..Len(s) : SubSeq(t, 1, Len(s))[i] = t[i]
    BY <1>1
  <1> DEFINE x == SubSeq(s, 1, Len(s))
             y == SubSeq(t, 1, Len(s))
  <1>4. x \in Seq(S) /\ y \in Seq(S) /\ Len(x) = Len(y) /\ \A i \in 1..Len(x) : x[i] = y[i]
    BY <1>2, <1>3
  <1> HIDE DEF x, y
  <1>5. x = y
    BY <1>4
  <1> QED BY <1>5 DEF x, y, IsPrefix

LEMMA ConcatIs ==
  ASSUME NEW S, NEW s \in Seq(S), NEW t \in Seq(S)
  PROVE  /\ s \o t \in Seq(S) /\ Len(s \o t) = Len(s) + Len(t)
         /\ \A i \in 1..Len(s) : (s \o t)[i] = s[i]
         /\ \A i \in 1..Len(t) : (s \o t)[Len(s) + i] = t[i]
  OBVIOUS

LEMMA EqualElements ==
  ASSUME NEW S, NEW s \in Seq(S), NEW t \in Seq(S), Len(s) = Len(t),
         \A i \in 1..Len(s) : s[i] = t[i]
  PROVE  s = t
  OBVIOUS

LEMMA WsType ==
  ASSUME NEW s, Len(s) \in Nat, \A i \in 1..Len(s) : s[i].w \in Nat
  PROVE  /\ Ws(s) \in Seq(Nat) /\ Len(Ws(s)) = Len(s)
         /\ \A i \in 1..Len(s) : Ws(s)[i] = s[i].w
  BY DEF Ws

LEMMA MatchFromInv == ClientInv => ResponsesMatchPipeline
  <1> SUFFICES ASSUME ClientInv PROVE ResponsesMatchPipeline
    OBVIOUS
  <1>1. /\ pipeline \in Seq(Batch) /\ requests \in Seq(Batch) /\ responses \in Seq(Response)
        /\ Len(pipeline) \in Nat /\ Len(requests) \in Nat /\ Len(responses) \in Nat
        /\ \A i \in 1..Len(pipeline) : pipeline[i].w \in Nat
        /\ \A i \in 1..Len(requests) : requests[i].w \in Nat
        /\ \A i \in 1..Len(responses) : responses[i].w \in Nat
    <2>1. /\ pipeline \in Seq(Batch) /\ requests \in Seq(Batch) /\ responses \in Seq(Response)
      BY DEF ClientInv, ClientTypeOK
    <2>2. \A i \in 1..Len(responses) : responses[i] \in Response
      BY <2>1
    <2>3. \A i \in 1..Len(responses) : responses[i].w \in Nat
      BY <2>2 DEF Response
    <2> QED BY <2>1, <2>3, BatchTypes
  <1>2. IsPrefix(pipeline, Unacknowledged(user))
    <2> DEFINE q == queue[user]
               x == SubSeq(q, Len(held) + 1, Len(q))
    <2>1. /\ q \in Seq(Batch) /\ Len(q) \in Nat /\ Len(held) \in Nat
          /\ Unacknowledged(user) = x
      BY View
    <2>2. Len(held) + Len(pipeline) <= Len(q)
      BY DEF ClientInv, PipelineNext
    <2>3. \A i \in 1..Len(pipeline) : pipeline[i] = q[Len(held) + i]
      BY DEF ClientInv, PipelineNext
    <2> HIDE DEF q
    <2>4. /\ x \in Seq(Batch) /\ Len(x) = Len(q) - Len(held)
          /\ \A i \in 1..(Len(q) - Len(held)) : x[i] = q[Len(held) + i]
      BY <2>1, <2>2, <1>1
    <2>5. Len(pipeline) <= Len(x) /\ \A i \in 1..Len(pipeline) : pipeline[i] = x[i]
      <3>1. Len(pipeline) <= Len(x)
        BY <2>1, <2>2, <2>4, <1>1
      <3>2. \A i \in 1..Len(pipeline) : i \in 1..(Len(q) - Len(held))
        BY <2>1, <2>2, <1>1
      <3> QED BY <3>1, <3>2, <2>3, <2>4
    <2> HIDE DEF x
    <2> QED BY <2>1, <2>4, <2>5, <1>1, PrefixIs
  <1>3. /\ Ws(pipeline) \in Seq(Nat) /\ Len(Ws(pipeline)) = Len(pipeline)
        /\ \A i \in 1..Len(pipeline) : Ws(pipeline)[i] = pipeline[i].w
    BY <1>1, WsType
  <1>4. /\ Ws(responses) \in Seq(Nat) /\ Len(Ws(responses)) = Len(responses)
        /\ \A i \in 1..Len(responses) : Ws(responses)[i] = responses[i].w
    BY <1>1, WsType
  <1>5. /\ Ws(requests) \in Seq(Nat) /\ Len(Ws(requests)) = Len(requests)
        /\ \A i \in 1..Len(requests) : Ws(requests)[i] = requests[i].w
    BY <1>1, WsType
  <1>6. /\ Len(responses) <= Len(pipeline)
        /\ \A i \in 1..Len(responses) : responses[i].w = pipeline[i].w
    BY DEF ClientInv, AnswersInOrder
  <1>7. CASE Refused
    <2>1. Len(Ws(responses)) <= Len(Ws(pipeline))
          /\ \A i \in 1..Len(Ws(responses)) : Ws(responses)[i] = Ws(pipeline)[i]
      BY <1>1, <1>3, <1>4, <1>6
    <2>2. IsPrefix(Ws(responses), Ws(pipeline))
      BY <2>1, <1>3, <1>4, PrefixIs
    <2> QED BY <1>2, <1>7, <2>2 DEF ResponsesMatchPipeline, Refused
  <1>8. CASE ~Refused /\ stream = "ready"
    <2> DEFINE k == Len(responses)
               x == Ws(responses) \o Ws(requests)
    <2>1. Taken = k
      BY <1>8 DEF Taken
    <2>2. /\ Len(requests) = Len(pipeline) - k
          /\ \A i \in 1..Len(requests) : requests[i] = pipeline[k + i]
      BY <1>8, <2>1 DEF ClientInv, AnswersInOrder
    <2>3. /\ x \in Seq(Nat) /\ Len(x) = k + Len(requests)
          /\ \A i \in 1..k : x[i] = Ws(responses)[i]
          /\ \A i \in 1..Len(requests) : x[k + i] = Ws(requests)[i]
      <3> DEFINE a == Ws(responses)
                 b == Ws(requests)
      <3>1. /\ a \in Seq(Nat) /\ Len(a) = k /\ b \in Seq(Nat) /\ Len(b) = Len(requests)
        BY <1>4, <1>5
      <3> HIDE DEF a, b
      <3>2. /\ a \o b \in Seq(Nat) /\ Len(a \o b) = Len(a) + Len(b)
            /\ \A i \in 1..Len(a) : (a \o b)[i] = a[i]
            /\ \A i \in 1..Len(b) : (a \o b)[Len(a) + i] = b[i]
        <4>1. a \in Seq(Nat) /\ b \in Seq(Nat)
          BY <3>1
        <4> QED BY <4>1
      <3> QED BY <3>1, <3>2 DEF a, b
    <2>4. Len(x) = Len(pipeline)
      BY <2>2, <2>3, <1>1
    <2> HIDE DEF x
    <2>5. ASSUME NEW i \in 1..Len(pipeline)
          PROVE  x[i] = pipeline[i].w
      <3>1. CASE i <= k
        BY <3>1, <2>3, <1>1, <1>4, <1>6
      <3>2. CASE i > k
        <4>1. i - k \in 1..Len(requests) /\ k + (i - k) = i
          BY <3>2, <2>2, <1>1
        <4>2. i - k \in 1..Len(requests) /\ x[k + (i - k)] = Ws(requests)[i - k]
          BY <4>1, <2>3
        <4>3. requests[i - k] = pipeline[k + (i - k)]
          BY <4>1, <2>2
        <4> QED BY <4>1, <4>2, <4>3, <1>5
      <3> QED BY <3>1, <3>2, <1>1
    <2>6. x = Ws(pipeline)
      <3>1. Len(x) = Len(Ws(pipeline)) /\ \A i \in 1..Len(x) : x[i] = Ws(pipeline)[i]
        BY <2>4, <2>5, <1>3
      <3> QED BY <3>1, <2>3, <1>3, EqualElements
    <2> QED BY <1>2, <2>6 DEF ResponsesMatchPipeline, x
  <1>9. CASE stream # "ready"
    BY <1>2, <1>9 DEF ResponsesMatchPipeline
  <1> QED BY <1>7, <1>8, <1>9

LEMMA AssertionsFromInv == ClientInv => AssertionsHold
  <1> SUFFICES ASSUME ClientInv PROVE AssertionsHold
    OBVIOUS
  <1>1. ASSUME NEW u \in Users, acked[u] >= LoadNextBatchID(queue), queue[u] # <<>>
        PROVE  FALSE
    <2> DEFINE q == queue[u]
    <2>1. /\ q \in Seq(Batch) /\ acked[u] \in Int
      BY View DEF ClientInv, ClientTypeOK, kFSTBatchIDUnknown
    <2>2. Len(q) \in 1..Len(q) /\ q[Len(q)].id \in Nat
      <3>1. Len(q) \in 1..Len(q)
        BY <2>1, <1>1
      <3> QED BY <3>1, <2>1, BatchTypes
    <2>3. acked[u] <= q[Len(q)].id
      BY <1>1 DEF ClientInv, IdsInOrder
    <2>4. LoadNextBatchID(queue) \in Nat /\ q[Len(q)].id < LoadNextBatchID(queue)
      BY <2>2, NextIs
    <2> QED BY <1>1, <2>1, <2>2, <2>3, <2>4
  <1>2. queue[user] = [i \in 1..Len(held) |-> held[i].batch] \o Unacknowledged(user)
    <2> DEFINE q == queue[user]
               h == [i \in 1..Len(held) |-> held[i].batch]
               x == SubSeq(q, Len(held) + 1, Len(q))
    <2>1. /\ q \in Seq(Batch) /\ Len(q) \in Nat /\ Len(held) \in Nat /\ Len(held) <= Len(q)
          /\ Unacknowledged(user) = x
          /\ \A i \in 1..Len(held) : held[i].batch = q[i]
      BY View DEF ClientInv, HeldFirst
    <2> HIDE DEF q
    <2>2. h \in Seq(Batch) /\ Len(h) = Len(held) /\ \A i \in 1..Len(held) : h[i] = q[i]
      <3>1. \A i \in 1..Len(held) : i \in 1..Len(q) /\ q[i] \in Batch
        BY <2>1
      <3> QED BY <2>1, <3>1
    <2>3. /\ x \in Seq(Batch) /\ Len(x) = Len(q) - Len(held)
          /\ \A i \in 1..(Len(q) - Len(held)) : x[i] = q[Len(held) + i]
      BY <2>1
    <2> DEFINE y == h \o x
    <2> HIDE DEF h, x
    <2>4. /\ y \in Seq(Batch) /\ Len(y) = Len(h) + Len(x)
          /\ \A i \in 1..Len(h) : y[i] = h[i]
          /\ \A i \in 1..Len(x) : y[Len(h) + i] = x[i]
      BY <2>2, <2>3
    <2> HIDE DEF y
    <2>5. Len(y) = Len(q)
      BY <2>1, <2>2, <2>3, <2>4
    <2>6. ASSUME NEW i \in 1..Len(q)
          PROVE  y[i] = q[i]
      <3>1. CASE i <= Len(held)
        BY <3>1, <2>1, <2>2, <2>4
      <3>2. CASE i > Len(held)
        <4>1. i - Len(held) \in 1..Len(x) /\ Len(held) + (i - Len(held)) = i
          BY <3>2, <2>1, <2>3
        <4>2. y[i] = x[i - Len(held)]
          BY <4>1, <2>2, <2>4
        <4>3. x[i - Len(held)] = q[i]
          BY <4>1, <2>3
        <4> QED BY <4>2, <4>3
      <3> QED BY <3>1, <3>2, <2>1
    <2>7. y = q
      BY <2>1, <2>4, <2>5, <2>6
    <2> QED BY <2>1, <2>7 DEF y, h, x, q
  <1> QED BY <1>1, <1>2 DEF AssertionsHold

LEMMA NoLossFromInv == ClientInv => NoWriteLost
  <1> SUFFICES ASSUME ClientInv PROVE NoWriteLost
    OBVIOUS
  <1>1. ASSUME NEW w \in 1..Len(outcome)
        PROVE  /\ outcome[w].result \in {"pending", "ok", "failed"} /\ outcome[w].user \in Users
               /\ outcome[w].result = "ok" => w \in Applied
               /\ outcome[w].result = "failed" => w \notin Applied \/ outcome[w].kind = "update"
    <2>1. outcome[w] \in Outcome
      BY DEF ClientInv, ClientTypeOK
    <2>2. InHistory(history, w) <=> w \in Applied
      BY DEF InHistory, Applied, Version
    <2> QED BY <2>1, <2>2 DEF Outcome, ClientInv, OutcomesTrue
  <1>2. ASSUME NEW w \in 1..Len(outcome), outcome[w].result = "pending"
        PROVE  \E i \in 1..Len(Unacknowledged(outcome[w].user)) :
                 Unacknowledged(outcome[w].user)[i].w = w
    <2> DEFINE u == outcome[w].user
    <2>1. u \in Users
      BY <1>1
    <2>2. PICK j \in 1..Len(queue[u]) : queue[u][j].w = w /\ queue[u][j].id > acked[u]
      BY <1>2 DEF ClientInv, QueuesPending
    <2> HIDE DEF u
    <2>3. PICK k \in 0..Len(queue[u]) :
           /\ Splits(queue[u], acked[u], k)
           /\ Unacknowledged(u) = SubSeq(queue[u], k + 1, Len(queue[u]))
           /\ Unacknowledged(u) \in Seq(Batch)
           /\ Len(Unacknowledged(u)) = Len(queue[u]) - k
           /\ \A i \in 1..(Len(queue[u]) - k) :
                k + i \in 1..Len(queue[u]) /\ Unacknowledged(u)[i] = queue[u][k + i]
      BY <2>1, UnacknowledgedIs
    <2>4. queue[u] \in Seq(Batch) /\ Len(queue[u]) \in Nat /\ acked[u] \in Int
          /\ queue[u][j].id \in Nat
      <3>1. queue[u] \in Seq(Batch) /\ acked[u] \in Int
        BY <2>1, View DEF ClientInv, ClientTypeOK, kFSTBatchIDUnknown
      <3> QED BY <3>1, BatchTypes
    <2>5. ~(queue[u][j].id <= acked[u])
      BY <2>2, <2>4
    <2>6. ~(j <= k)
      BY <2>3, <2>5 DEF Splits
    <2>7. j - k \in 1..(Len(queue[u]) - k) /\ k + (j - k) = j
      BY <2>3, <2>4, <2>6
    <2>8. j - k \in 1..Len(Unacknowledged(u)) /\ Unacknowledged(u)[j - k].w = w
      BY <2>2, <2>3, <2>7
    <2> QED BY <2>8 DEF u
  <1>3. ASSUME NEW w \in 1..Len(outcome)
        PROVE  CASE outcome[w].result = "pending" ->
                      \E i \in 1..Len(Unacknowledged(outcome[w].user)) :
                         Unacknowledged(outcome[w].user)[i].w = w
                 [] outcome[w].result = "ok" -> w \in Applied
                 [] OTHER -> w \notin Applied \/ outcome[w].kind = "update"
    <2>1. CASE outcome[w].result = "pending"
      BY <2>1, <1>2
    <2>2. CASE outcome[w].result = "ok"
      BY <2>2, <1>1
    <2>3. CASE outcome[w].result = "failed"
      BY <2>3, <1>1
    <2> QED BY <2>1, <2>2, <2>3, <1>1
  <1>4. \A i \in 1..Len(calls) : calls[i].ok <=> outcome[calls[i].w].result = "ok"
    <2>1. calls \in Seq([w : Nat, ok : BOOLEAN])
      BY DEF ClientInv, ClientTypeOK
    <2> QED BY <2>1 DEF ClientInv, CallsTrue
  <1>5. \A i, j \in 1..Len(calls) :
          i < j /\ outcome[calls[i].w].user = outcome[calls[j].w].user => calls[i].w < calls[j].w
    BY DEF ClientInv, CallsTrue
  <1> QED BY <1>3, <1>4, <1>5 DEF NoWriteLost

(* A response, which does not say to which write, is always to the first of   *)
(* the write pipeline, and the pipeline is always the first unacknowledged    *)
(* writes of the user, in their order.                                        *)
THEOREM AnswersMatch == Spec => []ResponsesMatchPipeline
  BY ClientInvariant, MatchFromInv, PTL

(* The client never fails its own assertions: no id is given twice in a       *)
(* queue's lives, what is held, acknowledged and rejected is first.           *)
THEOREM NoAssertionFails == Spec => []AssertionsHold
  BY ClientInvariant, AssertionsFromInv, PTL

(* No write is lost and none is reported wrongly, twice or out of order.      *)
THEOREM WritesKept == Spec => []NoWriteLost
  BY ClientInvariant, NoLossFromInv, PTL

--------------------------------------------------------------------------------
(* The client implements WriteQueue: what its state stands for. *)

Pending == [u \in Users |-> Ws(Unacknowledged(u))]
TakenBy == [u \in Users |-> IF u = user THEN Taken ELSE 0]
RefusedBy == [u \in Users |-> u = user /\ Refused]
Log == Ws(Kept(history, {v \in 1..Version : history[v].w # 0}))

(* The user's pending writes are those of the queue after what is held.       *)
PendingWrites ==
  /\ user \in Users
  /\ Pending \in [Users -> Seq(Nat)]
  /\ \A u \in Users : \A i \in 1..Len(Pending[u]) : Pending[u][i] <= Len(outcome)
  /\ Len(Pending[user]) = Len(queue[user]) - Len(held)
  /\ \A i \in 1..(Len(queue[user]) - Len(held)) :
       Pending[user][i] = queue[user][Len(held) + i].w

LEMMA PendingIs == ClientInv => PendingWrites
  <1> SUFFICES ASSUME ClientInv PROVE PendingWrites
    OBVIOUS
  <1>1. user \in Users
    BY DEF ClientInv, ClientTypeOK
  <1>2. ASSUME NEW u \in Users
        PROVE  /\ Ws(Unacknowledged(u)) \in Seq(Nat)
               /\ \A i \in 1..Len(Ws(Unacknowledged(u))) :
                    Ws(Unacknowledged(u))[i] <= Len(outcome)
    <2> DEFINE x == Unacknowledged(u)
    <2>1. PICK k \in 0..Len(queue[u]) :
           /\ x \in Seq(Batch)
           /\ Len(x) = Len(queue[u]) - k
           /\ \A i \in 1..(Len(queue[u]) - k) :
                k + i \in 1..Len(queue[u]) /\ x[i] = queue[u][k + i]
      BY UnacknowledgedIs
    <2> HIDE DEF x
    <2>2. /\ Len(x) \in Nat
          /\ \A i \in 1..Len(x) : x[i].w \in Nat
      BY <2>1, BatchTypes
    <2>3. /\ Ws(x) \in Seq(Nat) /\ Len(Ws(x)) = Len(x)
          /\ \A i \in 1..Len(x) : Ws(x)[i] = x[i].w
      BY <2>2, WsType
    <2>4. \A i \in 1..Len(queue[u]) : queue[u][i].w \in 1..Len(outcome)
      BY DEF ClientInv, QueuesPending
    <2>5. \A i \in 1..Len(x) : x[i].w <= Len(outcome)
      BY <2>1, <2>4
    <2> QED BY <2>3, <2>5 DEF x
  <1>3. /\ Len(Ws(Unacknowledged(user))) = Len(queue[user]) - Len(held)
        /\ \A i \in 1..(Len(queue[user]) - Len(held)) :
             Ws(Unacknowledged(user))[i] = queue[user][Len(held) + i].w
    <2> DEFINE q == queue[user]
               x == SubSeq(q, Len(held) + 1, Len(q))
    <2>1. /\ q \in Seq(Batch) /\ Len(q) \in Nat /\ Len(held) \in Nat /\ Len(held) <= Len(q)
          /\ Unacknowledged(user) = x
      BY View DEF ClientInv, HeldFirst
    <2> HIDE DEF q
    <2>2. /\ x \in Seq(Batch) /\ Len(x) = Len(q) - Len(held)
          /\ \A i \in 1..(Len(q) - Len(held)) : x[i] = q[Len(held) + i]
      BY <2>1
    <2> HIDE DEF x
    <2>3. Len(x) \in Nat /\ \A i \in 1..Len(x) : x[i].w \in Nat
      BY <2>2, BatchTypes
    <2>4. Len(Ws(x)) = Len(x) /\ \A i \in 1..Len(x) : Ws(x)[i] = x[i].w
      BY <2>3, WsType
    <2> QED BY <2>1, <2>2, <2>4 DEF q
  <1> QED BY <1>1, <1>2, <1>3 DEF PendingWrites, Pending

LEMMA PendingNext == ClientInv' => PendingWrites'
  BY PendingIs, PTL

(* The log grows by the writes of this device only. *)
LEMMA LogAdds ==
  ASSUME ClientInv, NEW m, m.w \in Nat, m.kind \in Kinds, m.doc \in Docs, Commit(m)
  PROVE  Log' = IF m.w # 0 THEN Append(Log, m.w) ELSE Log
  <1> DEFINE keep == {v \in 1..Version : history[v].w # 0}
             more == {v \in 1..Len(history') : history'[v].w # 0}
             s == Kept(history, keep)
  <1>1. /\ history \in Seq(Commitment) /\ Len(history) \in Nat
        /\ Len(history') = Len(history) + 1
        /\ \A v \in 1..Len(history) : history'[v].w = history[v].w
        /\ history'[Len(history) + 1].w = m.w
    BY CommitAdds DEF ClientInv, ClientTypeOK
  <1>2. PICK docs \in [Docs -> Document] :
          history' = Append(history, [w |-> m.w, docs |-> docs])
    BY CommitAdds
  <1> DEFINE x == [w |-> m.w, docs |-> docs]
  <1>3. x \in Commitment /\ x.w = m.w
    BY DEF Commitment
  <1>4. /\ \A i \in 1..Len(history) : i \in keep <=> i \in more
        /\ Len(history) + 1 \in more <=> m.w # 0
    BY <1>1 DEF Version
  <1> HIDE DEF keep, more, x
  <1>5. Kept(Append(history, x), more) = IF Len(history) + 1 \in more THEN Append(s, x) ELSE s
    BY <1>1, <1>3, <1>4, KeptAppend
  <1>6. s \in Seq(Commitment)
    BY <1>1, KeptType
  <1>7. Log' = Ws(Kept(Append(history, x), more)) /\ Log = Ws(s)
    <2>1. Log' = Ws(Kept(history', more))
      BY DEF Log, Ws, Version, more, Kept
    <2> QED BY <2>1, <1>2 DEF Log, keep, x
  <1> HIDE DEF s
  <1>8. Ws(Append(s, x)) = Append(Ws(s), m.w)
    <2> DEFINE t == Append(s, x)
    <2>1. /\ Len(s) \in Nat /\ t \in Seq(Commitment) /\ Len(t) = Len(s) + 1
          /\ t[Len(s) + 1] = x /\ \A i \in 1..Len(s) : t[i] = s[i]
      BY <1>3, <1>6
    <2>2. \A z \in Commitment : z.w \in Nat
      BY DEF Commitment
    <2> HIDE DEF t
    <2>3. /\ Len(t) \in Nat
          /\ \A i \in 1..Len(s) : s[i].w \in Nat
          /\ \A i \in 1..Len(t) : t[i].w \in Nat
      BY <2>1, <2>2, <1>6
    <2>4. Ws(s) \in Seq(Nat) /\ Len(Ws(s)) = Len(s) /\ \A i \in 1..Len(s) : Ws(s)[i] = s[i].w
      BY <2>1, <2>3, WsType
    <2>5. Ws(t) \in Seq(Nat) /\ Len(Ws(t)) = Len(t) /\ \A i \in 1..Len(t) : Ws(t)[i] = t[i].w
      BY <2>3, WsType
    <2> DEFINE y == Append(Ws(s), m.w)
               z == Ws(t)
    <2>6. /\ y \in Seq(Nat) /\ Len(y) = Len(s) + 1 /\ y[Len(s) + 1] = m.w
          /\ \A i \in 1..Len(s) : y[i] = s[i].w
      BY <2>4
    <2>7. /\ z \in Seq(Nat) /\ Len(z) = Len(s) + 1 /\ z[Len(s) + 1] = m.w
          /\ \A i \in 1..Len(s) : z[i] = s[i].w
      <3>1. Len(s) + 1 \in 1..Len(t) /\ \A i \in 1..Len(s) : i \in 1..Len(t)
        BY <2>1
      <3> QED BY <3>1, <2>1, <2>5, <1>3
    <2> HIDE DEF y, z
    <2>8. \A i \in 1..Len(z) : z[i] = y[i]
      BY <2>1, <2>6, <2>7, SMTT(30)
    <2>9. z = y
      BY <2>6, <2>7, <2>8, EqualElements
    <2> QED BY <2>9 DEF y, z, t
  <1> QED BY <1>4, <1>5, <1>7, <1>8

LEMMA QueueVarsStay ==
  ASSUME UNCHANGED <<Pending, TakenBy, RefusedBy, Log, settled>>
  PROVE  UNCHANGED Queue!vars
  BY DEF Queue!vars, Pending, TakenBy, RefusedBy, Log

LEMMA QueueIssued ==
  Queue!Issued = (UNION {{Pending[u][i] : i \in 1..Len(Pending[u])} : u \in Users})
                    \cup {settled[i].w : i \in 1..Len(settled)}
  BY DEF Queue!Issued, Pending

LEMMA QueueIssue ==
  ASSUME NEW u, NEW w,
         \A x \in Queue!Issued : x < w,
         Pending' = [Pending EXCEPT ![u] = Append(@, w)],
         UNCHANGED <<TakenBy, RefusedBy, Log, settled>>
  PROVE  Queue!Issue(u, w)
  BY DEF Queue!Issue, Pending, TakenBy, RefusedBy, Log

LEMMA QueueTake ==
  ASSUME NEW u,
         ~RefusedBy[u], TakenBy[u] < Len(Pending[u]),
         TakenBy' = [TakenBy EXCEPT ![u] = @ + 1],
         Log' = Append(Log, Pending[u][TakenBy[u] + 1]),
         UNCHANGED <<Pending, RefusedBy, settled>>
  PROVE  Queue!Take(u)
  BY DEF Queue!Take, Pending, TakenBy, RefusedBy, Log

LEMMA QueueRefuse ==
  ASSUME NEW u,
         ~RefusedBy[u], TakenBy[u] < Len(Pending[u]),
         RefusedBy' = [RefusedBy EXCEPT ![u] = TRUE],
         UNCHANGED <<Pending, TakenBy, Log, settled>>
  PROVE  Queue!Refuse(u)
  BY DEF Queue!Refuse, Pending, TakenBy, RefusedBy, Log

LEMMA QueueConfirm ==
  ASSUME NEW u,
         TakenBy[u] > 0,
         Pending' = [Pending EXCEPT ![u] = Tail(@)],
         settled' = Append(settled, [user |-> u, w |-> Head(Pending[u]), ok |-> TRUE]),
         TakenBy' = [TakenBy EXCEPT ![u] = @ - 1],
         UNCHANGED <<RefusedBy, Log>>
  PROVE  Queue!Confirm(u)
  BY DEF Queue!Confirm, Queue!Settle, Pending, TakenBy, RefusedBy, Log

LEMMA QueueFail ==
  ASSUME NEW u,
         RefusedBy[u], TakenBy[u] = 0,
         Pending' = [Pending EXCEPT ![u] = Tail(@)],
         settled' = Append(settled, [user |-> u, w |-> Head(Pending[u]), ok |-> FALSE]),
         RefusedBy' = [RefusedBy EXCEPT ![u] = FALSE],
         UNCHANGED <<TakenBy, Log>>
  PROVE  Queue!Fail(u)
  BY DEF Queue!Fail, Queue!Settle, Pending, TakenBy, RefusedBy, Log

LEMMA QueueLose ==
  ASSUME NEW u,
         TakenBy' = [TakenBy EXCEPT ![u] = 0],
         RefusedBy' = [RefusedBy EXCEPT ![u] = FALSE],
         UNCHANGED <<Pending, Log, settled>>
  PROVE  Queue!Lose(u)
  BY DEF Queue!Lose, Pending, TakenBy, RefusedBy, Log

QueueStep == Queue!Next \/ UNCHANGED Queue!vars

LEMMA QueueSteps ==
  ASSUME NEW u \in Users
  PROVE  /\ Queue!Take(u) => QueueStep
         /\ Queue!Refuse(u) => QueueStep
         /\ Queue!Confirm(u) => QueueStep
         /\ Queue!Fail(u) => QueueStep
         /\ Queue!Lose(u) => QueueStep
  BY DEF QueueStep, Queue!Next

(* How what is taken and refused follows the user's connection.               *)
LEMMA TakenFollows ==
  ASSUME ClientInv, user' = user
  PROVE  /\ Taken' = Taken => TakenBy' = TakenBy
         /\ Taken' = Taken + 1 => TakenBy' = [TakenBy EXCEPT ![user] = @ + 1]
         /\ Taken' = Taken - 1 => TakenBy' = [TakenBy EXCEPT ![user] = @ - 1]
         /\ TakenBy[user] = Taken
  <1>1. user \in Users
    BY DEF ClientInv, ClientTypeOK
  <1>2. PICK t : t = Taken'
    OBVIOUS
  <1>3. TakenBy' = [u \in Users |-> IF u = user THEN t ELSE 0]
    BY <1>2 DEF TakenBy
  <1> QED BY <1>1, <1>2, <1>3 DEF TakenBy

LEMMA RefusedFollows ==
  ASSUME ClientInv, user' = user
  PROVE  /\ (Refused' <=> Refused) => RefusedBy' = RefusedBy
         /\ Refused' => RefusedBy' = [RefusedBy EXCEPT ![user] = TRUE]
         /\ ~Refused' => RefusedBy' = [RefusedBy EXCEPT ![user] = FALSE]
         /\ RefusedBy[user] <=> Refused
  <1>1. user \in Users
    BY DEF ClientInv, ClientTypeOK
  <1>2. ASSUME Refused' <=> Refused
        PROVE  RefusedBy' = RefusedBy
    BY <1>2 DEF RefusedBy
  <1>3. ASSUME Refused'
        PROVE  RefusedBy' = [RefusedBy EXCEPT ![user] = TRUE]
    BY <1>1, <1>3 DEF RefusedBy
  <1>4. ASSUME ~Refused'
        PROVE  RefusedBy' = [RefusedBy EXCEPT ![user] = FALSE]
    BY <1>1, <1>4 DEF RefusedBy
  <1>5. RefusedBy[user] <=> Refused
    BY <1>1 DEF RefusedBy
  <1> QED BY <1>2, <1>3, <1>4, <1>5

(* The connection is given up: nothing of it is on its way any more.          *)
LEMMA ConnectionLost ==
  ASSUME ClientInv, ClientInv', responses' = <<>>
  PROVE  /\ TakenBy' = [TakenBy EXCEPT ![user] = 0]
         /\ RefusedBy' = [RefusedBy EXCEPT ![user] = FALSE]
  <1>1. user \in Users /\ user' \in Users
    BY DEF ClientInv, ClientTypeOK
  <1>2. ~Refused' /\ Taken' = 0
    BY DEF Refused, Taken
  <1>3. TakenBy' = [u \in Users |-> 0]
    BY <1>2 DEF TakenBy
  <1>4. RefusedBy' = [u \in Users |-> FALSE]
    BY <1>2 DEF RefusedBy
  <1>5. [TakenBy EXCEPT ![user] = 0] = [u \in Users |-> 0]
    BY <1>1 DEF TakenBy
  <1>6. [RefusedBy EXCEPT ![user] = FALSE] = [u \in Users |-> FALSE]
    BY <1>1 DEF RefusedBy
  <1> QED BY <1>3, <1>4, <1>5, <1>6

LEMMA PendingStays ==
  ASSUME \A u \in Users : Unacknowledged(u)' = Unacknowledged(u)
  PROVE  Pending' = Pending
  BY DEF Pending, Ws

LEMMA OthersPending ==
  ASSUME \A u \in Users : u # user => queue'[u] = queue[u] /\ acked'[u] = acked[u]
  PROVE  \A u \in Users : u # user => Pending'[u] = Pending[u]
  <1> SUFFICES ASSUME NEW u \in Users, u # user PROVE Pending'[u] = Pending[u]
    OBVIOUS
  <1>1. queue'[u] = queue[u] /\ acked'[u] = acked[u]
    OBVIOUS
  <1>2. Unacknowledged(u)' = Unacknowledged(u)
    BY <1>1 DEF Unacknowledged
  <1> QED BY <1>2 DEF Pending, Ws

LEMMA LogStays == history' = history => Log' = Log
  BY DEF Log, Version

--------------------------------------------------------------------------------
(* Every step is one of WriteQueue or none. *)

(* A step of the stream or of the listeners. *)
LEMMA NothingHappens ==
  ASSUME ClientInv, UNCHANGED <<user, responses, history, settled>>,
         \A u \in Users : Unacknowledged(u)' = Unacknowledged(u)
  PROVE  QueueStep
  <1>1. Taken' = Taken /\ (Refused' <=> Refused)
    BY DEF Taken, Refused
  <1>2. UNCHANGED <<Pending, TakenBy, RefusedBy, Log, settled>>
    BY <1>1, TakenFollows, RefusedFollows, PendingStays, LogStays
  <1>3. UNCHANGED Queue!vars
    BY <1>2, QueueVarsStay
  <1> QED BY <1>3 DEF QueueStep

LEMMA SameQueues ==
  ASSUME UNCHANGED <<queue, acked>>
  PROVE  \A u \in Users : Unacknowledged(u)' = Unacknowledged(u)
  BY DEF Unacknowledged

LEMMA WriteIssues ==
  ASSUME ClientInv, ClientInv', NEW b \in Batch, Written(b)
  PROVE  QueueStep
  <1> DEFINE w == Len(outcome) + 1
             q == queue[user]
             x == Pending[user]
             y == Pending'[user]
  <1>1. PendingWrites /\ PendingWrites'
    BY PendingIs, PendingNext
  <1>2. /\ user' = user /\ held' = held /\ b.w = w
        /\ UNCHANGED <<acked, responses, history, settled>>
        /\ queue' = [queue EXCEPT ![user] = Append(q, b)]
    BY DEF Written
  <1>3. /\ q \in Seq(Batch) /\ Len(q) \in Nat /\ Len(held) \in Nat /\ user \in Users
        /\ Len(held) <= Len(q) /\ queue \in [Users -> Seq(Batch)] /\ Len(outcome) \in Nat
        /\ w \in Nat
    <2>1. user \in Users /\ queue \in [Users -> Seq(Batch)] /\ outcome \in Seq(Outcome)
      BY DEF ClientInv, ClientTypeOK
    <2>2. Len(held) <= Len(q)
      BY DEF ClientInv, HeldFirst
    <2>3. Len(outcome) \in Nat
      BY <2>1
    <2> QED BY <2>1, <2>2, <2>3, View
  <1>4. /\ queue'[user] = Append(q, b)
        /\ Len(queue'[user]) = Len(q) + 1
        /\ \A i \in 1..Len(q) : queue'[user][i] = q[i]
        /\ queue'[user][Len(q) + 1] = b
        /\ \A u \in Users : u # user => queue'[u] = queue[u]
    BY <1>2, <1>3
  <1>5. /\ x \in Seq(Nat) /\ Len(x) = Len(q) - Len(held)
        /\ \A i \in 1..(Len(q) - Len(held)) : x[i] = q[Len(held) + i].w
        /\ \A u \in Users : \A i \in 1..Len(Pending[u]) : Pending[u][i] < w
        /\ Pending \in [Users -> Seq(Nat)]
    <2>1. /\ Pending \in [Users -> Seq(Nat)]
          /\ \A u \in Users : \A i \in 1..Len(Pending[u]) : Pending[u][i] <= Len(outcome)
          /\ Len(x) = Len(q) - Len(held)
          /\ \A i \in 1..(Len(q) - Len(held)) : x[i] = q[Len(held) + i].w
      BY <1>1 DEF PendingWrites
    <2>2. ASSUME NEW u \in Users, NEW i \in 1..Len(Pending[u])
          PROVE  Pending[u][i] < w
      <3>1. Pending[u] \in Seq(Nat) /\ Pending[u][i] <= Len(outcome)
        BY <2>1
      <3>2. Pending[u][i] \in Nat
        BY <3>1
      <3> QED BY <3>1, <3>2, <1>3
    <2> QED BY <2>1, <2>2, <1>3
  <1>6. /\ y \in Seq(Nat) /\ Len(y) = Len(q) + 1 - Len(held)
        /\ \A i \in 1..(Len(q) + 1 - Len(held)) : y[i] = queue'[user][Len(held) + i].w
        /\ Pending' \in [Users -> Seq(Nat)]
    <2>1. /\ y \in Seq(Nat) /\ Len(y) = Len(queue'[user]) - Len(held)
          /\ \A i \in 1..(Len(queue'[user]) - Len(held)) :
               y[i] = queue'[user][Len(held) + i].w
          /\ Pending' \in [Users -> Seq(Nat)]
      BY <1>1, <1>2, <1>3 DEF PendingWrites
    <2>2. Len(queue'[user]) - Len(held) = Len(q) + 1 - Len(held)
      BY <1>3, <1>4
    <2> QED BY <2>1, <2>2
  <1>7. \A u \in Users : u # user => Pending'[u] = Pending[u]
    <2>1. \A u \in Users : u # user => queue'[u] = queue[u] /\ acked'[u] = acked[u]
      BY <1>2, <1>4
    <2> QED BY <2>1, OthersPending
  <1> DEFINE z == Append(x, w)
  <1>8. /\ z \in Seq(Nat) /\ Len(z) = Len(q) - Len(held) + 1
        /\ z[Len(q) - Len(held) + 1] = w
        /\ \A i \in 1..(Len(q) - Len(held)) : z[i] = x[i]
    BY <1>3, <1>5
  <1> HIDE DEF q, x, y, z, w
  <1>9. y = z
    <2>1. ASSUME NEW i \in 1..Len(y)
          PROVE  y[i] = z[i]
      <3>1. i \in 1..(Len(q) + 1 - Len(held)) /\ y[i] = queue'[user][Len(held) + i].w
        BY <1>6
      <3>2. CASE i <= Len(q) - Len(held)
        <4>1. Len(held) + i \in 1..Len(q) /\ i \in 1..(Len(q) - Len(held))
          BY <3>2, <3>1, <1>3
        <4> QED BY <4>1, <3>1, <1>4, <1>5, <1>8
      <3>3. CASE i = Len(q) - Len(held) + 1
        <4>1. Len(held) + i = Len(q) + 1
          BY <3>3, <3>1, <1>3
        <4> QED BY <4>1, <3>1, <3>3, <1>2, <1>4, <1>8
      <3>4. i \in Nat /\ i <= Len(q) - Len(held) + 1
        BY <3>1, <1>3
      <3> QED BY <3>2, <3>3, <3>4, <1>3
    <2>2. Len(y) = Len(z)
      BY <1>3, <1>6, <1>8
    <2> QED BY <2>1, <2>2, <1>6, <1>8, EqualElements
  <1>10. Pending' = [Pending EXCEPT ![user] = Append(@, w)]
    <2>1. Pending'[user] = Append(Pending[user], w)
      BY <1>9 DEF x, y, z
    <2> QED BY <2>1, <1>3, <1>5, <1>6, <1>7
  <1>11. \A n \in Queue!Issued : n < w
    <2>1. \A i \in 1..Len(settled) : settled[i].w < w
      BY DEF ClientInv, WritesNumbered, w
    <2> QED BY <1>5, <2>1, QueueIssued
  <1>12. UNCHANGED <<TakenBy, RefusedBy, Log, settled>>
    <2>1. Taken' = Taken /\ (Refused' <=> Refused)
      BY <1>2 DEF Taken, Refused
    <2> QED BY <2>1, <1>2, TakenFollows, RefusedFollows, LogStays
  <1>13. Queue!Issue(user, w)
    BY <1>10, <1>11, <1>12, QueueIssue
  <1>14. w \in 1..Max({c["write"] : c \in Budgets})
    <2>1. /\ budget["write"] \in Nat /\ budget["write"] > 0
          /\ Len(outcome) + budget["write"] <= Max({c["write"] : c \in Budgets})
          /\ Len(outcome) \in Nat /\ Max({c["write"] : c \in Budgets}) \in Nat
      BY DEF ClientInv, WritesNumbered, ClientTypeOK, Bounds, Written
    <2> QED BY <2>1 DEF w
  <1> QED BY <1>3, <1>13, <1>14 DEF QueueStep, Queue!Next

LEMMA ServerTakesTakes ==
  ASSUME ClientInv, ServerTakes
  PROVE  QueueStep
  <1> DEFINE m == Head(requests)
             n == Len(responses)
             q == queue[user]
  <1>1. /\ requests # <<>> /\ \A i \in 1..Len(responses) : responses[i].ok
        /\ Commit(m)
        /\ responses' = Append(responses, [w |-> m.w, ok |-> TRUE, version |-> Version + 1])
        /\ UNCHANGED <<queue, acked, user, settled>>
    BY DEF ServerTakes, persisted, memory, ghosts
  <1>2. /\ ~Refused /\ Taken = n /\ n \in Nat /\ m \in Batch
        /\ Len(held) + n + 1 \in 1..Len(q) /\ m = q[Len(held) + n + 1]
        /\ m.w \in 1..Len(outcome)
    BY <1>1, NextAnswered
  <1>3. /\ user \in Users /\ responses \in Seq(Response) /\ Len(held) \in Nat
        /\ Len(q) \in Nat /\ Len(outcome) \in Nat /\ Len(history) \in Nat
    <2>1. user \in Users /\ responses \in Seq(Response) /\ outcome \in Seq(Outcome)
          /\ history \in Seq(Commitment)
      BY DEF ClientInv, ClientTypeOK
    <2> QED BY <2>1, View
  <1>4. ~Refused' /\ Taken' = Taken + 1
    <2> DEFINE r == [w |-> m.w, ok |-> TRUE, version |-> Version + 1]
    <2>1. r \in Response /\ r.ok
      BY <1>2, <1>3, BatchTypes DEF Response, Version
    <2> HIDE DEF r
    <2>2. /\ Len(responses') = n + 1 /\ responses'[n + 1] = r
          /\ \A i \in 1..n : responses'[i] = responses[i]
          /\ \A i \in 1..(n + 1) : i \in 1..n \/ i = n + 1
      BY <1>1, <2>1, AnswerAppended DEF r
    <2>3. \A i \in 1..Len(responses') : responses'[i].ok
      BY <2>1, <2>2, <1>1
    <2>4. ~Refused'
      BY <2>3 DEF Refused
    <2>5. Taken' = Len(responses')
      BY <2>4 DEF Taken
    <2> QED BY <2>2, <2>4, <2>5, <1>2
  <1>5. /\ RefusedBy' = RefusedBy /\ TakenBy' = [TakenBy EXCEPT ![user] = @ + 1]
        /\ ~RefusedBy[user] /\ TakenBy[user] = n
    BY <1>1, <1>2, <1>4, TakenFollows, RefusedFollows
  <1>6. n < Len(Pending[user]) /\ Pending[user][n + 1] = m.w
    <2>1. /\ Len(Pending[user]) = Len(q) - Len(held)
          /\ \A i \in 1..(Len(q) - Len(held)) : Pending[user][i] = q[Len(held) + i].w
      BY PendingIs DEF PendingWrites
    <2>2. n + 1 \in 1..(Len(q) - Len(held)) /\ Len(held) + (n + 1) = Len(held) + n + 1
      BY <1>2, <1>3
    <2> QED BY <2>1, <2>2, <1>2, <1>3, SMTT(30)
  <1>7. Log' = Append(Log, m.w)
    <2>1. m.w \in Nat /\ m.kind \in Kinds /\ m.doc \in Docs /\ m.w # 0
      BY <1>2, <1>3, BatchTypes
    <2> HIDE DEF m
    <2> QED BY <2>1, <1>1, LogAdds
  <1>8. Pending' = Pending
    BY <1>1, SameQueues, PendingStays
  <1> HIDE DEF m, n, q
  <1>9. /\ TakenBy[user] < Len(Pending[user])
        /\ Log' = Append(Log, Pending[user][TakenBy[user] + 1])
        /\ settled' = settled
    BY <1>1, <1>5, <1>6, <1>7
  <1>10. PICK u \in Users : u = user
    BY <1>3
  <1>11. Queue!Take(u)
    BY <1>5, <1>8, <1>9, <1>10, QueueTake
  <1> QED BY <1>11, QueueSteps

LEMMA ServerRefusesRefuses ==
  ASSUME ClientInv, ServerRefuses
  PROVE  QueueStep
  <1> DEFINE m == Head(requests)
             n == Len(responses)
             q == queue[user]
             r == [w |-> m.w, ok |-> FALSE, version |-> 0]
  <1>1. /\ requests # <<>> /\ \A i \in 1..Len(responses) : responses[i].ok
        /\ responses' = Append(responses, r)
        /\ UNCHANGED <<queue, acked, user, settled, history>>
    BY DEF ServerRefuses, persisted, memory, ghosts
  <1>2. /\ ~Refused /\ Taken = n /\ n \in Nat /\ m \in Batch
        /\ Len(held) + n + 1 \in 1..Len(q)
    BY <1>1, NextAnswered
  <1>3. user \in Users /\ Len(held) \in Nat /\ Len(q) \in Nat
    <2>1. user \in Users
      BY DEF ClientInv, ClientTypeOK
    <2> QED BY <2>1, View
  <1>4. Refused' /\ Taken' = Taken
    <2>1. r \in Response /\ ~r.ok
      BY <1>2, BatchTypes DEF Response
    <2> HIDE DEF r
    <2>2. Len(responses') = n + 1 /\ responses'[n + 1] = r /\ n + 1 \in 1..(n + 1)
      BY <1>1, <2>1, AnswerAppended
    <2>3. \E i \in 1..Len(responses') : ~responses'[i].ok
      BY <2>1, <2>2
    <2>4. Refused'
      BY <2>3 DEF Refused
    <2>5. Taken' = Len(responses') - 1
      BY <2>4 DEF Taken
    <2> QED BY <2>2, <2>4, <2>5, <1>2
  <1>5. /\ RefusedBy' = [RefusedBy EXCEPT ![user] = TRUE] /\ TakenBy' = TakenBy
        /\ ~RefusedBy[user] /\ TakenBy[user] = n
    BY <1>1, <1>2, <1>4, TakenFollows, RefusedFollows
  <1>6. n < Len(Pending[user])
    <2>1. Len(Pending[user]) = Len(q) - Len(held)
      BY PendingIs DEF PendingWrites
    <2> QED BY <2>1, <1>2, <1>3
  <1>7. Pending' = Pending /\ Log' = Log
    BY <1>1, SameQueues, PendingStays, LogStays
  <1> HIDE DEF m, n, q, r
  <1>8. TakenBy[user] < Len(Pending[user]) /\ settled' = settled
    BY <1>1, <1>5, <1>6
  <1>9. PICK u \in Users : u = user
    BY <1>3
  <1>10. Queue!Refuse(u)
    BY <1>5, <1>7, <1>8, <1>9, QueueRefuse
  <1> QED BY <1>10, QueueSteps

(* The user's first pending write is settled. *)
LEMMA FirstSettled ==
  ASSUME ClientInv, ClientInv', user' = user, FirstGone,
         First(Head(pipeline), Len(held) + 1),
         \A u \in Users : u # user => acked'[u] = acked[u]
  PROVE  /\ Pending' = [Pending EXCEPT ![user] = Tail(@)]
         /\ Head(Pending[user]) = Head(pipeline).w
  <1> DEFINE q == queue[user]
             x == Pending[user]
             y == Pending'[user]
             t == Tail(Pending[user])
             n == Len(q) - Len(held)
  <1>1. PendingWrites /\ PendingWrites'
    BY PendingIs, PendingNext
  <1>2. /\ Pending \in [Users -> Seq(Nat)] /\ Pending' \in [Users -> Seq(Nat)]
        /\ user \in Users
        /\ x \in Seq(Nat) /\ Len(x) = n
        /\ \A i \in 1..n : x[i] = q[Len(held) + i].w
    BY <1>1 DEF PendingWrites
  <1>3. /\ y \in Seq(Nat)
        /\ Len(y) = Len(queue'[user]) - Len(held')
        /\ \A i \in 1..(Len(queue'[user]) - Len(held')) :
             y[i] = queue'[user][Len(held') + i].w
    BY <1>1 DEF PendingWrites
  <1>4. Len(q) \in Nat /\ Len(held) \in Nat /\ Len(held) + 1 \in 1..Len(q)
        /\ Head(pipeline) = q[Len(held) + 1]
    BY View DEF First
  <1>5. /\ Len(queue'[user]) - Len(held') = Len(q) - (Len(held) + 1)
        /\ \A i \in 1..(Len(queue'[user]) - Len(held')) :
             queue'[user][Len(held') + i] = q[Len(held) + 1 + i]
        /\ \A u \in Users : u # user => queue'[u] = queue[u]
    BY DEF FirstGone
  <1>6. \A u \in Users : u # user => Pending'[u] = Pending[u]
    BY <1>5, OthersPending
  <1> HIDE DEF q, x, y, n
  <1>7. n \in Nat /\ n > 0 /\ n = Len(q) - Len(held) /\ 1 \in 1..n
    BY <1>4 DEF n
  <1>8. t \in Seq(Nat) /\ Len(t) = n - 1 /\ (\A i \in 1..(n - 1) : t[i] = x[i + 1])
        /\ Head(x) = x[1]
    <2>1. t = Tail(x) /\ x # <<>>
      BY <1>2, <1>7 DEF x
    <2> HIDE DEF t
    <2> QED BY <2>1, <1>2, <1>7
  <1> HIDE DEF t
  <1>9. Head(x) = Head(pipeline).w
    <2>1. x[1] = q[Len(held) + 1].w
      BY <1>2, <1>7
    <2> QED BY <2>1, <1>4, <1>8
  <1>10. y = t
    <2>1. Len(y) = n - 1
      BY <1>3, <1>4, <1>5, <1>7
    <2>2. ASSUME NEW i \in 1..(n - 1)
          PROVE  y[i] = t[i]
      <3>1. i + 1 \in 1..n /\ Len(held) + 1 + i = Len(held) + (i + 1)
            /\ i \in 1..(Len(queue'[user]) - Len(held'))
        BY <1>4, <1>5, <1>7
      <3>2. y[i] = q[Len(held) + 1 + i].w
        BY <3>1, <1>3, <1>5
      <3>3. x[i + 1] = q[Len(held) + (i + 1)].w
        BY <3>1, <1>2
      <3> QED BY <3>1, <3>2, <3>3, <1>8
    <2> QED BY <2>1, <2>2, <1>3, <1>8, EqualElements
  <1>11. Pending'[user] = Tail(Pending[user])
    BY <1>10 DEF y, t
  <1> QED BY <1>2, <1>6, <1>9, <1>11 DEF x

LEMMA WriteResponseConfirms ==
  ASSUME ClientInv, WriteResponse
  PROVE  QueueStep
  <1> DEFINE b == Head(pipeline)
  <1>1. /\ ClientInv' /\ FirstGone /\ First(b, Len(held) + 1)
        /\ Taken \in Nat \ {0} /\ Taken' = Taken - 1 /\ (Refused' <=> Refused)
    BY WriteResponseKeeps
  <1>2. /\ user' = user /\ history' = history
        /\ acked' = [acked EXCEPT ![user] = b.id]
        /\ settled' = Append(settled, [user |-> user, w |-> b.w, ok |-> TRUE])
    BY DEF WriteResponse, ProcessUserCallbacks, AcknowledgeBatch
  <1>3. user \in Users /\ acked \in [Users -> Nat \cup {kFSTBatchIDUnknown}]
    BY DEF ClientInv, ClientTypeOK
  <1>4. \A u \in Users : u # user => acked'[u] = acked[u]
    BY <1>2, <1>3
  <1> HIDE DEF b
  <1>5. /\ Pending' = [Pending EXCEPT ![user] = Tail(@)]
        /\ Head(Pending[user]) = b.w
    BY <1>1, <1>2, <1>4, FirstSettled DEF b
  <1>6. /\ TakenBy[user] > 0 /\ TakenBy' = [TakenBy EXCEPT ![user] = @ - 1]
        /\ RefusedBy' = RefusedBy /\ Log' = Log
    BY <1>1, <1>2, TakenFollows, RefusedFollows, LogStays
  <1>7. PICK u \in Users : u = user
    BY <1>3
  <1>8. settled' = Append(settled, [user |-> u, w |-> Head(Pending[u]), ok |-> TRUE])
    BY <1>2, <1>5, <1>7
  <1>9. Queue!Confirm(u)
    BY <1>5, <1>6, <1>7, <1>8, QueueConfirm
  <1> QED BY <1>9, QueueSteps

LEMMA WriteErrorFails ==
  ASSUME ClientInv, WriteError
  PROVE  QueueStep
  <1> DEFINE b == Head(pipeline)
  <1>1. /\ ClientInv' /\ FirstGone /\ First(b, Len(held) + 1)
        /\ Taken = 0 /\ Refused /\ Taken' = 0 /\ ~Refused'
    BY WriteErrorKeeps
  <1>2. /\ user' = user /\ history' = history /\ acked' = acked
        /\ settled' = Append(settled, [user |-> user, w |-> b.w, ok |-> FALSE])
    BY DEF WriteError, ProcessUserCallbacks
  <1>3. user \in Users
    BY DEF ClientInv, ClientTypeOK
  <1> HIDE DEF b
  <1>4. /\ Pending' = [Pending EXCEPT ![user] = Tail(@)]
        /\ Head(Pending[user]) = b.w
    BY <1>1, <1>2, FirstSettled DEF b
  <1>5. /\ TakenBy[user] = 0 /\ TakenBy' = TakenBy /\ RefusedBy[user]
        /\ RefusedBy' = [RefusedBy EXCEPT ![user] = FALSE] /\ Log' = Log
    BY <1>1, <1>2, TakenFollows, RefusedFollows, LogStays
  <1>6. PICK u \in Users : u = user
    BY <1>3
  <1>7. settled' = Append(settled, [user |-> u, w |-> Head(Pending[u]), ok |-> FALSE])
    BY <1>2, <1>4, <1>6
  <1>8. Queue!Fail(u)
    BY <1>4, <1>5, <1>6, <1>7, QueueFail
  <1> QED BY <1>8, QueueSteps

(* The connection of the user who was signed in is lost. *)
LEMMA StreamLost ==
  ASSUME ClientInv, ClientInv', responses' = <<>>, UNCHANGED <<history, settled>>,
         \A u \in Users : Unacknowledged(u)' = Unacknowledged(u)
  PROVE  QueueStep
  <1>1. /\ TakenBy' = [TakenBy EXCEPT ![user] = 0]
        /\ RefusedBy' = [RefusedBy EXCEPT ![user] = FALSE]
    BY ConnectionLost
  <1>2. Pending' = Pending /\ Log' = Log /\ settled' = settled
    BY PendingStays, LogStays
  <1>3. PICK u \in Users : u = user
    BY DEF ClientInv, ClientTypeOK
  <1>4. Queue!Lose(u)
    BY <1>1, <1>2, <1>3, QueueLose
  <1> QED BY <1>4, QueueSteps

(* Another device writes, which is not in the log. *)
LEMMA OtherWritesStutter ==
  ASSUME ClientInv, NEW kind \in {"set", "delete"}, NEW d \in Docs, OtherWrites(kind, d)
  PROVE  QueueStep
  <1> DEFINE m == [w |-> 0, kind |-> kind, doc |-> d]
  <1>1. Commit(m) /\ UNCHANGED <<queue, acked, user, responses, settled>>
    BY DEF OtherWrites, persisted, memory, remote
  <1>2. m.w = 0 /\ m.w \in Nat /\ m.kind \in Kinds /\ m.doc \in Docs
    BY DEF Kinds
  <1> HIDE DEF m
  <1>3. Log' = Log
    BY <1>1, <1>2, LogAdds
  <1>4. Taken' = Taken /\ (Refused' <=> Refused)
    BY <1>1 DEF Taken, Refused
  <1>5. UNCHANGED <<Pending, TakenBy, RefusedBy, Log, settled>>
    BY <1>1, <1>3, <1>4, TakenFollows, RefusedFollows, SameQueues, PendingStays
  <1> QED BY <1>5, QueueVarsStay DEF QueueStep

LEMMA ClientStep == ClientInv /\ [Next]_vars => QueueStep
  <1> SUFFICES ASSUME ClientInv, [Next]_vars
               PROVE  QueueStep
    OBVIOUS
  <1>1. ClientInv'
    BY NextKeeps
  <1>2. ASSUME NEW d \in budget.docs, NEW kind \in {"set", "update", "delete"},
               NEW allowed \in BOOLEAN, Write(kind, d, allowed)
        PROVE  QueueStep
    <2>1. d \in Docs /\ kind \in Kinds
      BY DocsOfBudget DEF Kinds
    <2>2. PICK b \in Batch : Written(b)
      BY <1>2, <2>1, WriteIs
    <2> QED BY <1>1, <2>2, WriteIssues
  <1>3. ASSUME NEW d \in budget.docs, Listen(d)
        PROVE  QueueStep
    <2>1. UNCHANGED <<queue, acked, user, responses, history, settled>>
      BY <1>3 DEF Listen, persisted, remote, ghosts
    <2> QED BY <2>1, SameQueues, NothingHappens
  <1>4. ASSUME NEW d \in budget.docs, StopListening(d)
        PROVE  QueueStep
    <2>1. UNCHANGED <<user, responses, history, settled>>
      BY <1>4 DEF StopListening, remote, ghosts
    <2> QED BY <1>4, <2>1, StopListeningKeeps, NothingHappens
  <1>5. CASE App
    BY <1>5, <1>2, <1>3, <1>4 DEF App
  <1>6. CASE StreamOpens \/ HandshakeCompletes \/ IdleCloses
    <2>1. UNCHANGED <<queue, acked, user, responses, history, settled>>
      BY <1>6 DEF StreamOpens, HandshakeCompletes, IdleCloses, persisted, memory, ghosts
    <2> QED BY <2>1, SameQueues, NothingHappens
  <1>7. CASE Client
    BY <1>7, <1>6, WriteResponseConfirms, WriteErrorFails DEF Client
  <1>8. ASSUME NEW v \in 1..Version, WatchSnapshot(v)
        PROVE  QueueStep
    <2>1. UNCHANGED <<user, responses, history, settled>>
      BY <1>8 DEF WatchSnapshot, remote, ghosts
    <2> QED BY <1>8, <2>1, WatchSnapshotKeeps, NothingHappens
  <1>9. ASSUME NEW kind \in {"set", "delete"}, NEW d \in budget.docs, OtherWrites(kind, d)
        PROVE  QueueStep
    <2>1. d \in Docs
      BY DocsOfBudget
    <2> QED BY <1>9, <2>1, OtherWritesStutter
  <1>10. CASE Backend
    BY <1>10, <1>8, <1>9, ServerTakesTakes, ServerRefusesRefuses DEF Backend
  <1>11. CASE StreamBreaks
    <2>1. responses' = <<>> /\ UNCHANGED <<queue, acked, history, settled>>
      BY <1>11 DEF StreamBreaks, persisted, ghosts
    <2> QED BY <1>1, <2>1, SameQueues, StreamLost
  <1>12. ASSUME NEW u \in Users, CredentialDidChange(u)
         PROVE  QueueStep
    <2>1. responses' = <<>> /\ UNCHANGED <<history, settled>>
      BY <1>12 DEF CredentialDidChange
    <2> QED BY <1>1, <1>12, <2>1, CredentialDidChangeKeeps, StreamLost
  <1>13. CASE Restart
    <2>1. responses' = <<>> /\ UNCHANGED <<history, settled>>
      BY <1>13 DEF Restart
    <2> QED BY <1>1, <1>13, <2>1, RestartKeeps, StreamLost
  <1>14. CASE UNCHANGED vars
    <2>1. UNCHANGED <<queue, acked, user, responses, history, settled>>
      BY <1>14 DEF vars, persisted, memory, remote, ghosts
    <2> QED BY <2>1, SameQueues, NothingHappens
  <1> QED BY <1>5, <1>7, <1>10, <1>11, <1>12, <1>13, <1>14 DEF Next

LEMMA ClientStarts == Init => Queue!Init
  <1> SUFFICES ASSUME Init PROVE Queue!Init
    OBVIOUS
  <1>1. /\ queue = [u \in Users |-> <<>>] /\ acked = [u \in Users |-> kFSTBatchIDUnknown]
        /\ responses = <<>> /\ settled = <<>>
    BY DEF Init
  <1>2. ~Refused /\ Taken = 0
    BY <1>1 DEF Refused, Taken
  <1>3. ASSUME NEW S, NEW keep, NEW s \in Seq(S), \A i \in 1..Len(s) : i \notin keep
        PROVE  Ws(Kept(s, keep)) = <<>>
    <2>1. Len(s) \in 0..Len(s) /\ \A i \in 1..Len(s) : i \in keep <=> i > Len(s)
      BY <1>3
    <2>2. Kept(s, keep) = SubSeq(s, Len(s) + 1, Len(s))
      BY <1>3, <2>1, KeptSuffix
    <2>3. Kept(s, keep) = <<>>
      BY <1>3, <2>2
    <2> QED BY <2>3 DEF Ws
  <1>4. ASSUME NEW u \in Users
        PROVE  Ws(Unacknowledged(u)) = <<>>
    <2>1. queue[u] = <<>> /\ queue[u] \in Seq(Batch)
      BY <1>1
    <2> DEFINE keep == {i \in 1..Len(queue[u]) : queue[u][i].id > acked[u]}
    <2>2. \A i \in 1..Len(queue[u]) : i \notin keep
      BY <2>1
    <2>3. Unacknowledged(u) = Kept(queue[u], keep)
      BY DEF Unacknowledged, After
    <2> HIDE DEF keep
    <2> QED BY <2>1, <2>2, <2>3, <1>3
  <1>5. Pending = [u \in Users |-> <<>>]
    BY <1>4 DEF Pending
  <1>6. Log = <<>>
    <2> DEFINE keep == {v \in 1..Version : history[v].w # 0}
    <2>1. history \in Seq(Commitment)
      BY ClientInvInit DEF ClientInv, ClientTypeOK
    <2>2. Len(history) = 1 /\ history[1].w = 0
      BY DEF Init
    <2>3. \A v \in 1..Len(history) : v \notin keep
      BY <2>2
    <2> HIDE DEF keep
    <2>4. Ws(Kept(history, keep)) = <<>>
      BY <2>1, <2>3, <1>3
    <2> QED BY <2>4 DEF Log, keep
  <1>7. TakenBy = [u \in Users |-> 0] /\ RefusedBy = [u \in Users |-> FALSE]
    BY <1>2 DEF TakenBy, RefusedBy
  <1> QED BY <1>1, <1>5, <1>6, <1>7 DEF Queue!Init, Pending, TakenBy, RefusedBy, Log

(* The client implements the abstract queue: every step is one of WriteQueue, *)
(* or changes nothing of it. So each user's writes are taken in order, each   *)
(* is settled once, with the backend's answer to it, and none that is settled *)
(* is given to the backend again.                                             *)
THEOREM Implements == Spec => QueueSpec
  <1>1. Init => Queue!Init
    BY ClientStarts
  <1>2. ClientInv /\ [Next]_vars => [Queue!Next]_(Queue!vars)
    BY ClientStep DEF QueueStep
  <1> QED BY <1>1, <1>2, ClientInvariant, PTL DEF Spec, QueueSpec, Queue!Spec

(* What WriteQueue is worth, for the client. *)
Promise == INSTANCE WriteQueueProofs WITH
  Writes <- 1..Max({b["write"] : b \in Budgets}),
  pending <- Pending, taken <- TakenBy, refused <- RefusedBy, log <- Log

LEMMA PromiseIsQueue ==
  /\ Queue!Init => Promise!Init
  /\ [Queue!Next]_(Queue!vars) => [Promise!Next]_(Promise!vars)
  <1>1. Queue!Init => Promise!Init
    BY DEF Queue!Init, Promise!Init, Pending, TakenBy, RefusedBy, Log
  <1>2. UNCHANGED Queue!vars => UNCHANGED Promise!vars
    BY DEF Queue!vars, Promise!vars, Pending, TakenBy, RefusedBy, Log
  <1>3. ASSUME NEW u, NEW w, Queue!Issue(u, w) PROVE Promise!Issue(u, w)
    BY <1>3 DEF Queue!Issue, Promise!Issue, Queue!Issued, Promise!Issued, Pending, TakenBy,
                RefusedBy, Log
  <1>4. ASSUME NEW u, Queue!Take(u) PROVE Promise!Take(u)
    BY <1>4 DEF Queue!Take, Promise!Take, Pending, TakenBy, RefusedBy, Log
  <1>5. ASSUME NEW u, Queue!Refuse(u) PROVE Promise!Refuse(u)
    BY <1>5 DEF Queue!Refuse, Promise!Refuse, Pending, TakenBy, RefusedBy, Log
  <1>6. ASSUME NEW u, Queue!Confirm(u) PROVE Promise!Confirm(u)
    BY <1>6 DEF Queue!Confirm, Promise!Confirm, Queue!Settle, Promise!Settle, Pending, TakenBy,
                RefusedBy, Log
  <1>7. ASSUME NEW u, Queue!Fail(u) PROVE Promise!Fail(u)
    BY <1>7 DEF Queue!Fail, Promise!Fail, Queue!Settle, Promise!Settle, Pending, TakenBy,
                RefusedBy, Log
  <1>8. ASSUME NEW u, Queue!Lose(u) PROVE Promise!Lose(u)
    BY <1>8 DEF Queue!Lose, Promise!Lose, Pending, TakenBy, RefusedBy, Log
  <1>9. Queue!Next => Promise!Next
    BY <1>3, <1>4, <1>5, <1>6, <1>7, <1>8 DEF Queue!Next, Promise!Next
  <1> QED BY <1>1, <1>2, <1>9

(* A write the app was told the end of is never given to the backend again.   *)
THEOREM NeverSentAgain == Spec => [][Promise!AppliesUnsettled]_(Promise!vars)
  <1>1. Promise!Spec => [][Promise!AppliesUnsettled]_(Promise!vars)
    <2>1. 1..Max({b["write"] : b \in Budgets}) \subseteq Nat
      OBVIOUS
    <2> QED BY <2>1, Promise!NeverAppliedLate
  <1>2. QueueSpec => Promise!Spec
    BY PromiseIsQueue, PTL DEF QueueSpec, Queue!Spec, Promise!Spec
  <1> QED BY <1>1, <1>2, Implements, PTL

--------------------------------------------------------------------------------
(* A recursive function over 1..N with values in D: each value is made from   *)
(* the one before it by step.                                                 *)
Folded(g, D, x, N, step) ==
  g \in [0..N -> D] /\ g[0] = x /\ \A m \in 1..N : g[m] = step[m][g[m - 1]]

LEMMA FoldExists ==
  ASSUME NEW D, NEW x \in D, NEW N \in Nat, NEW step,
         \A m \in 1..N : \A y \in D : step[m][y] \in D
  PROVE  \E g : Folded(g, D, x, N, step)
  <1> DEFINE Made(g, n) == g[0] = x /\ \A m \in 1..n : g[m] = step[m][g[m - 1]]
             T == {n \in Nat : n <= N => \E g \in [0..n -> D] : Made(g, n)}
  <1>1. 0 \in T
    <2> DEFINE g == [m \in 0..0 |-> x]
    <2>1. g \in [0..0 -> D] /\ Made(g, 0)
      OBVIOUS
    <2> QED BY <2>1
  <1>2. ASSUME NEW n \in Nat, n \in T
        PROVE  n + 1 \in T
    <2>1. SUFFICES ASSUME n + 1 <= N
                   PROVE  \E g \in [0..(n + 1) -> D] : Made(g, n + 1)
      OBVIOUS
    <2>2. PICK f \in [0..n -> D] : Made(f, n)
      BY <1>2, <2>1
    <2> DEFINE v == step[n + 1][f[n]]
               g == [m \in 0..(n + 1) |-> IF m <= n THEN f[m] ELSE v]
    <2>3. v \in D
      <3>1. f[n] \in D /\ n + 1 \in 1..N
        BY <2>1
      <3> QED BY <3>1
    <2>4. (n + 1) - 1 = n /\ n \in 0..n
      OBVIOUS
    <2> HIDE DEF v
    <2>5. g \in [0..(n + 1) -> D]
      BY <2>3
    <2>6. (\A m \in 0..n : g[m] = f[m]) /\ g[n + 1] = v
      OBVIOUS
    <2> HIDE DEF g
    <2>7. g[0] = x
      BY <2>2, <2>6
    <2>8. ASSUME NEW m \in 1..(n + 1)
          PROVE  g[m] = step[m][g[m - 1]]
      <3>1. CASE m <= n
        <4>1. m \in 1..n /\ m \in 0..n /\ m - 1 \in 0..n
          BY <3>1
        <4> QED BY <4>1, <2>2, <2>6
      <3>2. CASE m = n + 1
        BY <3>2, <2>4, <2>6 DEF v
      <3> QED BY <3>1, <3>2
    <2> QED BY <2>5, <2>7, <2>8
  <1> HIDE DEF T
  <1>3. \A n \in Nat : n \in T
    BY <1>1, <1>2, SetInduction
  <1>4. PICK g \in [0..N -> D] : Made(g, N)
    BY <1>3 DEF T
  <1> QED BY <1>4 DEF Folded

LEMMA ResultTypes ==
  ASSUME NEW r \in Result
  PROVE  /\ r.batch \in Batch /\ r.batch.doc \in Docs /\ r.batch.w \in Nat
         /\ r.batch.kind \in Kinds /\ r.version \in Nat
  BY BatchTypes DEF Result

LEMMA AppliedType ==
  ASSUME NEW docs \in [Docs -> Document], NEW r \in Result
  PROVE  ApplyBatchResult(docs, r) \in [Docs -> Document]
  <1>1. r.batch.doc \in Docs /\ r.batch.w \in Nat /\ r.batch.kind \in Kinds
    BY ResultTypes
  <1>2. ApplyMutation(docs[r.batch.doc], r.batch) \in Document
    BY <1>1, MutationType
  <1> QED BY <1>1, <1>2 DEF ApplyBatchResult

(* The results are applied one after the other. *)
LEMMA ResultsApplied ==
  ASSUME NEW docs \in [Docs -> Document], NEW results \in Seq(Result)
  PROVE  \E h \in [0..Len(results) -> [Docs -> Document]] :
           /\ h[0] = docs /\ WithResults(docs, results) = h[Len(results)]
           /\ \A n \in 1..Len(results) : h[n] = ApplyBatchResult(h[n - 1], results[n])
  <1> DEFINE D == [Docs -> Document]
             N == Len(results)
             Eq(f) == f = [n \in 0..N |->
               IF n = 0 THEN docs ELSE ApplyBatchResult(f[n - 1], results[n])]
             h == CHOOSE f : Eq(f)
             T == {n \in Nat : n <= N => h[n] \in D}
             step == [m \in 1..N |-> [y \in D |-> ApplyBatchResult(y, results[m])]]
  <1>1. N \in Nat /\ \A m \in 1..N : results[m] \in Result
    OBVIOUS
  <1>2. \A m \in 1..N : \A y \in D : step[m][y] = ApplyBatchResult(y, results[m])
    OBVIOUS
  <1>3. \A m \in 1..N : \A y \in D : step[m][y] \in D
    BY <1>1, <1>2, AppliedType
  <1> HIDE DEF step
  <1>4. \E g : Folded(g, D, docs, N, step)
    <2> HIDE DEF D, N
    <2>1. docs \in D
      BY DEF D
    <2> QED BY <2>1, <1>1, <1>3, FoldExists
  <1>5. PICK g : Folded(g, D, docs, N, step)
    BY <1>4
  <1>6. Eq(g)
    <2>1. ASSUME NEW n \in 0..N
          PROVE  g[n] = IF n = 0 THEN docs ELSE ApplyBatchResult(g[n - 1], results[n])
      <3>1. CASE n = 0
        BY <3>1, <1>5 DEF Folded
      <3>2. CASE n # 0
        <4>1. n \in 1..N /\ n - 1 \in 0..N
          BY <3>2, <1>1
        <4> QED BY <3>2, <4>1, <1>2, <1>5 DEF Folded
      <3> QED BY <3>1, <3>2
    <2> QED BY <2>1, <1>5 DEF Folded
  <1>7. Eq(h)
    BY <1>6
  <1>8. WithResults(docs, results) = h[N]
    BY DEF WithResults
  <1>9. /\ DOMAIN h = 0..N
        /\ \A n \in 0..N : h[n] = IF n = 0 THEN docs ELSE ApplyBatchResult(h[n - 1], results[n])
        /\ h = [n \in 0..N |-> h[n]]
    BY <1>7
  <1> HIDE DEF h, Eq, D, N
  <1>10. 0 \in T
    <2>1. 0 \in 0..N
      BY <1>1
    <2> QED BY <2>1, <1>9 DEF D
  <1>11. ASSUME NEW n \in Nat, n \in T
         PROVE  n + 1 \in T
    <2>1. SUFFICES ASSUME n + 1 <= N PROVE h[n + 1] \in D
      OBVIOUS
    <2>2. n + 1 \in 1..N /\ n + 1 \in 0..N /\ (n + 1) - 1 = n /\ n + 1 # 0 /\ h[n] \in D
      BY <1>11, <2>1, <1>1
    <2>3. h[n + 1] = ApplyBatchResult(h[n], results[n + 1])
      BY <2>2, <1>9
    <2> QED BY <2>2, <2>3, <1>1, AppliedType DEF D
  <1> HIDE DEF T
  <1>12. \A n \in Nat : n \in T
    BY <1>10, <1>11, SetInduction
  <1>13. \A n \in 0..N : h[n] \in D
    BY <1>1, <1>12 DEF T
  <1>14. h \in [0..N -> D]
    BY <1>9, <1>13
  <1>15. \A n \in 1..N : h[n] = ApplyBatchResult(h[n - 1], results[n])
    <2>1. \A n \in 1..N : n \in 0..N /\ n # 0
      BY <1>1
    <2> QED BY <2>1, <1>9
  <1>16. h[0] = docs
    <2>1. 0 \in 0..N
      BY <1>1
    <2> QED BY <2>1, <1>9
  <1> QED BY <1>8, <1>14, <1>15, <1>16 DEF D, N

(* A mutation makes no document newer or unknown. *)
LEMMA MutationVersion ==
  ASSUME NEW doc \in Document, NEW m, m.w \in Nat, m.kind \in Kinds
  PROVE  /\ ApplyMutation(doc, m).version <= doc.version
         /\ doc.kind # "unknown" => ApplyMutation(doc, m).kind # "unknown"
  <1>1. doc.version \in Nat
    BY DEF Document
  <1>2. ApplySet(doc, m).version <= doc.version /\ ApplySet(doc, m).kind = "doc"
    BY <1>1 DEF ApplySet
  <1>3. ApplyPatch(doc, m).version = doc.version /\ ApplyPatch(doc, m).kind = doc.kind
    BY DEF ApplyPatch, Document
  <1>4. ApplyDelete(doc, m).version <= doc.version /\ ApplyDelete(doc, m).kind = "deleted"
    BY <1>1 DEF ApplyDelete, Deleted
  <1>5. m.kind = "set" \/ m.kind = "update" \/ m.kind = "delete"
    BY DEF Kinds
  <1> QED BY <1>1, <1>2, <1>3, <1>4, <1>5 DEF ApplyMutation

(* The documents docs are none newer than the backend's, db. *)
Behind(docs, db) ==
  /\ docs \in [Docs -> Document] /\ db \in [Docs -> Document]
  /\ \A d \in Docs : docs[d].version <= db[d].version /\ db[d].kind # "unknown"

Fresh(r, db) == r.version <= db[r.batch.doc].version

(* A result that is not newer than db changes no document that is as in db.   *)
LEMMA AppliedBehind ==
  ASSUME NEW docs, NEW db, Behind(docs, db), NEW r \in Result, Fresh(r, db)
  PROVE  /\ Behind(ApplyBatchResult(docs, r), db)
         /\ \A d \in Docs : docs[d] = db[d] => ApplyBatchResult(docs, r)[d] = db[d]
  <1>1. /\ r.batch.doc \in Docs /\ r.batch.w \in Nat /\ r.batch.kind \in Kinds
        /\ r.version \in Nat
    BY ResultTypes
  <1>2. PICK c : c = r.batch.doc
    OBVIOUS
  <1>3. PICK new : new = ApplyBatchResult(docs, r)
    OBVIOUS
  <1>4. docs \in [Docs -> Document] /\ db \in [Docs -> Document] /\ c \in Docs
    BY <1>1, <1>2 DEF Behind
  <1>5. new \in [Docs -> Document]
    BY <1>3, <1>4, AppliedType
  <1>6. /\ docs[c] \in Document /\ db[c] \in Document /\ docs[c].version \in Nat
        /\ db[c].version \in Nat
    BY <1>4 DEF Document
  <1>7. /\ ApplyMutation(docs[c], r.batch).version <= docs[c].version
        /\ ApplyMutation(docs[c], r.batch) \in Document
    BY <1>1, <1>6, MutationVersion, MutationType
  <1>8. ApplyMutation(docs[c], r.batch).version \in Nat
    BY <1>7 DEF Document
  <1>9. ASSUME NEW d \in Docs
        PROVE  new[d].version <= db[d].version /\ (docs[d] = db[d] => new[d] = db[d])
    <2>1. docs[d].version <= db[d].version /\ db[d].kind # "unknown"
      BY DEF Behind
    <2>2. CASE d # c
      BY <2>1, <2>2, <1>2, <1>3, <1>4 DEF ApplyBatchResult
    <2>3. CASE d = c /\ ~(docs[c].kind = "unknown" \/ docs[c].version < r.version)
      BY <2>1, <2>3, <1>2, <1>3 DEF ApplyBatchResult
    <2>4. CASE d = c /\ (docs[c].kind = "unknown" \/ docs[c].version < r.version)
      <3>1. new[c] = ApplyMutation(docs[c], r.batch)
        BY <2>4, <1>2, <1>3, <1>4 DEF ApplyBatchResult
      <3>2. docs[c] # db[c]
        BY <2>1, <2>4, <1>1, <1>2, <1>6 DEF Fresh
      <3> QED BY <3>1, <3>2, <2>1, <2>4, <1>6, <1>7, <1>8
    <2> QED BY <2>2, <2>3, <2>4
  <1>10. \A d \in Docs : db[d].kind # "unknown"
    BY DEF Behind
  <1> QED BY <1>3, <1>4, <1>5, <1>9, <1>10 DEF Behind

LEMMA AllFresh ==
  ASSUME NEW docs, NEW db, Behind(docs, db), NEW results \in Seq(Result),
         \A i \in 1..Len(results) : Fresh(results[i], db)
  PROVE  /\ Behind(WithResults(docs, results), db)
         /\ \A d \in Docs : docs[d] = db[d] => WithResults(docs, results)[d] = db[d]
  <1>1. Len(results) \in Nat /\ \A i \in 1..Len(results) : results[i] \in Result
    OBVIOUS
  <1>2. docs \in [Docs -> Document]
    BY DEF Behind
  <1>3. PICK h \in [0..Len(results) -> [Docs -> Document]] :
           /\ h[0] = docs /\ WithResults(docs, results) = h[Len(results)]
           /\ \A n \in 1..Len(results) : h[n] = ApplyBatchResult(h[n - 1], results[n])
    BY <1>2, ResultsApplied
  <1> DEFINE As(n) == \A d \in Docs : docs[d] = db[d] => h[n][d] = db[d]
             T == {n \in Nat : n <= Len(results) => Behind(h[n], db) /\ As(n)}
  <1>4. 0 \in T
    BY <1>3
  <1>5. ASSUME NEW n \in Nat, n \in T
        PROVE  n + 1 \in T
    <2>1. SUFFICES ASSUME n + 1 <= Len(results) PROVE Behind(h[n + 1], db) /\ As(n + 1)
      OBVIOUS
    <2>2. n + 1 \in 1..Len(results) /\ (n + 1) - 1 = n /\ Behind(h[n], db) /\ As(n)
      BY <2>1, <1>1, <1>5
    <2>3. h[n + 1] = ApplyBatchResult(h[n], results[n + 1])
      BY <2>2, <1>3
    <2>4. results[n + 1] \in Result /\ Fresh(results[n + 1], db)
      BY <2>2, <1>1
    <2>5. /\ Behind(h[n + 1], db)
          /\ \A d \in Docs : h[n][d] = db[d] => h[n + 1][d] = db[d]
      BY <2>2, <2>3, <2>4, AppliedBehind
    <2> QED BY <2>2, <2>5
  <1> HIDE DEF T
  <1>6. \A n \in Nat : n \in T
    BY <1>4, <1>5, SetInduction
  <1>7. Behind(h[Len(results)], db) /\ As(Len(results))
    BY <1>1, <1>6 DEF T
  <1> QED BY <1>3, <1>7

--------------------------------------------------------------------------------
(* The document cache and the backend. *)

CacheTypeOK ==
  /\ cache \in [Docs -> Document]
  /\ lastRemote \in Nat
  /\ resume \in [Docs -> Nat]
  /\ targets \in SUBSET Docs

(* Versions of a document only grow, and it stays as it is until the next;    *)
(* the backend knows of every document whether it is there.                   *)
HistoryTrue ==
  \A d \in Docs :
    /\ Db[d].version <= Version
    /\ \A v \in 1..Version :
         /\ history[v].docs[d].kind # "unknown"
         /\ history[v].docs[d].version <= Db[d].version
         /\ Db[d].version <= v => history[v].docs[d] = Db[d]

(* What was acknowledged is in the backend. *)
HeldFresh == \A i \in 1..Len(held) : Fresh(held[i], Db)

AnswersFresh ==
  \A i \in 1..Len(responses) : responses[i].ok =>
    responses[i].version <= Db[queue[user][Len(held) + i].doc].version

(* A listener that is up to date shows what the backend has.                  *)
CacheTrue ==
  \A d \in Docs :
    /\ resume[d] <= Version
    /\ cache[d].version <= Db[d].version
    /\ Db[d].version <= resume[d] => cache[d] = Db[d]

(* What is held waits for a snapshot, which a listener will bring.            *)
HeldAhead == held # <<>> => targets # {} /\ held[1].version > lastRemote

CacheInv ==
  /\ CacheTypeOK
  /\ HistoryTrue
  /\ HeldFresh
  /\ AnswersFresh
  /\ CacheTrue
  /\ HeldAhead

LEMMA DbType ==
  ASSUME ClientInv
  PROVE  /\ Db \in [Docs -> Document] /\ Version \in Nat /\ Version \in 1..Version
         /\ Db = history[Version].docs
         /\ \A d \in Docs : Db[d].version \in Nat
         /\ \A v \in 1..Version : history[v].docs \in [Docs -> Document]
  <1>1. history \in Seq(Commitment) /\ Len(history) \in Nat /\ Len(history) \in 1..Len(history)
    BY DEF ClientInv, ClientTypeOK
  <1>2. \A c \in Commitment : c.docs \in [Docs -> Document]
    BY DEF Commitment
  <1>3. \A v \in 1..Len(history) : history[v].docs \in [Docs -> Document]
    BY <1>1, <1>2
  <1>4. Db \in [Docs -> Document]
    BY <1>1, <1>3 DEF Db, Version
  <1>5. \A d \in Docs : Db[d].version \in Nat
    BY <1>4 DEF Document
  <1> QED BY <1>1, <1>3, <1>4, <1>5 DEF Db, Version

LEMMA CacheInvInit == Init => CacheInv
  <1> SUFFICES ASSUME Init PROVE CacheInv
    OBVIOUS
  <1>1. /\ cache = [d \in Docs |-> Unknown] /\ resume = [d \in Docs |-> 0]
        /\ lastRemote = 0 /\ held = <<>> /\ responses = <<>> /\ targets = {}
    BY DEF Init
  <1>2. PICK there : history = <<[w |-> 0, docs |->
         [d \in Docs |-> IF d \in there THEN [kind |-> "doc", f |-> 0, g |-> 0, version |-> 1]
                         ELSE Deleted(1)]]>>
    BY DEF Init
  <1>3. Unknown \in Document /\ Unknown.version = 0
    BY DEF Unknown, Document
  <1>4. CacheTypeOK
    BY <1>1, <1>3 DEF CacheTypeOK
  <1>5. Version = 1 /\ Db = history[1].docs
    BY <1>2 DEF Version, Db
  <1>6. \A d \in Docs : history[1].docs[d].version = 1 /\ history[1].docs[d].kind # "unknown"
    BY <1>2 DEF Deleted
  <1>7. HistoryTrue
    <2>1. \A v \in 1..1 : v = 1
      OBVIOUS
    <2> QED BY <1>5, <1>6, <2>1 DEF HistoryTrue
  <1>8. HeldFresh /\ AnswersFresh /\ HeldAhead
    <2>1. Len(<<>>) = 0 /\ 1..0 = {}
      OBVIOUS
    <2> QED BY <1>1, <2>1 DEF HeldFresh, AnswersFresh, HeldAhead
  <1>9. CacheTrue
    <2>1. \A d \in Docs : cache[d].version = 0 /\ resume[d] = 0
      BY <1>1, <1>3
    <2> QED BY <2>1, <1>5, <1>6 DEF CacheTrue
  <1> QED BY <1>4, <1>7, <1>8, <1>9 DEF CacheInv

(* Steps that leave the cache and the backend alone. *)
LEMMA CacheStays ==
  ASSUME CacheInv, UNCHANGED <<cache, lastRemote, resume, history>>,
         held' = <<>> \/ (held' = held /\ targets \subseteq targets'),
         targets' \in SUBSET Docs, AnswersFresh'
  PROVE  CacheInv'
  <1>1. Db' = Db /\ Version' = Version
    BY DEF Db, Version
  <1>2. CacheTypeOK' /\ HistoryTrue' /\ CacheTrue'
    BY <1>1 DEF CacheInv, CacheTypeOK, HistoryTrue, CacheTrue
  <1>3. CASE held' = <<>>
    <2>1. Len(<<>>) = 0 /\ 1..0 = {}
      OBVIOUS
    <2>2. HeldFresh' /\ HeldAhead'
      BY <1>3, <2>1 DEF HeldFresh, HeldAhead
    <2> QED BY <1>2, <2>2 DEF CacheInv
  <1>4. CASE held' = held /\ targets \subseteq targets'
    <2>1. HeldFresh'
      BY <1>1, <1>4 DEF CacheInv, HeldFresh
    <2>2. HeldAhead'
      BY <1>4 DEF CacheInv, HeldAhead
    <2> QED BY <1>2, <2>1, <2>2 DEF CacheInv
  <1> QED BY <1>3, <1>4

LEMMA AnswersFreshStay ==
  ASSUME CacheInv, UNCHANGED <<responses, queue, user, held, history>>
  PROVE  AnswersFresh'
  <1>1. Db' = Db
    BY DEF Db, Version
  <1> QED BY <1>1 DEF CacheInv, AnswersFresh

LEMMA NoAnswers ==
  ASSUME responses' = <<>>
  PROVE  AnswersFresh'
  <1>1. Len(<<>>) = 0 /\ 1..0 = {}
    OBVIOUS
  <1> QED BY <1>1 DEF AnswersFresh

LEMMA QuietKeepsCache ==
  ASSUME ClientInv, CacheInv,
         \/ StreamOpens \/ HandshakeCompletes \/ IdleCloses \/ StreamBreaks
         \/ \E d \in Docs : Listen(d)
         \/ WriteError \/ Restart \/ \E u \in Users : CredentialDidChange(u)
         \/ UNCHANGED vars
  PROVE  CacheInv'
  <1>1. targets \in SUBSET Docs
    BY DEF CacheInv, CacheTypeOK
  <1>2. CASE StreamOpens \/ HandshakeCompletes \/ IdleCloses \/ UNCHANGED vars
    <2>1. UNCHANGED <<cache, lastRemote, resume, history, held, targets, responses, queue, user>>
      BY <1>2 DEF StreamOpens, HandshakeCompletes, IdleCloses, vars, persisted, memory, remote
    <2> QED BY <2>1, <1>1, AnswersFreshStay, CacheStays
  <1>3. CASE StreamBreaks
    <2>1. UNCHANGED <<cache, lastRemote, resume, history, held, targets>> /\ responses' = <<>>
      BY <1>3 DEF StreamBreaks, persisted, memory
    <2> QED BY <2>1, <1>1, NoAnswers, CacheStays
  <1>4. ASSUME NEW d \in Docs, Listen(d) PROVE CacheInv'
    <2>1. /\ UNCHANGED <<cache, lastRemote, resume, history, held, responses, queue, user>>
          /\ targets' = targets \cup {d}
      BY <1>4 DEF Listen, persisted, remote
    <2> QED BY <2>1, <1>1, AnswersFreshStay, CacheStays
  <1>5. CASE WriteError
    <2>1. UNCHANGED <<cache, lastRemote, resume, history, held, targets>> /\ responses' = <<>>
      BY <1>5 DEF WriteError
    <2> QED BY <2>1, <1>1, NoAnswers, CacheStays
  <1>6. CASE Restart
    <2>1. /\ UNCHANGED <<cache, lastRemote, resume, history>> /\ responses' = <<>>
          /\ held' = <<>> /\ targets' = {}
      BY <1>6 DEF Restart, StartMutationQueue
    <2> QED BY <2>1, NoAnswers, CacheStays
  <1>7. ASSUME NEW u \in Users, CredentialDidChange(u) PROVE CacheInv'
    <2>1. /\ UNCHANGED <<cache, lastRemote, resume, history, targets>> /\ responses' = <<>>
          /\ held' = <<>> \/ held' = held
      BY <1>7 DEF CredentialDidChange, StartMutationQueue
    <2> QED BY <2>1, <1>1, NoAnswers, CacheStays
  <1> QED BY <1>2, <1>3, <1>4, <1>5, <1>6, <1>7

LEMMA AnswerPlace ==
  ASSUME ClientInv
  PROVE  /\ Len(held) \in Nat /\ Len(responses) \in Nat /\ user \in Users
         /\ \A i \in 1..Len(responses) :
              /\ Len(held) + i \in 1..Len(queue[user])
              /\ queue[user][Len(held) + i] \in Batch
              /\ queue[user][Len(held) + i].doc \in Docs
              /\ responses[i] \in Response /\ responses[i].version \in Nat
              /\ i \in 1..Len(pipeline) /\ pipeline[i] = queue[user][Len(held) + i]
  <1>1. /\ Len(held) \in Nat /\ Len(pipeline) \in Nat /\ Len(queue[user]) \in Nat
        /\ queue[user] \in Seq(Batch)
    BY View
  <1>2. responses \in Seq(Response) /\ Len(responses) \in Nat /\ user \in Users
    BY DEF ClientInv, ClientTypeOK
  <1>3. /\ Len(responses) <= Len(pipeline) /\ Len(held) + Len(pipeline) <= Len(queue[user])
        /\ \A i \in 1..Len(pipeline) : pipeline[i] = queue[user][Len(held) + i]
    BY DEF ClientInv, AnswersInOrder, PipelineNext
  <1>4. ASSUME NEW i \in 1..Len(responses)
        PROVE  /\ Len(held) + i \in 1..Len(queue[user]) /\ i \in 1..Len(pipeline)
               /\ responses[i] \in Response
    BY <1>1, <1>2, <1>3
  <1>5. \A r \in Response : r.version \in Nat
    BY DEF Response
  <1> QED BY <1>1, <1>2, <1>3, <1>4, <1>5, BatchTypes

(* A write of the app goes to the end of the queue. *)
LEMMA WriteKeepsCache ==
  ASSUME ClientInv, CacheInv, NEW kind \in Kinds, NEW d \in Docs, NEW allowed \in BOOLEAN,
         Write(kind, d, allowed)
  PROVE  CacheInv'
  <1>1. UNCHANGED <<cache, lastRemote, resume, history, held, targets, responses, user>>
    BY DEF Write
  <1>2. PICK b \in Batch : Written(b)
    BY WriteIs
  <1>3. queue' = [queue EXCEPT ![user] = Append(@, b)]
    BY <1>2 DEF Written
  <1>4. /\ queue \in [Users -> Seq(Batch)] /\ user \in Users
    BY DEF ClientInv, ClientTypeOK
  <1>5. \A i \in 1..Len(queue[user]) : queue'[user][i] = queue[user][i]
    BY <1>3, <1>4
  <1>6. Db' = Db
    BY <1>1 DEF Db, Version
  <1>7. AnswersFresh'
    BY <1>1, <1>5, <1>6, AnswerPlace DEF CacheInv, AnswersFresh
  <1>8. targets \in SUBSET Docs
    BY DEF CacheInv, CacheTypeOK
  <1> QED BY <1>1, <1>7, <1>8, CacheStays

LEMMA ServerRefusesKeepsCache ==
  ASSUME ClientInv, CacheInv, ServerRefuses
  PROVE  CacheInv'
  <1> DEFINE r == [w |-> Head(requests).w, ok |-> FALSE, version |-> 0]
  <1>1. /\ UNCHANGED <<cache, lastRemote, resume, history, held, targets, queue, user>>
        /\ responses' = Append(responses, r)
    BY DEF ServerRefuses, persisted, memory
  <1>2. responses \in Seq(Response)
    BY DEF ClientInv, ClientTypeOK
  <1>3. ~r.ok
    OBVIOUS
  <1> HIDE DEF r
  <1>4. \A i \in 1..Len(responses') :
          responses'[i].ok => i \in 1..Len(responses) /\ responses'[i] = responses[i]
    BY <1>1, <1>2, <1>3
  <1>5. Db' = Db
    BY <1>1 DEF Db, Version
  <1>6. AnswersFresh'
    BY <1>1, <1>4, <1>5 DEF CacheInv, AnswersFresh
  <1>7. targets \in SUBSET Docs
    BY DEF CacheInv, CacheTypeOK
  <1> QED BY <1>1, <1>6, <1>7, CacheStays

(* A new version: one document is replaced, no other changes.                 *)
LEMMA CommitIs ==
  ASSUME ClientInv, NEW m, m.w \in Nat, m.kind \in Kinds, m.doc \in Docs, Commit(m)
  PROVE  /\ Version' = Version + 1
         /\ \A v \in 1..Version : history'[v] = history[v]
         /\ history'[Version + 1].docs = Db' /\ history'[Version + 1].w = m.w
         /\ Db'[m.doc] = [ApplyMutation(Db[m.doc], m) EXCEPT !.version = Version + 1]
         /\ Db'[m.doc].version = Version + 1
         /\ Db'[m.doc].kind = ApplyMutation(Db[m.doc], m).kind
         /\ \A d \in Docs : d # m.doc => Db'[d] = Db[d]
  <1> DEFINE doc == [ApplyMutation(Db[m.doc], m) EXCEPT !.version = Version + 1]
             docs == [Db EXCEPT ![m.doc] = doc]
             c == [w |-> m.w, docs |-> docs]
  <1>1. history' = Append(history, c)
    BY DEF Commit
  <1>2. history \in Seq(Commitment) /\ Version = Len(history) /\ Len(history) \in Nat
    BY DEF ClientInv, ClientTypeOK, Version
  <1>3. Db \in [Docs -> Document] /\ Db[m.doc] \in Document
    BY DbType
  <1>4. ApplyMutation(Db[m.doc], m) \in Document
    BY <1>3, MutationType
  <1>5. doc.version = Version + 1 /\ doc.kind = ApplyMutation(Db[m.doc], m).kind
        /\ doc \in Document
    BY <1>2, <1>4 DEF Document
  <1>6. c.w = m.w /\ c.docs = docs
    OBVIOUS
  <1> HIDE DEF doc
  <1>7. docs[m.doc] = doc /\ (\A d \in Docs : d # m.doc => docs[d] = Db[d])
        /\ docs \in [Docs -> Document]
    BY <1>3, <1>5
  <1> HIDE DEF docs
  <1>8. c \in Commitment
    BY <1>7 DEF Commitment
  <1> HIDE DEF c
  <1>9. /\ Len(history') = Version + 1 /\ history'[Version + 1] = c
        /\ \A v \in 1..Version : history'[v] = history[v]
    BY <1>1, <1>2, <1>8
  <1>10. Version' = Version + 1
    BY <1>9 DEF Version
  <1>11. Db' = docs
    BY <1>6, <1>9, <1>10 DEF Db
  <1> QED BY <1>5, <1>6, <1>7, <1>9, <1>10, <1>11 DEF doc

(* No listener is up to date on a document just written.                      *)
LEMMA CommitKeepsCache ==
  ASSUME ClientInv, CacheInv, NEW m, m.w \in Nat, m.kind \in Kinds, m.doc \in Docs, Commit(m),
         UNCHANGED <<cache, lastRemote, resume, held, targets>>, AnswersFresh'
  PROVE  CacheInv' /\ \A d \in Docs : Db[d].version <= Db'[d].version
  <1>1. /\ Version' = Version + 1
        /\ \A v \in 1..Version : history'[v] = history[v]
        /\ history'[Version + 1].docs = Db'
        /\ Db'[m.doc].version = Version + 1
        /\ Db'[m.doc].kind = ApplyMutation(Db[m.doc], m).kind
        /\ \A d \in Docs : d # m.doc => Db'[d] = Db[d]
    BY CommitIs
  <1>2. /\ Version \in Nat /\ Version \in 1..Version /\ Db = history[Version].docs
        /\ \A d \in Docs : Db[d].version \in Nat /\ Db[d] \in Document
        /\ \A v \in 1..(Version + 1) : v \in 1..Version \/ v = Version + 1
    BY DbType
  <1>3. \A v \in 1..Version : \A d \in Docs : history[v].docs[d].version \in Nat
    BY DbType DEF Document
  <1>4. \A d \in Docs : /\ Db[d].version <= Version
                        /\ \A v \in 1..Version :
                             /\ history[v].docs[d].kind # "unknown"
                             /\ history[v].docs[d].version <= Db[d].version
                             /\ Db[d].version <= v => history[v].docs[d] = Db[d]
    BY DEF CacheInv, HistoryTrue
  <1>5. Db'[m.doc].kind # "unknown"
    <2>1. Db[m.doc].kind # "unknown"
      BY <1>2, <1>4
    <2> QED BY <2>1, <1>1, <1>2, MutationVersion
  <1>6. \A d \in Docs : Db[d].version <= Db'[d].version /\ Db'[d].version \in Nat
    BY <1>1, <1>2, <1>4
  <1>7. HistoryTrue'
    <2>1. ASSUME NEW d \in Docs
          PROVE  /\ Db'[d].version <= Version + 1
                 /\ \A v \in 1..(Version + 1) :
                      /\ history'[v].docs[d].kind # "unknown"
                      /\ history'[v].docs[d].version <= Db'[d].version
                      /\ Db'[d].version <= v => history'[v].docs[d] = Db'[d]
      <3>1. CASE d = m.doc
        <4>1. ASSUME NEW v \in 1..Version
              PROVE  /\ history'[v].docs[d].kind # "unknown"
                     /\ history'[v].docs[d].version <= Db'[d].version
                     /\ Db'[d].version <= v => history'[v].docs[d] = Db'[d]
          <5>1. history[v].docs[d].version <= Version
            BY <1>2, <1>3, <1>4
          <5>2. ~(Version + 1 <= v)
            BY <1>2
          <5> QED BY <5>1, <5>2, <3>1, <1>1, <1>2, <1>3, <1>4
        <4> QED BY <4>1, <3>1, <1>1, <1>2, <1>5
      <3>2. CASE d # m.doc
        <4>1. Db'[d] = Db[d] /\ Db[d].kind # "unknown" /\ Db[d].version <= Version + 1
          BY <3>2, <1>1, <1>2, <1>4
        <4> QED BY <4>1, <1>1, <1>2, <1>4
      <3> QED BY <3>1, <3>2
    <2> QED BY <2>1, <1>1 DEF HistoryTrue
  <1>8. CacheTypeOK' /\ HeldAhead'
    BY DEF CacheInv, CacheTypeOK, HeldAhead
  <1>9. HeldFresh'
    <2>1. held \in Seq(Result) /\ \A i \in 1..Len(held) : held[i] \in Result
      BY DEF ClientInv, ClientTypeOK
    <2>2. ASSUME NEW i \in 1..Len(held)
          PROVE  held[i].version <= Db'[held[i].batch.doc].version
      <3>1. held[i].batch.doc \in Docs /\ held[i].version \in Nat
        BY <2>1, ResultTypes
      <3>2. held[i].version <= Db[held[i].batch.doc].version
        BY DEF CacheInv, HeldFresh, Fresh
      <3> QED BY <3>1, <3>2, <1>2, <1>6
    <2> QED BY <2>2 DEF HeldFresh, Fresh
  <1>10. CacheTrue'
    <2>1. ASSUME NEW d \in Docs
          PROVE  /\ resume[d] <= Version + 1
                 /\ cache[d].version <= Db'[d].version
                 /\ Db'[d].version <= resume[d] => cache[d] = Db'[d]
      <3>1. /\ resume[d] \in Nat /\ cache[d].version \in Nat
        BY DEF CacheInv, CacheTypeOK, Document
      <3>2. /\ resume[d] <= Version /\ cache[d].version <= Db[d].version
            /\ Db[d].version <= resume[d] => cache[d] = Db[d]
        BY DEF CacheInv, CacheTrue
      <3> QED BY <3>1, <3>2, <1>1, <1>2, <1>6
    <2> QED BY <2>1, <1>1 DEF CacheTrue
  <1> QED BY <1>6, <1>7, <1>8, <1>9, <1>10 DEF CacheInv

LEMMA ServerTakesKeepsCache ==
  ASSUME ClientInv, CacheInv, ServerTakes
  PROVE  CacheInv'
  <1> DEFINE m == Head(requests)
             k == Len(responses)
             r == [w |-> m.w, ok |-> TRUE, version |-> Version + 1]
  <1>1. /\ Commit(m) /\ responses' = Append(responses, r)
        /\ UNCHANGED <<cache, lastRemote, resume, held, targets, queue, user>>
    BY DEF ServerTakes, persisted, memory
  <1>2. /\ m \in Batch /\ k \in Nat
        /\ Len(held) + k + 1 \in 1..Len(queue[user])
        /\ m = queue[user][Len(held) + k + 1]
    BY NextAnswered DEF ServerTakes
  <1>3. m.w \in Nat /\ m.kind \in Kinds /\ m.doc \in Docs
    BY <1>2, BatchTypes
  <1>4. responses \in Seq(Response) /\ r.version = Version + 1
    BY DEF ClientInv, ClientTypeOK
  <1> HIDE DEF r, m
  <1>5. /\ Len(responses') = k + 1 /\ responses'[k + 1] = r
        /\ \A i \in 1..k : responses'[i] = responses[i]
        /\ \A i \in 1..(k + 1) : i \in 1..k \/ i = k + 1
    BY <1>1, <1>2, <1>4
  <1>6. /\ Db'[m.doc].version = Version + 1
        /\ \A d \in Docs : d # m.doc => Db'[d] = Db[d]
    BY <1>1, <1>3, CommitIs
  <1>7. \A d \in Docs : Db[d].version <= Version /\ Db[d].version \in Nat /\ Version \in Nat
    BY DbType DEF CacheInv, HistoryTrue
  <1>8. \A d \in Docs : Db[d].version <= Db'[d].version /\ Db'[d].version \in Nat
    BY <1>6, <1>7
  <1>9. ASSUME NEW i \in 1..k, responses[i].ok
        PROVE  responses[i].version <= Db'[queue[user][Len(held) + i].doc].version
    <2>1. responses[i].version <= Db[queue[user][Len(held) + i].doc].version
      BY <1>9 DEF CacheInv, AnswersFresh
    <2>2. queue[user][Len(held) + i].doc \in Docs /\ responses[i].version \in Nat
      BY AnswerPlace
    <2>3. PICK c : c = queue[user][Len(held) + i].doc
      OBVIOUS
    <2>4. Db[c].version <= Db'[c].version /\ Db[c].version \in Nat /\ Db'[c].version \in Nat
      BY <2>2, <2>3, <1>7, <1>8
    <2> QED BY <2>1, <2>2, <2>3, <2>4
  <1>10. Len(held) + (k + 1) = Len(held) + k + 1 /\ Version + 1 <= Version + 1
    <2>1. Len(held) \in Nat /\ Version \in Nat
      BY View, DbType
    <2> QED BY <2>1, <1>2
  <1>11. AnswersFresh'
    <2>1. ASSUME NEW i \in 1..(k + 1), responses'[i].ok
          PROVE  responses'[i].version <= Db'[queue[user][Len(held) + i].doc].version
      <3>1. CASE i \in 1..k
        BY <2>1, <3>1, <1>5, <1>9
      <3>2. CASE i = k + 1
        BY <3>2, <1>2, <1>4, <1>5, <1>6, <1>10
      <3> QED BY <3>1, <3>2, <1>5
    <2> QED BY <2>1, <1>1, <1>5 DEF AnswersFresh
  <1> QED BY <1>1, <1>3, <1>11, CommitKeepsCache

LEMMA OtherWritesKeepsCache ==
  ASSUME ClientInv, CacheInv, NEW kind \in {"set", "delete"}, NEW d \in Docs,
         OtherWrites(kind, d)
  PROVE  CacheInv'
  <1> DEFINE m == [w |-> 0, kind |-> kind, doc |-> d]
  <1>1. /\ Commit(m)
        /\ UNCHANGED <<cache, lastRemote, resume, held, targets, queue, user, responses>>
    BY DEF OtherWrites, persisted, memory, remote
  <1>2. m.w \in Nat /\ m.kind \in Kinds /\ m.doc \in Docs
    BY DEF Kinds
  <1> HIDE DEF m
  <1>3. /\ Db'[m.doc].version = Version + 1
        /\ \A e \in Docs : e # m.doc => Db'[e] = Db[e]
    BY <1>1, <1>2, CommitIs
  <1>4. \A e \in Docs : Db[e].version <= Version /\ Db[e].version \in Nat /\ Version \in Nat
    BY DbType DEF CacheInv, HistoryTrue
  <1>5. \A e \in Docs : Db[e].version <= Db'[e].version /\ Db'[e].version \in Nat
    BY <1>3, <1>4
  <1>6. ASSUME NEW i \in 1..Len(responses), responses[i].ok
        PROVE  responses[i].version <= Db'[queue[user][Len(held) + i].doc].version
    <2>1. responses[i].version <= Db[queue[user][Len(held) + i].doc].version
      BY <1>6 DEF CacheInv, AnswersFresh
    <2>2. queue[user][Len(held) + i].doc \in Docs /\ responses[i].version \in Nat
      BY AnswerPlace
    <2>3. PICK c : c = queue[user][Len(held) + i].doc
      OBVIOUS
    <2>4. Db[c].version <= Db'[c].version /\ Db[c].version \in Nat /\ Db'[c].version \in Nat
      BY <2>2, <2>3, <1>4, <1>5
    <2> QED BY <2>1, <2>2, <2>3, <2>4
  <1>7. AnswersFresh'
    BY <1>1, <1>6 DEF AnswersFresh
  <1> QED BY <1>1, <1>2, <1>7, CommitKeepsCache

(* What is released, and why no more. *)
LEMMA ReleasedUpTo ==
  ASSUME ClientInv, NEW docs, NEW version, NEW listening,
         ReleaseHeldBatchResults(docs, version, listening)
  PROVE  \E n \in 0..Len(held) :
           /\ Released(n)
           /\ cache' = WithResults(docs, SubSeq(held, 1, n))
           /\ n < Len(held) => ~IsRemoteUpTo(held[n + 1], version, listening)
           /\ \A i \in 1..n : IsRemoteUpTo(held[i], version, listening)
  <1> DEFINE upTo(k) == \A i \in 1..k : IsRemoteUpTo(held[i], version, listening)
             M == {k \in 0..Len(held) : upTo(k)}
             n == Max(M)
  <1>1. Len(held) \in Nat
    BY View
  <1>2. upTo(0)
    OBVIOUS
  <1>3. M \subseteq Int /\ M # {} /\ Len(held) \in Int /\ \A x \in M : x <= Len(held)
    BY <1>1, <1>2
  <1>4. \A k \in 0..Len(held) : k \in M <=> upTo(k)
    OBVIOUS
  <1>5. M \subseteq 0..Len(held)
    OBVIOUS
  <1>6. /\ held' = SubSeq(held, n + 1, Len(held))
        /\ ReleaseBatchResults(SubSeq(held, 1, n), docs)
    BY DEF ReleaseHeldBatchResults
  <1> HIDE DEF M
  <1>7. PICK m \in M : \A x \in M : x <= m
    BY <1>1, <1>3, MaxExists
  <1>8. n = m
    BY <1>3, <1>7, MaxIs
  <1>9. n \in 0..Len(held) /\ upTo(n)
    BY <1>4, <1>5, <1>7, <1>8
  <1> HIDE DEF n
  <1>10. Released(n) /\ cache' = WithResults(docs, SubSeq(held, 1, n))
    BY <1>6 DEF Released, ReleaseBatchResults
  <1>11. ASSUME n < Len(held), IsRemoteUpTo(held[n + 1], version, listening)
         PROVE  FALSE
    <2>1. n + 1 \in 0..Len(held)
      BY <1>1, <1>9, <1>11
    <2>2. \A i \in 1..(n + 1) : i \in 1..n \/ i = n + 1
      BY <1>9
    <2>3. upTo(n + 1)
      BY <2>2, <1>9, <1>11
    <2>4. n + 1 \in M
      BY <2>1, <2>3, <1>4
    <2> QED BY <2>4, <1>7, <1>8, <1>9, <1>1
  <1> QED BY <1>9, <1>10, <1>11

(* The answers that follow what is held and released.                         *)
LEMMA ReleaseKeepsAnswers ==
  ASSUME ClientInv, CacheInv, NEW n \in 0..Len(held), Released(n),
         UNCHANGED <<responses, user, history>>
  PROVE  AnswersFresh' /\ HeldFresh'
  <1>1. /\ held' \in Seq(Result)
        /\ Len(held') = Len(held) - n /\ Len(queue'[user]) = Len(queue[user]) - n
        /\ \A i \in 1..Len(held') : i + n \in 1..Len(held) /\ held'[i] = held[i + n]
        /\ \A i \in 1..Len(queue'[user]) :
             i + n \in 1..Len(queue[user]) /\ queue'[user][i] = queue[user][i + n]
        /\ n \in Nat /\ Len(held) \in Nat /\ Len(queue[user]) \in Nat /\ n <= Len(held)
    BY ReleasedQueue
  <1>2. Db' = Db
    BY DEF Db, Version
  <1>3. HeldFresh'
    BY <1>1, <1>2 DEF CacheInv, HeldFresh
  <1>4. ASSUME NEW i \in 1..Len(responses)
        PROVE  queue'[user][Len(held') + i] = queue[user][Len(held) + i]
    <2>1. Len(held) + i \in 1..Len(queue[user])
      BY AnswerPlace
    <2>2. Len(held') + i \in 1..Len(queue'[user]) /\ (Len(held') + i) + n = Len(held) + i
      BY <2>1, <1>1
    <2> QED BY <2>2, <1>1
  <1>5. AnswersFresh'
    BY <1>2, <1>4 DEF CacheInv, AnswersFresh
  <1> QED BY <1>3, <1>5

LEMMA ReleasedCache ==
  ASSUME ClientInv, CacheInv, NEW docs, Behind(docs, Db), NEW n \in 0..Len(held),
         cache' = WithResults(docs, SubSeq(held, 1, n))
  PROVE  /\ Behind(cache', Db)
         /\ \A d \in Docs : docs[d] = Db[d] => cache'[d] = Db[d]
  <1> DEFINE s == SubSeq(held, 1, n)
  <1>1. held \in Seq(Result) /\ Len(held) \in Nat
    BY DEF ClientInv, ClientTypeOK
  <1>2. s \in Seq(Result) /\ Len(s) = n /\ \A i \in 1..n : s[i] = held[i] /\ i \in 1..Len(held)
    BY <1>1
  <1>3. \A i \in 1..Len(s) : Fresh(s[i], Db)
    BY <1>2 DEF CacheInv, HeldFresh
  <1>4. cache' = WithResults(docs, s)
    OBVIOUS
  <1> HIDE DEF s
  <1> QED BY <1>2, <1>3, <1>4, AllFresh

LEMMA CacheBehind ==
  ASSUME ClientInv, CacheInv
  PROVE  Behind(cache, Db)
  <1>1. cache \in [Docs -> Document] /\ Db \in [Docs -> Document]
    BY DbType DEF CacheInv, CacheTypeOK
  <1>2. \A d \in Docs : cache[d].version <= Db[d].version
    BY DEF CacheInv, CacheTrue
  <1>3. \A d \in Docs : Db[d].kind # "unknown"
    BY DbType DEF CacheInv, HistoryTrue
  <1> QED BY <1>1, <1>2, <1>3 DEF Behind

(* The last listener goes: all is released.                                   *)
LEMMA StopListeningKeepsCache ==
  ASSUME ClientInv, CacheInv, NEW d, StopListening(d)
  PROVE  CacheInv'
  <1>1. /\ UNCHANGED <<lastRemote, resume, responses, user, history>>
        /\ targets' = targets \ {d}
    BY DEF StopListening, remote
  <1>2. targets \in SUBSET Docs
    BY DEF CacheInv, CacheTypeOK
  <1>3. CASE targets' # {}
    <2>1. UNCHANGED <<held, cache, queue>>
      BY <1>3 DEF StopListening
    <2>2. AnswersFresh'
      BY <1>1, <2>1, AnswersFreshStay
    <2>3. Db' = Db /\ Version' = Version
      BY <1>1 DEF Db, Version
    <2>4. CacheTypeOK' /\ HistoryTrue' /\ CacheTrue' /\ HeldFresh' /\ HeldAhead'
      BY <1>1, <1>2, <1>3, <2>1, <2>3
         DEF CacheInv, CacheTypeOK, HistoryTrue, CacheTrue, HeldFresh, HeldAhead
    <2> QED BY <2>2, <2>4 DEF CacheInv
  <1>4. CASE targets' = {}
    <2>1. ReleaseHeldBatchResults(cache, lastRemote, {})
      BY <1>4 DEF StopListening
    <2>2. PICK n \in 0..Len(held) :
             /\ Released(n)
             /\ cache' = WithResults(cache, SubSeq(held, 1, n))
             /\ n < Len(held) => ~IsRemoteUpTo(held[n + 1], lastRemote, {})
      BY <2>1, ReleasedUpTo
    <2>3. Len(held) \in Nat /\ ~(n < Len(held))
      BY <2>2, View DEF IsRemoteUpTo
    <2>4. held' \in Seq(Result) /\ Len(held') = Len(held) - n
      BY <2>2, ReleasedQueue
    <2>5. held' = <<>>
      BY <2>3, <2>4
    <2>6. AnswersFresh' /\ HeldFresh'
      BY <1>1, <2>2, ReleaseKeepsAnswers
    <2>7. Behind(cache', Db) /\ \A c \in Docs : cache[c] = Db[c] => cache'[c] = Db[c]
      BY <2>2, CacheBehind, ReleasedCache
    <2>8. Db' = Db /\ Version' = Version
      BY <1>1 DEF Db, Version
    <2>9. CacheTypeOK' /\ HistoryTrue'
      BY <1>1, <1>2, <2>7, <2>8 DEF CacheInv, CacheTypeOK, HistoryTrue, Behind
    <2>10. CacheTrue'
      BY <1>1, <2>7, <2>8 DEF CacheInv, CacheTrue, Behind
    <2>11. HeldAhead'
      BY <2>5 DEF HeldAhead
    <2> QED BY <2>6, <2>9, <2>10, <2>11 DEF CacheInv
  <1> QED BY <1>3, <1>4

(* A snapshot brings every document of its listeners that changed.            *)
LEMMA WatchSnapshotKeepsCache ==
  ASSUME ClientInv, CacheInv, NEW v \in 1..Version, WatchSnapshot(v)
  PROVE  CacheInv'
  <1> DEFINE docs == history[v].docs
             current == {d \in targets : v >= since[d]}
             changed == {d \in current : docs[d].version > resume[d]}
             applies(d) == \/ docs[d].kind = "doc"
                           \/ cache[d].kind = "unknown"
                           \/ docs[d].version >= cache[d].version
             x == [d \in Docs |-> IF d \in changed /\ applies(d) THEN docs[d] ELSE cache[d]]
  <1>1. /\ targets # {} /\ lastRemote' = v
        /\ resume' = [d \in Docs |-> IF d \in current THEN v ELSE resume[d]]
        /\ ReleaseHeldBatchResults(x, v, targets)
        /\ UNCHANGED <<user, targets, responses, history>>
    BY DEF WatchSnapshot, remote
  <1>2. /\ docs \in [Docs -> Document] /\ Db \in [Docs -> Document] /\ Version \in Nat
        /\ v \in Nat /\ v <= Version
        /\ cache \in [Docs -> Document] /\ resume \in [Docs -> Nat]
        /\ targets \in SUBSET Docs
    BY DbType DEF CacheInv, CacheTypeOK
  <1>3. \A d \in Docs : /\ docs[d].version \in Nat /\ Db[d].version \in Nat
                        /\ cache[d].version \in Nat /\ resume[d] \in Nat
    BY <1>2 DEF Document
  <1>4. \A d \in Docs : /\ Db[d].kind # "unknown" /\ docs[d].version <= Db[d].version
                        /\ Db[d].version <= v => docs[d] = Db[d]
    BY DbType DEF CacheInv, HistoryTrue
  <1>5. \A d \in Docs : /\ cache[d].version <= Db[d].version
                        /\ resume[d] <= Version
                        /\ Db[d].version <= resume[d] => cache[d] = Db[d]
    BY DEF CacheInv, CacheTrue
  <1>6. /\ x \in [Docs -> Document]
        /\ \A d \in Docs : x[d] = IF d \in changed /\ applies(d) THEN docs[d] ELSE cache[d]
    BY <1>2
  <1>7. \A d \in changed : d \in current /\ docs[d].version > resume[d]
    OBVIOUS
  <1>8. \A d \in current : d \notin changed => ~(docs[d].version > resume[d])
    OBVIOUS
  <1> HIDE DEF docs, current, changed, x
  <1>9. Behind(x, Db)
    BY <1>2, <1>4, <1>5, <1>6 DEF Behind
  <1>10. \A d \in Docs : resume'[d] = IF d \in current THEN v ELSE resume[d]
    BY <1>1
  <1>11. ASSUME NEW d \in Docs, Db[d].version <= resume'[d]
         PROVE  x[d] = Db[d]
    <2>1. CASE d \in current
      <3>1. docs[d] = Db[d]
        BY <2>1, <1>4, <1>10, <1>11
      <3>2. applies(d)
        BY <3>1, <1>3, <1>5
      <3>3. CASE d \in changed
        BY <3>1, <3>2, <3>3, <1>6
      <3>4. CASE d \notin changed
        BY <2>1, <3>1, <3>4, <1>3, <1>5, <1>6, <1>8
      <3> QED BY <3>3, <3>4
    <2>2. CASE d \notin current
      BY <2>2, <1>5, <1>6, <1>7, <1>10, <1>11
    <2> QED BY <2>1, <2>2
  <1>12. PICK n \in 0..Len(held) :
             /\ Released(n)
             /\ cache' = WithResults(x, SubSeq(held, 1, n))
             /\ n < Len(held) => ~IsRemoteUpTo(held[n + 1], v, targets)
    BY <1>1, ReleasedUpTo
  <1>13. AnswersFresh' /\ HeldFresh'
    BY <1>1, <1>12, ReleaseKeepsAnswers
  <1>14. Behind(cache', Db) /\ \A d \in Docs : x[d] = Db[d] => cache'[d] = Db[d]
    BY <1>9, <1>12, ReleasedCache
  <1>15. Db' = Db /\ Version' = Version
    BY <1>1 DEF Db, Version
  <1>16. HistoryTrue'
    BY <1>1, <1>15 DEF CacheInv, HistoryTrue
  <1>17. CacheTypeOK'
    BY <1>1, <1>2, <1>14 DEF CacheTypeOK, Behind
  <1>18. CacheTrue'
    <2>1. \A d \in Docs : resume'[d] <= Version
      BY <1>2, <1>5, <1>10
    <2> QED BY <2>1, <1>11, <1>14, <1>15 DEF CacheTrue, Behind
  <1>19. HeldAhead'
    <2>1. SUFFICES ASSUME held' # <<>> PROVE targets # {} /\ held'[1].version > v
      BY <1>1 DEF HeldAhead
    <2>2. /\ held' \in Seq(Result) /\ Len(held') = Len(held) - n
          /\ \A i \in 1..Len(held') : i + n \in 1..Len(held) /\ held'[i] = held[i + n]
          /\ n \in Nat /\ Len(held) \in Nat
      BY <1>12, ReleasedQueue
    <2>3. 1 \in 1..Len(held') /\ 1 + n = n + 1
      BY <2>1, <2>2
    <2>4. n < Len(held) /\ held'[1] = held[n + 1] /\ held'[1] \in Result
      BY <2>2, <2>3
    <2>5. ~(held'[1].version <= v)
      BY <2>4, <1>12 DEF IsRemoteUpTo
    <2>6. held'[1].version \in Nat
      BY <2>4, ResultTypes
    <2> QED BY <2>5, <2>6, <1>1, <1>2
  <1> QED BY <1>13, <1>16, <1>17, <1>18, <1>19 DEF CacheInv

LEMMA WriteResponseKeepsCache ==
  ASSUME ClientInv, CacheInv, WriteResponse
  PROVE  CacheInv'
  <1> DEFINE b == Head(pipeline)
             r == [batch |-> b, version |-> Head(responses).version]
  <1>1. /\ UNCHANGED <<lastRemote, resume, targets, history, user>>
        /\ responses' = Tail(responses) /\ responses # <<>> /\ Head(responses).ok
        /\ AcknowledgeBatch(r)
    BY DEF WriteResponse
  <1>2. FirstGone
    BY WriteResponseKeeps
  <1>3. /\ responses \in Seq(Response) /\ Len(responses) \in Nat \ {0}
        /\ 1 \in 1..Len(responses) /\ Head(responses) = responses[1]
        /\ Len(responses') = Len(responses) - 1
        /\ \A i \in 1..(Len(responses) - 1) :
             responses'[i] = responses[i + 1] /\ i + 1 \in 1..Len(responses)
    <2>1. responses \in Seq(Response)
      BY DEF ClientInv, ClientTypeOK
    <2> QED BY <2>1, <1>1
  <1>4. /\ pipeline \in Seq(Batch) /\ Len(pipeline) \in Nat \ {0} /\ b = pipeline[1]
    <2>1. pipeline \in Seq(Batch) /\ Len(pipeline) \in Nat \ {0}
      BY <1>1, FirstIs DEF ClientInv, ClientTypeOK
    <2> QED BY <2>1
  <1>5. b \in Batch /\ b = queue[user][Len(held) + 1]
    BY <1>3, <1>4, AnswerPlace
  <1>6. r \in Result /\ Fresh(r, Db)
    <2>1. Head(responses).version \in Nat
      BY <1>3, AnswerPlace
    <2>2. Head(responses).version <= Db[b.doc].version
      BY <1>1, <1>3, <1>5 DEF CacheInv, AnswersFresh
    <2> QED BY <2>1, <2>2, <1>5 DEF Result, Fresh
  <1> HIDE DEF b, r
  <1>7. Db' = Db /\ Version' = Version
    BY <1>1 DEF Db, Version
  <1>8. held \in Seq(Result) /\ Len(held) \in Nat
    BY DEF ClientInv, ClientTypeOK
  <1>9. AnswersFresh'
    <2>1. ASSUME NEW i \in 1..(Len(responses) - 1)
          PROVE  queue'[user][Len(held') + i] = queue[user][Len(held) + (i + 1)]
      <3>1. /\ Len(held) + (i + 1) \in 1..Len(queue[user]) /\ Len(queue[user]) \in Nat
            /\ Len(held) + (i + 1) = Len(held) + 1 + i
        BY <1>3, <1>8, AnswerPlace, View
      <3>2. i \in 1..(Len(queue[user]) - (Len(held) + 1))
        BY <3>1, <1>3, <1>8
      <3> QED BY <3>1, <3>2, <1>2 DEF FirstGone
    <2>2. ASSUME NEW i \in 1..Len(responses'), responses'[i].ok
          PROVE  responses'[i].version <= Db[queue'[user][Len(held') + i].doc].version
      <3>1. i \in 1..(Len(responses) - 1)
        BY <1>3
      <3>2. responses'[i] = responses[i + 1] /\ i + 1 \in 1..Len(responses)
        BY <3>1, <1>3
      <3> QED BY <3>1, <3>2, <2>1, <2>2 DEF CacheInv, AnswersFresh
    <2> QED BY <2>2, <1>1, <1>7 DEF AnswersFresh
  <1>10. HistoryTrue'
    BY <1>1, <1>7 DEF CacheInv, HistoryTrue
  <1>11. CASE held # <<>> \/ ~IsRemoteUpTo(r, lastRemote, targets)
    <2>1. held' = Append(held, r) /\ cache' = cache
      BY <1>11, <1>1 DEF AcknowledgeBatch
    <2>2. /\ Len(held') = Len(held) + 1 /\ held'[Len(held) + 1] = r
          /\ \A i \in 1..Len(held) : held'[i] = held[i]
          /\ \A i \in 1..(Len(held) + 1) : i \in 1..Len(held) \/ i = Len(held) + 1
      BY <2>1, <1>6, <1>8
    <2>3. HeldFresh'
      BY <2>2, <1>6, <1>7 DEF CacheInv, HeldFresh
    <2>4. HeldAhead'
      <3>1. CASE held # <<>>
        <4>1. 1 \in 1..Len(held)
          BY <3>1, <1>8
        <4> QED BY <4>1, <3>1, <2>2, <1>1 DEF CacheInv, HeldAhead
      <3>2. CASE held = <<>>
        <4>1. held'[1] = r
          BY <3>2, <2>2
        <4>2. ~(r.version <= lastRemote) /\ targets # {}
          BY <3>2, <1>11 DEF IsRemoteUpTo
        <4>3. r.version \in Nat /\ lastRemote \in Nat
          BY <1>6, ResultTypes DEF CacheInv, CacheTypeOK
        <4>4. r.version > lastRemote
          BY <4>2, <4>3
        <4> QED BY <4>1, <4>2, <4>4, <1>1 DEF HeldAhead
      <3> QED BY <3>1, <3>2
    <2>5. CacheTypeOK' /\ CacheTrue'
      BY <2>1, <1>1, <1>7 DEF CacheInv, CacheTypeOK, CacheTrue
    <2> QED BY <2>3, <2>4, <2>5, <1>9, <1>10 DEF CacheInv
  <1>12. CASE ~(held # <<>> \/ ~IsRemoteUpTo(r, lastRemote, targets))
    <2>1. held' = held /\ held = <<>> /\ cache' = WithResults(cache, <<r>>)
      BY <1>12, <1>1 DEF AcknowledgeBatch, ReleaseBatchResults
    <2> DEFINE s == <<r>>
    <2>2. s \in Seq(Result) /\ (\A i \in 1..Len(s) : Fresh(s[i], Db))
          /\ cache' = WithResults(cache, s)
      BY <1>6, <2>1
    <2> HIDE DEF s
    <2>3. Behind(cache', Db) /\ \A d \in Docs : cache[d] = Db[d] => cache'[d] = Db[d]
      BY <2>2, CacheBehind, AllFresh
    <2>4. HeldFresh' /\ HeldAhead'
      BY <2>1, <1>7 DEF CacheInv, HeldFresh, HeldAhead
    <2>5. CacheTypeOK' /\ CacheTrue'
      BY <2>3, <1>1, <1>7 DEF CacheInv, CacheTypeOK, CacheTrue, Behind
    <2> QED BY <2>4, <2>5, <1>9, <1>10 DEF CacheInv
  <1> QED BY <1>11, <1>12

LEMMA NextKeepsCache == ClientInv /\ CacheInv /\ [Next]_vars => CacheInv'
  <1> SUFFICES ASSUME ClientInv, CacheInv, [Next]_vars PROVE CacheInv'
    OBVIOUS
  <1>1. budget.docs \subseteq Docs
    BY DocsOfBudget
  <1>2. ASSUME NEW d \in budget.docs, NEW kind \in {"set", "update", "delete"},
               NEW allowed \in BOOLEAN, Write(kind, d, allowed)
        PROVE  CacheInv'
    <2>1. d \in Docs /\ kind \in Kinds
      BY <1>1 DEF Kinds
    <2> QED BY <1>2, <2>1, WriteKeepsCache
  <1>3. CASE App
    BY <1>1, <1>2, <1>3, StopListeningKeepsCache, QuietKeepsCache DEF App
  <1>4. CASE Client
    BY <1>4, QuietKeepsCache, WriteResponseKeepsCache DEF Client
  <1>5. CASE Backend
    BY <1>1, <1>5, ServerTakesKeepsCache, ServerRefusesKeepsCache, OtherWritesKeepsCache,
       WatchSnapshotKeepsCache DEF Backend
  <1> QED BY <1>3, <1>4, <1>5, QuietKeepsCache DEF Next

LEMMA EqualFromInv == ClientInv /\ CacheInv => SettledMeansEqual
  <1> SUFFICES ASSUME ClientInv, CacheInv, NEW d \in targets,
                      Unacknowledged(user) = <<>>, lastRemote = Version, resume[d] = Version
               PROVE  LocalDocument(d) = Db[d]
    BY DEF SettledMeansEqual
  <1>1. d \in Docs
    BY DEF CacheInv, CacheTypeOK
  <1>2. held = <<>>
    <2>1. SUFFICES ASSUME held # <<>> PROVE FALSE
      OBVIOUS
    <2>2. held \in Seq(Result)
      BY DEF ClientInv, ClientTypeOK
    <2>3. 1 \in 1..Len(held) /\ held[1] \in Result
      BY <2>1, <2>2
    <2>4. held[1].version <= Db[held[1].batch.doc].version /\ held[1].version > lastRemote
      BY <2>1, <2>3 DEF CacheInv, HeldFresh, Fresh, HeldAhead
    <2>5. held[1].batch.doc \in Docs /\ held[1].version \in Nat
      BY <2>3, ResultTypes
    <2>6. \A c \in Docs : Db[c].version <= Version /\ Db[c].version \in Nat /\ Version \in Nat
      BY DbType DEF CacheInv, HistoryTrue
    <2>7. PICK c \in Docs : c = held[1].batch.doc
      BY <2>5
    <2>8. Db[c].version <= Version /\ Db[c].version \in Nat /\ Version \in Nat
      BY <2>6, <2>7
    <2> QED BY <2>4, <2>5, <2>7, <2>8
  <1>3. queue[user] = <<>>
    <2>1. /\ queue[user] \in Seq(Batch)
          /\ Unacknowledged(user) = SubSeq(queue[user], Len(held) + 1, Len(queue[user]))
      BY View
    <2>2. Len(held) = 0
      BY <1>2
    <2>3. SubSeq(queue[user], 1, Len(queue[user])) = <<>>
      BY <2>1, <2>2
    <2>4. PICK q \in Seq(Batch) : q = queue[user] /\ SubSeq(q, 1, Len(q)) = <<>>
      BY <2>1, <2>3
    <2>5. Len(SubSeq(q, 1, Len(q))) = Len(q) /\ Len(<<>>) = 0
      OBVIOUS
    <2>6. Len(q) = 0
      BY <2>4, <2>5
    <2> QED BY <2>4, <2>6
  <1>4. LocalDocument(d) = cache[d]
    <2> DEFINE Eq(f) == f = [n \in 0..0 |->
                   IF n = 0 THEN cache[d]
                   ELSE IF queue[user][n].doc = d THEN ApplyMutation(f[n - 1], queue[user][n])
                   ELSE f[n - 1]]
               h == CHOOSE f : Eq(f)
    <2>1. Len(queue[user]) = 0
      BY <1>3
    <2>2. LocalDocument(d) = h[0]
      BY <2>1 DEF LocalDocument
    <2>3. Eq([n \in 0..0 |-> cache[d]])
      OBVIOUS
    <2>4. Eq(h)
      BY <2>3
    <2> QED BY <2>2, <2>4
  <1>5. cache[d] = Db[d]
    <2>1. Db[d].version <= Version
      BY <1>1 DEF CacheInv, HistoryTrue
    <2> QED BY <1>1, <2>1 DEF CacheInv, CacheTrue
  <1> QED BY <1>4, <1>5

(* Once nothing of the user waits for the backend and the listener of a       *)
(* document is up to date, the device shows the document as the backend has   *)
(* it, for every order of writes, acknowledgements, snapshots and listeners.  *)
THEOREM SettledIsEqual == Spec => []SettledMeansEqual
  <1>1. Spec => []CacheInv
    BY ClientInvariant, CacheInvInit, NextKeepsCache, PTL DEF Spec
  <1> QED BY <1>1, ClientInvariant, EqualFromInv, PTL

--------------------------------------------------------------------------------
(* The device's own writes, while nobody else interferes. *)

Writes == 1..Len(outcome)

Whole(b) == outcome[b].kind # "update"

Waiting(b) == \E i \in 1..Len(queue[user]) : queue[user][i].w = b

(* The backend has it on this stream or the client knows that it has.         *)
Answered(b) ==
  \/ outcome[b].result = "ok"
  \/ \E i \in 1..Len(responses) : responses[i].ok /\ responses[i].w = b

(* Acknowledged, and no more in the queue. *)
Landed == {b \in Writes : outcome[b].result = "ok" /\ ~Waiting(b)}

TakenAfter(b, v) == \E y \in 1..Version : y > v /\ history[y].w = b

(* The backend has taken nothing later that does not build on b.              *)
Latest(b) ==
  \A x \in Writes :
    x > b /\ outcome[x].doc = outcome[b].doc /\ Whole(x) => ~InHistory(history, x)

(* Document doc is what write b and perhaps later updates made of it.         *)
Shows(b, doc) ==
  /\ outcome[b].kind = "delete" => doc.kind = "deleted"
  /\ outcome[b].kind = "set" => doc.kind = "doc" /\ doc.g = b
  /\ outcome[b].kind # "delete" /\ doc.kind = "doc" => doc.f >= b

(* The first field of document doc, d's, is of a write to d.                  *)
From(d, doc) ==
  doc.kind = "doc" =>
    doc.f = 0 \/ (doc.f \in Writes /\ InHistory(history, doc.f) /\ outcome[doc.f].doc = d)

(* All writes are the user's; those that landed come before those that wait.  *)
OwnQueue ==
  /\ \A w \in Writes : outcome[w].user = user
  /\ \A i \in 1..Len(queue[user]) : queue[user][i].doc = outcome[queue[user][i].w].doc
  /\ \A b \in Landed : \A i \in 1..Len(queue[user]) : b < queue[user][i].w

(* What is sent again was taken before in the same order.                     *)
TakenInOrder ==
  \A i, j \in 1..Len(queue[user]) :
    i < j /\ InHistory(history, queue[user][j].w) => InHistory(history, queue[user][i].w)

(* Version v is that of write w, and after it only later writes are taken.    *)
LastTaken(w, v) ==
  v \in 1..Version /\ history[v].w = w /\ \A y \in 1..Version : y > v => history[y].w > w

HeldLast == \A i \in 1..Len(held) : LastTaken(held[i].batch.w, held[i].version)

AnswersLast ==
  \A i \in 1..Len(responses) :
    responses[i].ok => LastTaken(responses[i].w, responses[i].version)

Versions ==
  \A v \in 1..Version : \A d \in Docs :
    /\ history[v].docs[d].version \in 1..v
    /\ history[history[v].docs[d].version].docs[d] = history[v].docs[d]

HistoryFrom == \A v \in 1..Version : \A d \in Docs : From(d, history[v].docs[d])

(* An update is taken after a delete only if there was a set between them.    *)
UpdatesOnDocs ==
  \A b, w \in Writes :
    /\ b < w /\ outcome[b].kind = "delete" /\ outcome[b].result # "failed"
    /\ outcome[w].kind = "update" /\ outcome[b].doc = outcome[w].doc /\ InHistory(history, w)
    => \E s \in Writes : /\ b < s /\ s < w /\ outcome[s].kind = "set"
                         /\ outcome[s].doc = outcome[b].doc /\ InHistory(history, s)

(* An update that was taken finds its document when it is sent again, or a    *)
(* write that makes the document will be sent again before it.                *)
TakenAgain ==
  \A w \in Writes : outcome[w].kind = "update" /\ InHistory(history, w) /\ Latest(w) =>
    \/ Db[outcome[w].doc].kind = "doc"
    \/ \E c \in Writes : /\ c < w /\ Whole(c) /\ outcome[c].doc = outcome[w].doc
                         /\ InHistory(history, c) /\ ~Answered(c)

(* What was taken and then refused was overwritten.                           *)
FailedOver ==
  \A w \in Writes : outcome[w].result = "failed" /\ InHistory(history, w) => ~Latest(w)

RefusedOver ==
  \A i \in 1..Len(responses) :
    ~responses[i].ok /\ InHistory(history, responses[i].w) => ~Latest(responses[i].w)

(* The backend shows what it took last, from its version on.                  *)
BackendShows ==
  \A b \in Writes : Answered(b) /\ Latest(b) =>
    \A v \in 1..Version : ~TakenAfter(b, v) => Shows(b, history[v].docs[outcome[b].doc])

(* Documents docs show the writes in landed, or are as new as the version     *)
(* they have.                                                                 *)
ShowsAll(docs, landed) ==
  \A d \in Docs :
    /\ \A b \in landed : outcome[b].doc = d /\ Latest(b) => Shows(b, docs[d])
    /\ docs[d].version > 0 /\ (\A b \in landed : ~TakenAfter(b, docs[d].version)) =>
         docs[d] = history[docs[d].version].docs[d]
    /\ From(d, docs[d])

CacheShows == ShowsAll(cache, Landed)

(* What landed is in every snapshot still to come.                            *)
ListenersKnow ==
  /\ since \in [Docs -> Nat]
  /\ \A d \in targets : \A y \in 1..Version :
       y > since[d] /\ y > lastRemote => history[y].w \notin Landed

OwnInv ==
  /\ OwnQueue
  /\ TakenInOrder
  /\ HeldLast
  /\ AnswersLast
  /\ Versions
  /\ HistoryFrom
  /\ UpdatesOnDocs
  /\ TakenAgain
  /\ FailedOver
  /\ RefusedOver
  /\ BackendShows
  /\ CacheShows
  /\ ListenersKnow

(* The types of what follows. *)
LEMMA OwnTypes ==
  ASSUME ClientInv
  PROVE  /\ Len(outcome) \in Nat /\ user \in Users
         /\ \A b \in Writes : /\ outcome[b] \in Outcome /\ outcome[b].kind \in Kinds
                              /\ outcome[b].doc \in Docs
                              /\ outcome[b].result \in {"pending", "ok", "failed"}
         /\ \A v \in 1..Version : history[v].w \in Nat /\ history[v].w <= Len(outcome)
         /\ \A w \in Nat \ {0} : InHistory(history, w) => w \in Writes
         /\ \A i \in 1..Len(queue[user]) :
              /\ queue[user][i] \in Batch /\ queue[user][i].w \in Writes
              /\ queue[user][i].kind = outcome[queue[user][i].w].kind
              /\ outcome[queue[user][i].w].result \in {"pending", "ok"}
         /\ \A i, j \in 1..Len(queue[user]) : i < j => queue[user][i].w < queue[user][j].w
         /\ \A i \in 1..Len(responses) : responses[i].w \in Writes /\ Waiting(responses[i].w)
         /\ \A i \in 1..Len(held) : held[i].batch.w \in Writes /\ Waiting(held[i].batch.w)
  <1>1. /\ outcome \in Seq(Outcome) /\ Len(outcome) \in Nat /\ user \in Users
        /\ history \in Seq(Commitment) /\ Len(history) \in Nat /\ queue[user] \in Seq(Batch)
    BY View DEF ClientInv, ClientTypeOK
  <1>2. \A b \in Writes : /\ outcome[b] \in Outcome /\ outcome[b].kind \in Kinds
                          /\ outcome[b].doc \in Docs
                          /\ outcome[b].result \in {"pending", "ok", "failed"}
    <2>1. \A b \in Writes : outcome[b] \in Outcome
      BY <1>1 DEF Writes
    <2> QED BY <2>1 DEF Outcome
  <1>3. \A v \in 1..Version : history[v].w \in Nat /\ history[v].w <= Len(outcome)
    <2>1. \A v \in 1..Version : history[v] \in Commitment
      BY <1>1 DEF Version
    <2>2. \A c \in Commitment : c.w \in Nat
      BY DEF Commitment
    <2> QED BY <2>1, <2>2 DEF ClientInv, OutcomesTrue, Version
  <1>4. \A w \in Nat \ {0} : InHistory(history, w) => w \in Writes
    BY <1>1, <1>3 DEF InHistory, Version, Writes
  <1>5. \A i \in 1..Len(queue[user]) :
          /\ queue[user][i] \in Batch /\ queue[user][i].w \in Writes
          /\ queue[user][i].kind = outcome[queue[user][i].w].kind
          /\ outcome[queue[user][i].w].result \in {"pending", "ok"}
    BY <1>1, BatchTypes DEF ClientInv, QueuesPending, Writes
  <1>6. \A i, j \in 1..Len(queue[user]) : i < j => queue[user][i].w < queue[user][j].w
    BY <1>1 DEF ClientInv, IdsInOrder
  <1>7. \A i \in 1..Len(responses) : responses[i].w \in Writes /\ Waiting(responses[i].w)
    <2>1. ASSUME NEW i \in 1..Len(responses)
          PROVE  responses[i].w \in Writes /\ Waiting(responses[i].w)
      <3>1. PICK j \in 1..Len(queue[user]) : pipeline[i] = queue[user][j]
        BY AnswerPlace
      <3>2. responses[i].w = pipeline[i].w
        BY DEF ClientInv, AnswersInOrder
      <3> QED BY <3>1, <3>2, <1>5 DEF Waiting
    <2> QED BY <2>1
  <1>8. \A i \in 1..Len(held) : held[i].batch.w \in Writes /\ Waiting(held[i].batch.w)
    <2>1. ASSUME NEW i \in 1..Len(held)
          PROVE  held[i].batch.w \in Writes /\ Waiting(held[i].batch.w)
      <3>1. i \in 1..Len(queue[user]) /\ held[i].batch = queue[user][i]
        BY View DEF ClientInv, HeldFirst
      <3> QED BY <3>1, <1>5 DEF Waiting
    <2> QED BY <2>1
  <1> QED BY <1>1, <1>2, <1>3, <1>4, <1>5, <1>6, <1>7, <1>8

LEMMA OwnInvInit == Init => OwnInv
  <1> SUFFICES ASSUME Init PROVE OwnInv
    OBVIOUS
  <1>1. /\ outcome = <<>> /\ held = <<>> /\ responses = <<>> /\ targets = {} /\ user \in Users
        /\ queue[user] = <<>> /\ cache = [d \in Docs |-> Unknown] /\ since = [d \in Docs |-> 0]
    BY ClientAssumption DEF Init
  <1>2. Len(<<>>) = 0 /\ 1..0 = {}
    OBVIOUS
  <1>3. Writes = {} /\ Landed = {} /\ 1..Len(queue[user]) = {} /\ 1..Len(held) = {}
        /\ 1..Len(responses) = {}
    BY <1>1, <1>2 DEF Writes, Landed
  <1>4. PICK there : history = <<[w |-> 0, docs |->
         [d \in Docs |-> IF d \in there THEN [kind |-> "doc", f |-> 0, g |-> 0, version |-> 1]
                         ELSE Deleted(1)]]>>
    BY DEF Init
  <1>5. Version = 1 /\ \A v \in 1..Version : v = 1
    BY <1>4 DEF Version
  <1>6. \A d \in Docs : history[1].docs[d].version = 1 /\ history[1].docs[d].f = 0
    BY <1>4 DEF Deleted
  <1>7. OwnQueue /\ TakenInOrder /\ HeldLast /\ AnswersLast
    BY <1>3 DEF OwnQueue, TakenInOrder, HeldLast, AnswersLast
  <1>8. Versions
    BY <1>5, <1>6 DEF Versions
  <1>9. HistoryFrom
    BY <1>5, <1>6 DEF HistoryFrom, From
  <1>10. UpdatesOnDocs /\ TakenAgain /\ FailedOver /\ RefusedOver /\ BackendShows
    BY <1>3 DEF UpdatesOnDocs, TakenAgain, FailedOver, RefusedOver, BackendShows
  <1>11. CacheShows
    <2>1. \A d \in Docs : cache[d].version = 0 /\ cache[d].kind = "unknown"
      BY <1>1 DEF Unknown
    <2> QED BY <2>1, <1>3 DEF CacheShows, ShowsAll, From
  <1>12. ListenersKnow
    BY <1>1 DEF ListenersKnow
  <1> QED BY <1>7, <1>8, <1>9, <1>10, <1>11, <1>12 DEF OwnInv

(* Steps that leave the backend as it is and tell the client nothing new of   *)
(* what the backend has: writes may be added and settled.                     *)
Grown ==
  /\ history' = history /\ user' = user
  /\ Writes \subseteq Writes'
  /\ \A b \in Writes : /\ outcome'[b].kind = outcome[b].kind
                       /\ outcome'[b].doc = outcome[b].doc
                       /\ outcome[b].result = "failed" => outcome'[b].result = "failed"
                       /\ outcome'[b].result = "failed" /\ InHistory(history, b) =>
                            outcome[b].result = "failed" \/ ~Latest(b)
  /\ \A b \in Writes' : Answered(b)' => b \in Writes /\ Answered(b)
  /\ \A b \in Writes' : outcome'[b].user = user

(* What then is true of what the backend has, stays true.                     *)
LEMMA GrownKeeps ==
  ASSUME ClientInv, OwnInv, Grown
  PROVE  /\ Versions' /\ HistoryFrom' /\ UpdatesOnDocs' /\ TakenAgain' /\ BackendShows'
         /\ FailedOver'
         /\ \A b \in Writes : (Latest(b)' <=> Latest(b))
         /\ \A b \in Writes : \A doc : Shows(b, doc)' <=> Shows(b, doc)
         /\ \A d, doc : From(d, doc) => From(d, doc)'
  <1>1. /\ history' = history /\ Version' = Version /\ Db' = Db
        /\ Writes \subseteq Writes'
        /\ \A b \in Writes : /\ outcome'[b].kind = outcome[b].kind
                             /\ outcome'[b].doc = outcome[b].doc
    BY DEF Grown, Version, Db
  <1>2. \A w \in Writes' : InHistory(history, w) => w \in Writes
    BY OwnTypes DEF Writes
  <1>3. ASSUME NEW b \in Writes
        PROVE  Latest(b)' <=> Latest(b)
    BY <1>1, <1>2 DEF Latest, Whole
  <1>4. \A b \in Writes : \A doc : Shows(b, doc)' <=> Shows(b, doc)
    BY <1>1 DEF Shows
  <1>5. \A d, doc : From(d, doc) => From(d, doc)'
    BY <1>1 DEF From
  <1>6. Versions'
    BY <1>1 DEF OwnInv, Versions
  <1>7. HistoryFrom'
    BY <1>1, <1>5 DEF OwnInv, HistoryFrom
  <1>8. UpdatesOnDocs'
    <2>1. ASSUME NEW b \in Writes', NEW w \in Writes',
                 b < w, outcome'[b].kind = "delete", outcome'[b].result # "failed",
                 outcome'[w].kind = "update", outcome'[b].doc = outcome'[w].doc,
                 InHistory(history, w)
          PROVE  \E s \in Writes : /\ b < s /\ s < w /\ outcome[s].kind = "set"
                                   /\ outcome[s].doc = outcome[b].doc /\ InHistory(history, s)
                                   /\ b \in Writes
      <3>1. w \in Writes /\ b \in Writes
        BY <2>1, <1>2, OwnTypes DEF Writes
      <3>2. outcome[b].result # "failed"
        BY <2>1, <3>1 DEF Grown
      <3> QED BY <2>1, <3>1, <3>2, <1>1 DEF OwnInv, UpdatesOnDocs
    <2> QED BY <2>1, <1>1 DEF UpdatesOnDocs
  <1>9. TakenAgain'
    <2>1. ASSUME NEW w \in Writes', outcome'[w].kind = "update", InHistory(history, w),
                 Latest(w)'
          PROVE  \/ Db[outcome'[w].doc].kind = "doc"
                 \/ \E c \in Writes : /\ c < w /\ Whole(c) /\ outcome[c].doc = outcome'[w].doc
                                      /\ InHistory(history, c) /\ ~Answered(c)
      <3>1. w \in Writes
        BY <2>1, <1>2
      <3> QED BY <2>1, <3>1, <1>1, <1>3 DEF OwnInv, TakenAgain
    <2>2. \A c \in Writes : ~Answered(c) => ~Answered(c)'
      BY <1>1 DEF Grown
    <2>3. \A c \in Writes : Whole(c) => Whole(c)'
      BY <1>1 DEF Whole
    <2> QED BY <2>1, <2>2, <2>3, <1>1 DEF TakenAgain
  <1>10. BackendShows'
    <2>1. ASSUME NEW b \in Writes', Answered(b)', Latest(b)', NEW v \in 1..Version,
                 ~TakenAfter(b, v)'
          PROVE  /\ outcome'[b].kind = "delete" => history[v].docs[outcome'[b].doc].kind = "deleted"
                 /\ outcome'[b].kind = "set" =>
                      /\ history[v].docs[outcome'[b].doc].kind = "doc"
                      /\ history[v].docs[outcome'[b].doc].g = b
                 /\ outcome'[b].kind # "delete" /\ history[v].docs[outcome'[b].doc].kind = "doc"
                      => history[v].docs[outcome'[b].doc].f >= b
      <3>1. b \in Writes /\ Answered(b) /\ Latest(b)
        BY <2>1, <1>3 DEF Grown
      <3>2. ~TakenAfter(b, v)
        BY <2>1, <1>1 DEF TakenAfter
      <3>3. Shows(b, history[v].docs[outcome[b].doc])
        BY <3>1, <3>2 DEF OwnInv, BackendShows
      <3> QED BY <3>1, <3>3, <1>1 DEF Shows
    <2> QED BY <2>1, <1>1 DEF BackendShows, Shows
  <1>11. FailedOver'
    <2>1. ASSUME NEW w \in Writes', outcome'[w].result = "failed", InHistory(history, w)
          PROVE  ~Latest(w)'
      <3>1. w \in Writes
        BY <2>1, <1>2
      <3> QED BY <2>1, <3>1, <1>3 DEF OwnInv, FailedOver, Grown
    <2> QED BY <2>1, <1>1 DEF FailedOver
  <1> QED BY <1>3, <1>4, <1>5, <1>6, <1>7, <1>8, <1>9, <1>10, <1>11

(* The queue goes on: what is in it was in it or is new, and what landed now  *)
(* comes before it.                                                           *)
LEMMA OrderKept ==
  ASSUME ClientInv, ClientInv', OwnInv, Grown,
         \A i \in 1..Len(queue'[user]) :
           \/ \E j \in 1..Len(queue[user]) : queue'[user][i] = queue[user][j]
           \/ /\ queue'[user][i].w \notin Writes
              /\ queue'[user][i].doc = outcome'[queue'[user][i].w].doc,
         \A b \in Landed' : b \in Landed \/ \A i \in 1..Len(queue'[user]) : b < queue'[user][i].w
  PROVE  OwnQueue' /\ TakenInOrder'
  <1>1. /\ user' = user /\ history' = history /\ Writes \subseteq Writes' /\ user \in Users
        /\ \A b \in Writes : outcome'[b].doc = outcome[b].doc
    BY OwnTypes DEF Grown
  <1>2. \A i \in 1..Len(queue[user]) :
          queue[user][i].w \in Writes /\ queue[user][i].doc = outcome[queue[user][i].w].doc
    BY OwnTypes DEF OwnInv, OwnQueue
  <1>3. \A i \in 1..Len(queue'[user]) : queue'[user][i].w \in Writes'
    BY <1>1 DEF ClientInv, QueuesPending, Writes
  <1>4. \A i, j \in 1..Len(queue'[user]) : i < j => queue'[user][i].w < queue'[user][j].w
    BY <1>1 DEF ClientInv, IdsInOrder
  <1>5. \A i, j \in 1..Len(queue[user]) : i < j => queue[user][i].w < queue[user][j].w
    BY OwnTypes
  <1>6. /\ Len(outcome) \in Nat /\ Len(outcome') \in Nat
    <2>1. outcome \in Seq(Outcome) /\ outcome' \in Seq(Outcome)
      BY DEF ClientInv, ClientTypeOK
    <2> QED BY <2>1
  <1>7. \A x \in Writes' : x \notin Writes => \A b \in Writes : b < x
    BY <1>6 DEF Writes
  <1>8. ASSUME NEW i \in 1..Len(queue'[user])
        PROVE  queue'[user][i].doc = outcome'[queue'[user][i].w].doc
    <2>1. ASSUME NEW j \in 1..Len(queue[user]), queue'[user][i] = queue[user][j]
          PROVE  queue'[user][i].doc = outcome'[queue'[user][i].w].doc
      <3>1. PICK w \in Writes : w = queue[user][j].w
        BY <1>2
      <3> QED BY <3>1, <2>1, <1>1, <1>2
    <2> QED BY <2>1
  <1>9. ASSUME NEW b \in Landed', NEW i \in 1..Len(queue'[user])
        PROVE  b < queue'[user][i].w
    <2>1. CASE b \in Landed
      <3>1. CASE \E j \in 1..Len(queue[user]) : queue'[user][i] = queue[user][j]
        BY <2>1, <3>1 DEF OwnInv, OwnQueue
      <3>2. CASE queue'[user][i].w \notin Writes
        <4>1. b \in Writes
          BY <2>1 DEF Landed
        <4> QED BY <4>1, <3>2, <1>3, <1>7
      <3> QED BY <3>1, <3>2
    <2> QED BY <2>1
  <1>10. OwnQueue'
    <2>1. \A w \in Writes' : outcome'[w].user = user
      BY DEF Grown
    <2> QED BY <2>1, <1>1, <1>8, <1>9 DEF OwnQueue
  <1>11. ASSUME NEW i \in 1..Len(queue'[user]), NEW j \in 1..Len(queue'[user]),
                i < j, InHistory(history, queue'[user][j].w)
         PROVE  InHistory(history, queue'[user][i].w)
    <2>1. queue'[user][i].w < queue'[user][j].w
      BY <1>4, <1>11
    <2>2. queue'[user][j].w \in Writes
      BY <1>3, <1>6, <1>11, OwnTypes DEF Writes
    <2>3. queue'[user][i].w \in Writes
      BY <2>1, <2>2, <1>3, <1>6 DEF Writes
    <2>4. PICK k, l \in 1..Len(queue[user]) :
            queue'[user][i] = queue[user][k] /\ queue'[user][j] = queue[user][l]
      BY <2>2, <2>3
    <2>5. k \in Nat /\ l \in Nat /\ queue[user][k].w \in Nat /\ queue[user][l].w \in Nat
      BY <1>2, <2>4 DEF Writes
    <2>6. k < l
      <3>1. k = l \/ k < l \/ l < k
        BY <2>5
      <3>2. ~(l < k)
        BY <1>5, <2>1, <2>4, <2>5
      <3>3. k # l
        BY <2>1, <2>4, <2>5
      <3> QED BY <3>1, <3>2, <3>3
    <2> QED BY <2>4, <2>6, <1>11 DEF OwnInv, TakenInOrder
  <1>12. TakenInOrder'
    BY <1>1, <1>11 DEF TakenInOrder
  <1> QED BY <1>10, <1>12

(* Steps that do not touch the queue and settle nothing. *)
LEMMA SameWrites ==
  ASSUME ClientInv, OwnInv, UNCHANGED <<outcome, history, user>>,
         \A i \in 1..Len(responses') : responses'[i].ok =>
           \E j \in 1..Len(responses) : responses[j].ok /\ responses[j].w = responses'[i].w
  PROVE  Grown
  <1>1. Writes' = Writes
    BY DEF Writes
  <1>2. \A b \in Writes : Answered(b)' => Answered(b)
    BY DEF Answered
  <1>3. \A b \in Writes' : outcome'[b].user = user
    BY <1>1 DEF OwnInv, OwnQueue
  <1> QED BY <1>1, <1>2, <1>3 DEF Grown

LEMMA SameQueue ==
  ASSUME ClientInv, ClientInv', OwnInv, Grown, UNCHANGED <<outcome, queue, user>>
  PROVE  OwnQueue' /\ TakenInOrder' /\ Landed' = Landed
  <1>1. Landed' = Landed
    BY DEF Landed, Writes, Waiting
  <1> QED BY <1>1, OrderKept

LEMMA LastStays ==
  ASSUME history' = history
  PROVE  \A w, v : LastTaken(w, v)' <=> LastTaken(w, v)
  BY DEF LastTaken, Version

(* Nothing changes for the cache and the listeners. *)
LEMMA CacheShowsStays ==
  ASSUME ClientInv, OwnInv, Grown, Landed' = Landed, cache' = cache
  PROVE  CacheShows'
  <1>1. \A b \in Landed : /\ b \in Writes /\ outcome'[b].doc = outcome[b].doc
                          /\ Latest(b)' <=> Latest(b)
                          /\ \A doc : Shows(b, doc)' <=> Shows(b, doc)
    BY GrownKeeps DEF Landed, Grown
  <1>2. \A d, doc : From(d, doc) => From(d, doc)'
    BY GrownKeeps
  <1>3. history' = history /\ \A b, v : TakenAfter(b, v)' <=> TakenAfter(b, v)
    BY DEF Grown, TakenAfter, Version
  <1> DEFINE One(d) == /\ \A b \in Landed : outcome[b].doc = d /\ Latest(b) => Shows(b, cache[d])
                       /\ cache[d].version > 0 /\ (\A b \in Landed : ~TakenAfter(b, cache[d].version)) =>
                            cache[d] = history[cache[d].version].docs[d]
                       /\ From(d, cache[d])
  <1>4. \A d \in Docs : One(d)
    BY DEF OwnInv, CacheShows, ShowsAll
  <1>5. ASSUME NEW d \in Docs
        PROVE  One(d)'
    <2>1. PICK c : c = cache[d]
      OBVIOUS
    <2>2. /\ \A b \in Landed : outcome[b].doc = d /\ Latest(b) => Shows(b, c)
          /\ c.version > 0 /\ (\A b \in Landed : ~TakenAfter(b, c.version)) =>
               c = history[c.version].docs[d]
          /\ From(d, c)
      BY <1>4, <2>1
    <2>3. /\ \A b \in Landed : outcome'[b].doc = d /\ Latest(b)' => Shows(b, c)'
          /\ c.version > 0 /\ (\A b \in Landed : ~TakenAfter(b, c.version)') =>
               c = history'[c.version].docs[d]
          /\ From(d, c)'
      BY <2>2, <1>1, <1>2, <1>3
    <2>4. cache'[d] = c
      BY <2>1
    <2>5. From(d, c)' <=> From(d, cache[d])'
      BY <2>4 DEF From
    <2>6. \A b : Shows(b, c)' <=> Shows(b, cache[d])'
      BY <2>4 DEF Shows
    <2>7. \A b : TakenAfter(b, c.version)' <=> TakenAfter(b, cache[d].version)'
      BY <2>4 DEF TakenAfter
    <2> QED BY <2>3, <2>4, <2>5, <2>6, <2>7
  <1> HIDE DEF One
  <1> QED BY <1>5 DEF CacheShows, ShowsAll, One

(* Nothing is answered, applied or queued. *)
LEMMA NothingNew ==
  ASSUME ClientInv, ClientInv', OwnInv,
         UNCHANGED <<outcome, history, user, queue, held, cache>>,
         \A i \in 1..Len(responses') : responses'[i].ok =>
           \E j \in 1..Len(responses) : responses[j].ok /\ responses[j].w = responses'[i].w,
         AnswersLast', RefusedOver', ListenersKnow'
  PROVE  OwnInv'
  <1>1. Grown
    BY SameWrites
  <1>2. OwnQueue' /\ TakenInOrder' /\ Landed' = Landed
    BY <1>1, SameQueue
  <1>3. CacheShows'
    BY <1>1, <1>2, CacheShowsStays
  <1>4. HeldLast'
    BY LastStays DEF OwnInv, HeldLast
  <1>5. Versions' /\ HistoryFrom' /\ UpdatesOnDocs' /\ TakenAgain' /\ BackendShows' /\ FailedOver'
    BY <1>1, GrownKeeps
  <1> QED BY <1>2, <1>3, <1>4, <1>5 DEF OwnInv

LEMMA ListenersStay ==
  ASSUME ClientInv, OwnInv, UNCHANGED <<outcome, history, user, queue, since>>,
         targets' \subseteq targets, lastRemote' = lastRemote
  PROVE  ListenersKnow'
  <1>1. Landed' = Landed /\ Version' = Version
    BY DEF Landed, Writes, Waiting, Version
  <1> QED BY <1>1 DEF OwnInv, ListenersKnow

LEMMA StreamKeepsOwn ==
  ASSUME ClientInv, ClientInv', OwnInv,
         \/ StreamOpens \/ HandshakeCompletes \/ IdleCloses \/ StreamBreaks
         \/ UNCHANGED vars
  PROVE  OwnInv'
  <1>1. /\ UNCHANGED <<outcome, history, user, queue, held, cache, since, targets, lastRemote>>
        /\ responses' = responses \/ responses' = <<>>
    BY DEF StreamOpens, HandshakeCompletes, IdleCloses, StreamBreaks, vars, persisted, memory,
           remote, ghosts
  <1>2. ListenersKnow'
    BY <1>1, ListenersStay
  <1>3. Len(<<>>) = 0 /\ 1..0 = {}
    OBVIOUS
  <1>4. CASE responses' = <<>>
    <2>1. AnswersLast' /\ RefusedOver'
      BY <1>3, <1>4 DEF AnswersLast, RefusedOver
    <2> QED BY <1>1, <1>2, <1>3, <1>4, <2>1, NothingNew
  <1>5. CASE responses' = responses
    <2>1. AnswersLast'
      BY <1>1, <1>5, LastStays DEF OwnInv, AnswersLast
    <2>2. RefusedOver'
      BY <1>1, <1>5 DEF OwnInv, RefusedOver, Latest, Whole, Writes
    <2> QED BY <1>1, <1>2, <1>5, <2>1, <2>2, NothingNew
  <1> QED BY <1>1, <1>4, <1>5

LEMMA ListenKeepsOwn ==
  ASSUME ClientInv, ClientInv', OwnInv, NEW d \in Docs, Listen(d)
  PROVE  OwnInv'
  <1>1. /\ UNCHANGED <<outcome, history, user, queue, held, cache, responses, lastRemote>>
        /\ targets' = targets \cup {d} /\ since' = [since EXCEPT ![d] = Version]
    BY DEF Listen, persisted, remote, ghosts
  <1>2. AnswersLast'
    BY <1>1, LastStays DEF OwnInv, AnswersLast
  <1>3. RefusedOver'
    BY <1>1 DEF OwnInv, RefusedOver, Latest, Whole, Writes
  <1>4. ListenersKnow'
    <2>1. Landed' = Landed /\ Version' = Version /\ Version \in Nat
      BY <1>1, DbType DEF Landed, Writes, Waiting, Version
    <2>2. since \in [Docs -> Nat]
      BY DEF OwnInv, ListenersKnow
    <2>3. since' \in [Docs -> Nat] /\ since'[d] = Version
      BY <1>1, <2>1, <2>2
    <2>4. ASSUME NEW e \in targets', NEW y \in 1..Version, y > since'[e], y > lastRemote
          PROVE  history[y].w \notin Landed
      <3>1. e # d
        BY <2>1, <2>3, <2>4
      <3>2. e \in targets /\ since'[e] = since[e]
        BY <3>1, <1>1, <2>2
      <3> QED BY <3>2, <2>4 DEF OwnInv, ListenersKnow
    <2> QED BY <1>1, <2>1, <2>3, <2>4 DEF ListenersKnow
  <1> QED BY <1>1, <1>2, <1>3, <1>4, NothingNew

--------------------------------------------------------------------------------
(* The backend answers the first request: what comes before it in the queue   *)
(* is answered, what comes after it is not.                                   *)
Asked(m) ==
  /\ m \in Batch /\ m.w \in Writes /\ outcome[m.w].result = "pending"
  /\ outcome[m.w].kind = m.kind /\ outcome[m.w].doc = m.doc
  /\ \A x \in Writes : x < m.w => outcome[x].result = "failed" \/ Answered(x)
  /\ \A x \in Writes : x > m.w /\ InHistory(history, x) => InHistory(history, m.w)
  /\ \A x \in Writes : x >= m.w => ~Answered(x) /\ x \notin Landed
  /\ \A i \in 1..Len(responses) : responses[i].w < m.w
  /\ \A i \in 1..Len(held) : held[i].batch.w < m.w
  /\ \A j \in 1..Len(queue[user]) : queue[user][j].w < m.w => InHistory(history, queue[user][j].w)
  /\ InHistory(history, m.w) => m.allowed

(* What is answered was taken, and what was refused though it was whole was not. *)
LEMMA AnsweredTaken ==
  ASSUME ClientInv, NEW x \in Writes
  PROVE  /\ Answered(x) => InHistory(history, x)
         /\ outcome[x].result = "failed" /\ Whole(x) => ~InHistory(history, x)
  <1>1. outcome[x].result = "ok" => InHistory(history, x)
    BY DEF ClientInv, OutcomesTrue, Writes
  <1>2. ASSUME NEW i \in 1..Len(responses), responses[i].ok
        PROVE  InHistory(history, responses[i].w)
    BY <1>2 DEF ClientInv, AnswersInOrder
  <1>3. outcome[x].result = "failed" /\ Whole(x) => ~InHistory(history, x)
    BY DEF ClientInv, OutcomesTrue, Writes, Whole
  <1> QED BY <1>1, <1>2, <1>3 DEF Answered

LEMMA HeadAsked ==
  ASSUME ClientInv, OwnInv, requests # <<>>, \A i \in 1..Len(responses) : responses[i].ok
  PROVE  Asked(Head(requests))
  <1> DEFINE m == Head(requests)
             k == Len(responses)
             q == queue[user]
             p == Len(held) + k + 1
  <1>1. /\ m \in Batch /\ k \in Nat /\ p \in 1..Len(q) /\ m = q[p] /\ m.w \in 1..Len(outcome)
        /\ Len(held) \in Nat /\ user \in Users /\ Len(q) \in Nat /\ acked[user] \in Int
    <2>1. acked \in [Users -> Nat \cup {kFSTBatchIDUnknown}] /\ user \in Users
      BY DEF ClientInv, ClientTypeOK
    <2> QED BY <2>1, NextAnswered, View DEF kFSTBatchIDUnknown
  <1> HIDE DEF m, k, p
  <1>2. /\ \A i \in 1..Len(q) : /\ q[i].w \in Writes /\ q[i].kind = outcome[q[i].w].kind
                                /\ q[i].doc = outcome[q[i].w].doc
        /\ \A i, j \in 1..Len(q) : i < j => q[i].w < q[j].w
    BY OwnTypes DEF OwnInv, OwnQueue
  <1>3. \A w \in Writes : w \in Nat
    BY DEF Writes
  <1>4. \A i \in 1..Len(q) : outcome[q[i].w].result = IF i <= Len(held) THEN "ok" ELSE "pending"
    BY <1>1 DEF ClientInv, QueuesPending, HeldFirst
  <1>5. /\ m.w \in Writes /\ outcome[m.w].result = "pending"
        /\ outcome[m.w].kind = m.kind /\ outcome[m.w].doc = m.doc
    <2>1. ~(p <= Len(held))
      BY <1>1 DEF p
    <2> QED BY <2>1, <1>1, <1>2, <1>4
  <1>6. ASSUME NEW i \in 1..Len(q)
        PROVE  /\ i < p => Answered(q[i].w) /\ q[i].w < m.w
               /\ i > p => q[i].w > m.w
    <2>1. CASE i <= Len(held)
      <3>1. outcome[q[i].w].result = "ok"
        BY <2>1, <1>4
      <3> QED BY <3>1, <1>1, <1>2 DEF Answered
    <2>2. CASE i > Len(held) /\ i < p
      <3>1. i - Len(held) \in 1..k /\ Len(held) + (i - Len(held)) = i
        BY <2>2, <1>1 DEF p
      <3>2. PICK j \in 1..k : Len(held) + j = i
        BY <3>1
      <3>3. pipeline[j] = q[i]
        BY <3>2, AnswerPlace DEF k
      <3>4. responses[j].w = q[i].w /\ responses[j].ok
        BY <3>2, <3>3 DEF ClientInv, AnswersInOrder, k
      <3> QED BY <3>2, <3>4, <1>1, <1>2, <2>2 DEF Answered, k
    <2>3. CASE i >= p
      BY <2>3, <1>1, <1>2
    <2>4. i \in Nat /\ p \in Nat /\ Len(held) \in Nat
      BY <1>1
    <2> QED BY <2>1, <2>2, <2>3, <2>4
  <1>7. \A x \in Writes : outcome[x].user = user
    BY DEF OwnInv, OwnQueue
  <1>8. ASSUME NEW x \in Writes, outcome[x].result = "pending"
        PROVE  \E i \in 1..Len(q) : q[i].w = x
    BY <1>7, <1>8 DEF ClientInv, QueuesPending, Writes
  <1>9. ASSUME NEW x \in Writes, x < m.w
        PROVE  outcome[x].result = "failed" \/ Answered(x)
    <2>1. CASE outcome[x].result = "pending"
      <3>1. PICK i \in 1..Len(q) : q[i].w = x
        BY <2>1, <1>8
      <3>2. i < p
        <4>1. ~(i > p) /\ i # p
          BY <3>1, <1>1, <1>3, <1>5, <1>6, <1>9
        <4> QED BY <4>1, <1>1
      <3> QED BY <3>1, <3>2, <1>6
    <2>2. outcome[x].result \in {"pending", "ok", "failed"}
      BY OwnTypes
    <2> QED BY <2>1, <2>2 DEF Answered
  <1>10. ASSUME NEW x \in Writes, outcome[x].result # "pending"
         PROVE  x < m.w
    BY <1>5, <1>7, <1>10 DEF ClientInv, QueuesPending, Writes
  <1>11. ASSUME NEW x \in Writes, x > m.w, InHistory(history, x)
         PROVE  InHistory(history, m.w)
    <2>1. outcome[x].result = "pending"
      BY <1>3, <1>5, <1>10, <1>11
    <2>2. PICK i \in 1..Len(q) : q[i].w = x
      BY <2>1, <1>8
    <2>3. p < i
      <3>1. ~(i < p) /\ i # p
        BY <2>2, <1>1, <1>3, <1>5, <1>6, <1>11
      <3> QED BY <3>1, <1>1
    <2> QED BY <2>2, <2>3, <1>1, <1>11 DEF OwnInv, TakenInOrder
  <1>12. ASSUME NEW i \in 1..Len(responses)
         PROVE  responses[i].w < m.w
    <2>1. pipeline[i] = q[Len(held) + i] /\ Len(held) + i \in 1..Len(q) /\ Len(held) + i < p
      BY <1>1, AnswerPlace DEF k, p
    <2>2. responses[i].w = pipeline[i].w
      BY DEF ClientInv, AnswersInOrder
    <2> QED BY <2>1, <2>2, <1>6
  <1>13. ASSUME NEW i \in 1..Len(held)
         PROVE  held[i].batch.w < m.w
    <2>1. held[i].batch = q[i] /\ i \in 1..Len(q) /\ i < p
      BY <1>1 DEF ClientInv, HeldFirst, p
    <2> QED BY <2>1, <1>6
  <1>14. ASSUME NEW x \in Writes, x >= m.w
         PROVE  ~Answered(x) /\ x \notin Landed
    <2>1. outcome[x].result = "pending"
      BY <1>3, <1>5, <1>10, <1>14
    <2>2. \A i \in 1..Len(responses) : responses[i].w # x
      BY <1>3, <1>5, <1>12, <1>14, OwnTypes
    <2> QED BY <2>1, <2>2 DEF Answered, Landed
  <1>15. ASSUME NEW j \in 1..Len(q), q[j].w < m.w
         PROVE  InHistory(history, q[j].w)
    <2>1. j < p
      <3>1. q[j].w \in Nat /\ m.w \in Nat
        BY <1>2, <1>3, <1>5
      <3>2. j > p => q[j].w > m.w
        BY <1>6
      <3>3. j # p
        BY <3>1, <1>1, <1>15
      <3> QED BY <3>1, <3>2, <3>3, <1>1, <1>15
    <2>2. Answered(q[j].w) /\ q[j].w \in Writes
      BY <2>1, <1>2, <1>6
    <2> QED BY <2>2, AnsweredTaken
  <1>16. InHistory(history, m.w) => m.allowed
    BY <1>1 DEF ClientInv, OutcomesTrue
  <1> QED BY <1>1, <1>5, <1>9, <1>11, <1>12, <1>13, <1>14, <1>15, <1>16 DEF Asked, m

LEMMA ServerRefusesKeepsOwn ==
  ASSUME ClientInv, ClientInv', OwnInv, ServerRefuses
  PROVE  OwnInv'
  <1> DEFINE m == Head(requests)
             r == [w |-> m.w, ok |-> FALSE, version |-> 0]
  <1>1. /\ UNCHANGED <<outcome, history, user, queue, held, cache, since, targets, lastRemote>>
        /\ responses' = Append(responses, r) /\ ~Accepts(m) /\ requests # <<>>
        /\ \A i \in 1..Len(responses) : responses[i].ok
    BY DEF ServerRefuses, persisted, memory, ghosts
  <1>2. Asked(m)
    BY <1>1, HeadAsked
  <1>3. r.w = m.w /\ ~r.ok
    OBVIOUS
  <1> HIDE DEF m
  <1>4. r \in Response
    BY <1>2, BatchTypes DEF Asked, Response
  <1> HIDE DEF r
  <1>5. /\ Len(responses') = Len(responses) + 1
        /\ \A i \in 1..Len(responses) : responses'[i] = responses[i]
        /\ responses'[Len(responses) + 1] = r
        /\ \A i \in 1..Len(responses') : i \in 1..Len(responses) \/ i = Len(responses) + 1
    BY <1>1, <1>4, AnswerAppended
  <1>6. ListenersKnow'
    BY <1>1, ListenersStay
  <1>7. AnswersLast'
    BY <1>1, <1>3, <1>5, LastStays DEF OwnInv, AnswersLast
  <1>8. ASSUME InHistory(history, m.w), Latest(m.w)
        PROVE  FALSE
    <2>1. m.kind = "update" /\ Db[m.doc].kind # "doc"
      BY <1>1, <1>2, <1>8 DEF Asked, Accepts, IsValidFor
    <2>2. PICK c \in Writes : /\ c < m.w /\ Whole(c) /\ InHistory(history, c) /\ ~Answered(c)
      BY <1>2, <1>8, <2>1 DEF Asked, OwnInv, TakenAgain
    <2>3. outcome[c].result = "failed"
      BY <1>2, <2>2 DEF Asked
    <2> QED BY <2>2, <2>3, AnsweredTaken
  <1>9. RefusedOver'
    <2>1. \A i \in 1..Len(responses') : responses'[i].ok \/ responses'[i].w = m.w
      BY <1>1, <1>3, <1>5
    <2>2. PICK w : w = m.w
      OBVIOUS
    <2>3. InHistory(history, w) => ~Latest(w)'
      BY <1>1, <1>8, <2>2 DEF Latest, Whole, Writes
    <2>4. \A i \in 1..Len(responses') : responses'[i].ok \/ responses'[i].w = w
      BY <2>1, <2>2
    <2> QED BY <1>1, <2>3, <2>4 DEF RefusedOver, Latest
  <1>10. \A i \in 1..Len(responses') : responses'[i].ok =>
           \E j \in 1..Len(responses) : responses[j].ok /\ responses[j].w = responses'[i].w
    BY <1>3, <1>5
  <1> QED BY <1>1, <1>6, <1>7, <1>9, <1>10, NothingNew

(* A new write is the last of the queue. *)
LEMMA WriteKeepsOwn ==
  ASSUME ClientInv, ClientInv', OwnInv, NEW kind \in Kinds, NEW d \in Docs,
         NEW allowed \in BOOLEAN, Write(kind, d, allowed)
  PROVE  OwnInv'
  <1>1. UNCHANGED <<user, held, cache, since, targets, lastRemote, responses, history>>
    BY DEF Write
  <1>2. PICK b \in Batch : Written(b)
    BY WriteIs
  <1> DEFINE o == [user |-> user, kind |-> b.kind, doc |-> b.doc, result |-> "pending"]
  <1>3. /\ queue' = [queue EXCEPT ![user] = Append(@, b)] /\ outcome' = Append(outcome, o)
        /\ b.w = Len(outcome) + 1
    <2>1. b.w = Len(outcome) + 1
      BY <1>2 DEF Written
    <2> QED BY <1>2, <2>1 DEF Written
  <1>4. o \in Outcome
    BY BatchTypes, OwnTypes DEF Outcome
  <1>5. o.user = user /\ o.kind = b.kind /\ o.doc = b.doc /\ o.result = "pending"
    OBVIOUS
  <1> HIDE DEF o
  <1>6. outcome \in Seq(Outcome) /\ queue \in [Users -> Seq(Batch)] /\ user \in Users
    BY DEF ClientInv, ClientTypeOK
  <1>7. /\ Writes' = Writes \cup {b.w} /\ b.w \notin Writes
        /\ outcome'[b.w] = o /\ \A x \in Writes : outcome'[x] = outcome[x]
    BY <1>3, <1>4, <1>6 DEF Writes
  <1>8. /\ Len(queue'[user]) = Len(queue[user]) + 1 /\ queue'[user][Len(queue[user]) + 1] = b
        /\ \A i \in 1..Len(queue[user]) : queue'[user][i] = queue[user][i]
        /\ \A i \in 1..Len(queue'[user]) : i \in 1..Len(queue[user]) \/ i = Len(queue[user]) + 1
        /\ Len(queue[user]) + 1 \in 1..Len(queue'[user])
    BY <1>3, <1>6
  <1>9. \A i \in 1..Len(responses) : responses[i].w \in Writes
    BY OwnTypes
  <1>10. \A x \in Writes' : Answered(x)' => x \in Writes /\ Answered(x)
    BY <1>1, <1>5, <1>7, <1>9 DEF Answered
  <1>11. \A x \in Writes' : outcome'[x].user = user
    BY <1>5, <1>7 DEF OwnInv, OwnQueue
  <1>12. Grown
    BY <1>1, <1>7, <1>10, <1>11 DEF Grown
  <1>13. ASSUME NEW x \in Writes
         PROVE  Waiting(x)' <=> Waiting(x)
    <2>1. x # b.w /\ Len(queue[user]) \in Nat
      BY <1>7, View
    <2>2. Waiting(x) => \E i \in 1..Len(queue'[user]) : queue'[user][i].w = x
      BY <2>1, <1>8 DEF Waiting
    <2>3. (\E i \in 1..Len(queue'[user]) : queue'[user][i].w = x) => Waiting(x)
      BY <2>1, <1>8 DEF Waiting
    <2> QED BY <2>2, <2>3, <1>1 DEF Waiting
  <1>14. Landed' = Landed
    BY <1>5, <1>7, <1>13 DEF Landed
  <1>15. \A i \in 1..Len(queue'[user]) :
           \/ \E j \in 1..Len(queue[user]) : queue'[user][i] = queue[user][j]
           \/ /\ queue'[user][i].w \notin Writes
              /\ queue'[user][i].doc = outcome'[queue'[user][i].w].doc
    BY <1>5, <1>7, <1>8
  <1>16. OwnQueue' /\ TakenInOrder'
    BY <1>12, <1>14, <1>15, OrderKept
  <1>17. CacheShows'
    BY <1>1, <1>12, <1>14, CacheShowsStays
  <1>18. HeldLast' /\ AnswersLast'
    BY <1>1, LastStays DEF OwnInv, HeldLast, AnswersLast
  <1>19. ListenersKnow'
    BY <1>1, <1>14 DEF OwnInv, ListenersKnow, Version
  <1>20. RefusedOver'
    <2>1. \A x \in Writes : Latest(x)' <=> Latest(x)
      BY <1>12, GrownKeeps
    <2>2. ASSUME NEW i \in 1..Len(responses), ~responses[i].ok, InHistory(history, responses[i].w)
          PROVE  \E x \in Writes : x = responses[i].w /\ ~Latest(x)'
      BY <1>9, <2>1, <2>2 DEF OwnInv, RefusedOver
    <2> QED BY <1>1, <2>2 DEF RefusedOver, Latest
  <1>21. Versions' /\ HistoryFrom' /\ UpdatesOnDocs' /\ TakenAgain' /\ BackendShows' /\ FailedOver'
    BY <1>12, GrownKeeps
  <1> QED BY <1>16, <1>17, <1>18, <1>19, <1>20, <1>21 DEF OwnInv

--------------------------------------------------------------------------------
(* The backend takes a write. *)
Takes(m) ==
  /\ Asked(m)
  /\ m.kind = "update" => Db[m.doc].kind = "doc"
  /\ UNCHANGED <<outcome, user, queue, held, cache, since, targets, lastRemote>>
  /\ Version \in Nat \ {0} /\ Version' = Version + 1
  /\ \A v \in 1..Version : history'[v] = history[v]
  /\ history'[Version + 1].docs = Db' /\ history'[Version + 1].w = m.w
  /\ \A d \in Docs : d # m.doc => Db'[d] = Db[d]
  /\ Db'[m.doc].version = Version + 1
  /\ m.kind = "delete" => Db'[m.doc].kind = "deleted"
  /\ m.kind = "set" => Db'[m.doc].g = m.w
  /\ m.kind = "update" => Db'[m.doc].g = Db[m.doc].g
  /\ m.kind # "delete" => Db'[m.doc].kind = "doc" /\ Db'[m.doc].f = m.w
  /\ \A w : InHistory(history', w) <=> InHistory(history, w) \/ w = m.w
  /\ \A x \in Writes : Answered(x)' <=> Answered(x) \/ x = m.w
  /\ \A i \in 1..Len(responses') : responses'[i].ok
  /\ \A i \in 1..Len(responses') :
       \/ i \in 1..Len(responses) /\ responses'[i] = responses[i]
       \/ responses'[i].w = m.w /\ responses'[i].version = Version + 1
  /\ Writes' = Writes

LEMMA TakesIs ==
  ASSUME ClientInv, OwnInv, ServerTakes
  PROVE  \E m : Takes(m)
  <1> DEFINE m == Head(requests)
             k == Len(responses)
             r == [w |-> m.w, ok |-> TRUE, version |-> Version + 1]
  <1>1. /\ Commit(m) /\ responses' = Append(responses, r) /\ Accepts(m) /\ requests # <<>>
        /\ UNCHANGED <<outcome, user, queue, held, cache, since, targets, lastRemote>>
        /\ \A i \in 1..Len(responses) : responses[i].ok
    BY DEF ServerTakes, persisted, memory, ghosts
  <1>2. Asked(m)
    BY <1>1, HeadAsked
  <1> HIDE DEF m
  <1>3. m.w \in Nat /\ m.kind \in Kinds /\ m.doc \in Docs /\ m.w \in Writes
    BY <1>2, BatchTypes DEF Asked
  <1>4. /\ Version' = Version + 1 /\ \A v \in 1..Version : history'[v] = history[v]
        /\ history'[Version + 1].docs = Db' /\ history'[Version + 1].w = m.w
        /\ Db'[m.doc] = [ApplyMutation(Db[m.doc], m) EXCEPT !.version = Version + 1]
        /\ Db'[m.doc].version = Version + 1
        /\ \A d \in Docs : d # m.doc => Db'[d] = Db[d]
    BY <1>1, <1>3, CommitIs
  <1>5. Version \in Nat \ {0} /\ Db[m.doc] \in Document
    BY <1>3, DbType
  <1>6. m.kind = "update" => Db[m.doc].kind = "doc"
    BY <1>1 DEF Accepts, IsValidFor
  <1> DEFINE doc == ApplyMutation(Db[m.doc], m)
  <1>7. doc \in Document
    BY <1>3, <1>5, MutationType
  <1>8. /\ m.kind = "delete" => doc.kind = "deleted"
        /\ m.kind = "set" => doc.g = m.w
        /\ m.kind = "update" => doc.g = Db[m.doc].g
        /\ m.kind # "delete" => doc.kind = "doc" /\ doc.f = m.w
    BY <1>3, <1>5, <1>6
    DEF ApplyMutation, IsValidFor, ApplySet, ApplyPatch, ApplyDelete, Deleted, Kinds, Document
  <1> HIDE DEF doc
  <1>9. Db'[m.doc].kind = doc.kind /\ Db'[m.doc].f = doc.f /\ Db'[m.doc].g = doc.g
    <2>1. Db'[m.doc] = [doc EXCEPT !.version = Version + 1]
      BY <1>4 DEF doc
    <2> QED BY <2>1, <1>7 DEF Document
  <1>10. ASSUME NEW w
         PROVE  InHistory(history', w) <=> InHistory(history, w) \/ w = m.w
    <2>1. Len(history') = Len(history) + 1 /\ Len(history) \in Nat
          /\ Len(history) + 1 \in 1..Len(history')
          /\ \A v \in 1..Len(history') : v \in 1..Len(history) \/ v = Len(history) + 1
      BY <1>4, <1>5 DEF Version
    <2>2. /\ \A v \in 1..Len(history) : history'[v] = history[v] /\ v \in 1..Len(history')
          /\ history'[Len(history) + 1].w = m.w
      BY <1>4, <2>1 DEF Version
    <2>3. InHistory(history', w) => InHistory(history, w) \/ w = m.w
      BY <2>1, <2>2 DEF InHistory
    <2>4. InHistory(history, w) => InHistory(history', w)
      BY <2>1, <2>2 DEF InHistory
    <2>5. w = m.w => InHistory(history', w)
      BY <2>1, <2>2 DEF InHistory
    <2> QED BY <2>3, <2>4, <2>5
  <1>11. r.w = m.w /\ r.ok /\ r.version = Version + 1 /\ r \in Response
    BY <1>3, <1>5 DEF Response
  <1> HIDE DEF r
  <1>12. /\ Len(responses') = k + 1 /\ responses'[k + 1] = r /\ k + 1 \in 1..Len(responses')
         /\ \A i \in 1..k : responses'[i] = responses[i] /\ i \in 1..Len(responses')
         /\ \A i \in 1..Len(responses') : i \in 1..k \/ i = k + 1
    <2>1. k \in Nat
      BY AnswerPlace
    <2> QED BY <2>1, <1>1, <1>11, AnswerAppended
  <1>13. /\ \A i \in 1..Len(responses') : responses'[i].ok
         /\ \A i \in 1..Len(responses') :
              \/ i \in 1..Len(responses) /\ responses'[i] = responses[i]
              \/ responses'[i].w = m.w /\ responses'[i].version = Version + 1
    BY <1>1, <1>11, <1>12
  <1>14. ASSUME NEW x \in Writes
         PROVE  Answered(x)' <=> Answered(x) \/ x = m.w
    <2>1. (\E i \in 1..Len(responses') : responses'[i].ok /\ responses'[i].w = x)
            <=> (\E i \in 1..Len(responses) : responses[i].ok /\ responses[i].w = x) \/ x = m.w
      BY <1>11, <1>12
    <2> QED BY <2>1, <1>1 DEF Answered
  <1>15. Writes' = Writes
    BY <1>1 DEF Writes
  <1>16. Takes(m)
    BY <1>1, <1>2, <1>4, <1>5, <1>6, <1>8, <1>9, <1>10, <1>13, <1>14, <1>15 DEF Takes
  <1> QED BY <1>16

(* What it does to what is latest. *)
LEMMA TakesLatest ==
  ASSUME ClientInv, NEW m, Takes(m), NEW x \in Writes
  PROVE  /\ Latest(x)' => Latest(x)
         /\ Latest(x)' => ~(m.w > x /\ m.doc = outcome[x].doc /\ m.kind # "update")
         /\ \A doc : Shows(x, doc)' <=> Shows(x, doc)
         /\ Whole(x)' <=> Whole(x)
         /\ \A v : TakenAfter(x, v) => TakenAfter(x, v)'
  <1>1. /\ outcome' = outcome /\ Writes' = Writes
        /\ \A w : InHistory(history', w) <=> InHistory(history, w) \/ w = m.w
    BY DEF Takes
  <1>2. m.w \in Writes /\ outcome[m.w].kind = m.kind /\ outcome[m.w].doc = m.doc
    BY DEF Takes, Asked
  <1>3. \A w \in Writes : Whole(w)' <=> Whole(w)
    BY <1>1 DEF Whole
  <1>4. Latest(x)' => Latest(x)
    BY <1>1, <1>3 DEF Latest
  <1>5. Latest(x)' => ~(m.w > x /\ m.doc = outcome[x].doc /\ m.kind # "update")
    BY <1>1, <1>2, <1>3 DEF Latest, Whole
  <1>6. \A doc : Shows(x, doc)' <=> Shows(x, doc)
    BY <1>1 DEF Shows
  <1>7. \A v : TakenAfter(x, v) => TakenAfter(x, v)'
    BY DEF Takes, TakenAfter
  <1> QED BY <1>3, <1>4, <1>5, <1>6, <1>7

LEMMA TakesOrder ==
  ASSUME ClientInv, OwnInv, NEW m, Takes(m)
  PROVE  OwnQueue' /\ TakenInOrder' /\ HeldLast' /\ AnswersLast' /\ Landed' = Landed
  <1>1. /\ UNCHANGED <<outcome, user, queue, held>> /\ Writes' = Writes
        /\ Version \in Nat \ {0} /\ Version' = Version + 1
        /\ \A v \in 1..Version : history'[v] = history[v]
        /\ history'[Version + 1].w = m.w
        /\ \A w : InHistory(history', w) <=> InHistory(history, w) \/ w = m.w
    BY DEF Takes
  <1>2. Landed' = Landed
    BY <1>1 DEF Landed, Waiting
  <1>3. OwnQueue'
    BY <1>1, <1>2 DEF OwnInv, OwnQueue
  <1>4. TakenInOrder'
    <2>1. ASSUME NEW i \in 1..Len(queue[user]), NEW j \in 1..Len(queue[user]), i < j,
                 InHistory(history, queue[user][j].w) \/ queue[user][j].w = m.w
          PROVE  InHistory(history, queue[user][i].w)
      <3>1. queue[user][i].w < queue[user][j].w
        BY <2>1, OwnTypes
      <3>2. queue[user][j].w = m.w => InHistory(history, queue[user][i].w)
        BY <3>1 DEF Takes, Asked
      <3> QED BY <2>1, <3>2 DEF OwnInv, TakenInOrder
    <2> QED BY <2>1, <1>1 DEF TakenInOrder
  <1>5. ASSUME NEW w, NEW v, LastTaken(w, v), w < m.w
        PROVE  LastTaken(w, v)'
    <2>1. v \in 1..(Version + 1) /\ history'[v].w = w
      BY <1>1, <1>5 DEF LastTaken
    <2>2. ASSUME NEW y \in 1..(Version + 1), y > v
          PROVE  history'[y].w > w
      <3>1. CASE y = Version + 1
        BY <3>1, <1>1, <1>5 DEF Takes, Asked, Writes
      <3>2. CASE y \in 1..Version
        BY <3>2, <2>2, <1>1, <1>5 DEF LastTaken
      <3> QED BY <3>1, <3>2, <1>1
    <2> QED BY <2>1, <2>2, <1>1 DEF LastTaken
  <1>6. ASSUME NEW v, v = Version + 1
        PROVE  LastTaken(m.w, v)'
    <2>1. v \in 1..Version' /\ history'[v].w = m.w /\ \A y \in 1..Version' : ~(y > v)
      BY <1>1, <1>6
    <2> QED BY <2>1 DEF LastTaken
  <1>7. HeldLast'
    <2>1. \A i \in 1..Len(held) : held[i].batch.w < m.w
      BY DEF Takes, Asked
    <2>2. ASSUME NEW i \in 1..Len(held)
          PROVE  LastTaken(held[i].batch.w, held[i].version)'
      <3>1. PICK w, v : w = held[i].batch.w /\ v = held[i].version
        OBVIOUS
      <3>2. LastTaken(w, v)'
        BY <2>1, <3>1, <1>5 DEF OwnInv, HeldLast
      <3> QED BY <3>1, <3>2, <1>1 DEF LastTaken
    <2> QED BY <2>2, <1>1 DEF HeldLast
  <1>8. AnswersLast'
    <2>1. \A i \in 1..Len(responses) : responses[i].w < m.w
      BY DEF Takes, Asked
    <2>2. ASSUME NEW i \in 1..Len(responses')
          PROVE  \E w, v : /\ w = responses'[i].w /\ v = responses'[i].version
                           /\ LastTaken(w, v)'
      <3>1. CASE i \in 1..Len(responses) /\ responses'[i] = responses[i]
        <4>1. responses[i].ok
          BY <3>1 DEF Takes
        <4>2. PICK w, v : w = responses[i].w /\ v = responses[i].version
          OBVIOUS
        <4>3. LastTaken(w, v)'
          BY <2>1, <3>1, <4>1, <4>2, <1>5 DEF OwnInv, AnswersLast
        <4> QED BY <3>1, <4>2, <4>3
      <3>2. CASE responses'[i].w = m.w /\ responses'[i].version = Version + 1
        <4>1. PICK v : v = Version + 1
          OBVIOUS
        <4>2. LastTaken(m.w, v)'
          BY <4>1, <1>6
        <4> QED BY <3>2, <4>1, <4>2
      <3> QED BY <3>1, <3>2 DEF Takes
    <2> QED BY <2>2 DEF AnswersLast, LastTaken
  <1> QED BY <1>2, <1>3, <1>4, <1>7, <1>8

LEMMA TakesVersions ==
  ASSUME ClientInv, OwnInv, NEW m, Takes(m)
  PROVE  Versions' /\ HistoryFrom'
  <1>1. /\ outcome' = outcome /\ Writes' = Writes
        /\ Version \in Nat \ {0} /\ Version' = Version + 1
        /\ \A v \in 1..Version : history'[v] = history[v]
        /\ history'[Version + 1].docs = Db'
        /\ \A d \in Docs : d # m.doc => Db'[d] = Db[d]
        /\ Db'[m.doc].version = Version + 1
        /\ \A w : InHistory(history', w) <=> InHistory(history, w) \/ w = m.w
    BY DEF Takes
  <1>2. Version \in 1..Version /\ Db = history[Version].docs
        /\ \A v \in 1..(Version + 1) : v \in 1..Version \/ v = Version + 1
    BY <1>1, DbType
  <1>3. ASSUME NEW v \in 1..Version, NEW d \in Docs
        PROVE  /\ history[v].docs[d].version \in 1..v
               /\ history[v].docs[d].version \in 1..Version
               /\ history'[history[v].docs[d].version].docs[d] = history[v].docs[d]
    <2>1. /\ history[v].docs[d].version \in 1..v
          /\ history[history[v].docs[d].version].docs[d] = history[v].docs[d]
      BY DEF OwnInv, Versions
    <2> QED BY <2>1, <1>1
  <1>4. ASSUME NEW v \in 1..(Version + 1), NEW d \in Docs
        PROVE  /\ history'[v].docs[d].version \in 1..v
               /\ history'[history'[v].docs[d].version].docs[d] = history'[v].docs[d]
    <2>1. CASE v \in 1..Version
      BY <2>1, <1>1, <1>3
    <2>2. CASE v = Version + 1 /\ d = m.doc
      BY <2>2, <1>1
    <2>3. CASE v = Version + 1 /\ d # m.doc
      <3>1. history'[v].docs[d] = history[Version].docs[d]
        BY <2>3, <1>1, <1>2
      <3>2. history[Version].docs[d].version \in 1..v
        BY <2>3, <1>1, <1>2, <1>3
      <3> QED BY <3>1, <3>2, <1>2, <1>3
    <2> QED BY <2>1, <2>2, <2>3, <1>2
  <1>5. Versions'
    BY <1>1, <1>4 DEF Versions
  <1>6. \A d, doc : From(d, doc) => From(d, doc)'
    BY <1>1 DEF From
  <1>7. ASSUME NEW v \in 1..(Version + 1), NEW d \in Docs
        PROVE  \E doc : doc = history'[v].docs[d] /\ From(d, doc)'
    <2>1. CASE v \in 1..Version
      <3>1. PICK doc : doc = history[v].docs[d]
        OBVIOUS
      <3>2. From(d, doc)
        BY <2>1, <3>1 DEF OwnInv, HistoryFrom
      <3> QED BY <2>1, <3>1, <3>2, <1>1, <1>6
    <2>2. CASE v = Version + 1 /\ d # m.doc
      <3>1. PICK doc : doc = Db[d]
        OBVIOUS
      <3>2. From(d, doc)
        BY <3>1, <1>2 DEF OwnInv, HistoryFrom
      <3> QED BY <2>2, <3>1, <3>2, <1>1, <1>6
    <2>3. CASE v = Version + 1 /\ d = m.doc
      <3>1. PICK doc : doc = Db'[m.doc]
        OBVIOUS
      <3>2. /\ m.kind = "delete" => doc.kind = "deleted"
            /\ m.kind # "delete" => doc.f = m.w
        BY <3>1 DEF Takes
      <3>3. m.w \in Writes /\ outcome[m.w].doc = d
        BY <2>3 DEF Takes, Asked
      <3>4. From(d, doc)'
        BY <3>2, <3>3, <1>1 DEF From
      <3> QED BY <2>3, <3>1, <3>4, <1>1
    <2> QED BY <2>1, <2>2, <2>3, <1>2
  <1>8. HistoryFrom'
    BY <1>1, <1>7 DEF HistoryFrom, From
  <1> QED BY <1>5, <1>8

(* A write is only taken for a document as the writes before it left it.      *)
LEMMA TakesUpdates ==
  ASSUME ClientInv, OwnInv, NEW m, Takes(m)
  PROVE  UpdatesOnDocs'
  <1>1. /\ outcome' = outcome /\ Writes' = Writes
        /\ \A w : InHistory(history', w) <=> InHistory(history, w) \/ w = m.w
        /\ Asked(m)
    BY DEF Takes
  <1>2. m.w \in Writes /\ outcome[m.w].kind = m.kind /\ outcome[m.w].doc = m.doc
    BY <1>1 DEF Asked
  <1>3. Len(outcome) \in Nat /\ Writes \subseteq Int /\ \A x \in Writes : x <= Len(outcome)
    BY OwnTypes DEF Writes
  <1>4. ASSUME NEW b \in Writes, b < m.w, outcome[b].kind = "delete",
               outcome[b].result # "failed", m.kind = "update", outcome[b].doc = m.doc,
               ~InHistory(history, m.w)
        PROVE  \E s \in Writes : /\ b < s /\ s < m.w /\ outcome[s].kind = "set"
                                 /\ outcome[s].doc = outcome[b].doc /\ InHistory(history, s)
    <2> DEFINE M == {x \in Writes : /\ x >= b /\ outcome[x].doc = m.doc /\ Whole(x)
                                    /\ InHistory(history, x)}
    <2>1. b \in M
      <3>1. Answered(b)
        BY <1>1, <1>4 DEF Asked
      <3>2. InHistory(history, b)
        BY <3>1, AnsweredTaken
      <3> QED BY <3>2, <1>3, <1>4 DEF Whole
    <2>2. M \subseteq Int /\ M # {} /\ Len(outcome) \in Int /\ \A x \in M : x <= Len(outcome)
      <3>1. M \subseteq Writes
        OBVIOUS
      <3> HIDE DEF M
      <3> QED BY <2>1, <3>1, <1>3
    <2>3. \A x \in M : /\ x \in Writes /\ x >= b /\ outcome[x].doc = m.doc /\ Whole(x)
                       /\ InHistory(history, x)
      OBVIOUS
    <2>4. \A x \in Writes : x >= b /\ outcome[x].doc = m.doc /\ Whole(x)
                            /\ InHistory(history, x) => x \in M
      OBVIOUS
    <2> HIDE DEF M
    <2>5. PICK x \in M : \A y \in M : y <= x
      BY <2>2, MaxExists
    <2>6. x \in Writes /\ x < m.w
      <3>1. x \in Writes /\ InHistory(history, x)
        BY <2>3, <2>5
      <3>2. ~(x > m.w) /\ x # m.w
        BY <3>1, <1>1, <1>4 DEF Asked
      <3>3. x \in Int /\ m.w \in Int
        BY <3>1, <1>2, <1>3
      <3> QED BY <3>1, <3>2, <3>3
    <2>7. CASE outcome[x].kind = "delete"
      <3>1. outcome[x].result # "failed"
        BY <2>3, <2>5, AnsweredTaken
      <3>2. Answered(x)
        BY <2>6, <3>1, <1>1 DEF Asked
      <3>3. Latest(x)
        <4>1. SUFFICES ASSUME NEW y \in Writes, y > x, outcome[y].doc = outcome[x].doc,
                              Whole(y), InHistory(history, y)
                       PROVE  FALSE
          BY DEF Latest
        <4>2. y >= b
          BY <2>3, <2>5, <2>6, <4>1, <1>3
        <4>3. y \in M
          BY <2>3, <2>4, <2>5, <4>1, <4>2
        <4> QED BY <2>5, <2>6, <4>1, <4>3, <1>3
      <3>4. Version \in 1..Version /\ Db = history[Version].docs
        BY DbType
      <3>5. ~TakenAfter(x, Version)
        BY <3>4 DEF TakenAfter
      <3>6. Shows(x, Db[m.doc])
        BY <2>3, <2>5, <2>6, <3>2, <3>3, <3>4, <3>5 DEF OwnInv, BackendShows
      <3>7. Db[m.doc].kind = "deleted"
        BY <2>7, <3>6 DEF Shows
      <3> QED BY <3>7, <1>4 DEF Takes
    <2>8. CASE outcome[x].kind # "delete"
      <3>1. outcome[x].kind = "set"
        <4>1. outcome[x].kind \in Kinds
          BY <2>6, OwnTypes
        <4> QED BY <4>1, <2>3, <2>5, <2>8 DEF Whole, Kinds
      <3>2. b < x
        BY <2>3, <2>5, <2>6, <2>8, <1>3, <1>4
      <3> QED BY <2>3, <2>5, <2>6, <3>1, <3>2, <1>4
    <2> QED BY <2>7, <2>8
  <1>5. ASSUME NEW b \in Writes, NEW w \in Writes,
               b < w, outcome[b].kind = "delete", outcome[b].result # "failed",
               outcome[w].kind = "update", outcome[b].doc = outcome[w].doc,
               InHistory(history, w) \/ w = m.w
        PROVE  \E s \in Writes : /\ b < s /\ s < w /\ outcome[s].kind = "set"
                                 /\ outcome[s].doc = outcome[b].doc /\ InHistory(history, s)
    <2>1. CASE InHistory(history, w)
      BY <1>5, <2>1 DEF OwnInv, UpdatesOnDocs
    <2>2. CASE ~InHistory(history, w)
      BY <1>2, <1>4, <1>5, <2>2
    <2> QED BY <2>1, <2>2
  <1> QED BY <1>1, <1>5 DEF UpdatesOnDocs

LEMMA TakesAgain ==
  ASSUME ClientInv, OwnInv, NEW m, Takes(m)
  PROVE  TakenAgain'
  <1>1. /\ outcome' = outcome /\ Writes' = Writes
        /\ \A w : InHistory(history', w) <=> InHistory(history, w) \/ w = m.w
        /\ Asked(m) /\ \A d \in Docs : d # m.doc => Db'[d] = Db[d]
        /\ m.kind # "delete" => Db'[m.doc].kind = "doc"
        /\ \A x \in Writes : Answered(x)' <=> Answered(x) \/ x = m.w
    BY DEF Takes
  <1>2. /\ m.w \in Writes /\ outcome[m.w].kind = m.kind /\ outcome[m.w].doc = m.doc
        /\ outcome[m.w].result = "pending"
    BY <1>1 DEF Asked
  <1>3. \A x \in Writes : x \in Int /\ outcome[x].doc \in Docs
    BY OwnTypes DEF Writes
  <1>4. ASSUME NEW w \in Writes, outcome[w].kind = "update",
               InHistory(history, w) \/ w = m.w, Latest(w)'
        PROVE  \/ Db'[outcome[w].doc].kind = "doc"
               \/ \E c \in Writes : /\ c < w /\ Whole(c) /\ outcome[c].doc = outcome[w].doc
                                    /\ InHistory(history, c) \/ c = m.w
                                    /\ ~Answered(c) /\ c # m.w
    <2>1. CASE w = m.w
      BY <2>1, <1>1, <1>2, <1>4
    <2>2. CASE w # m.w /\ m.kind = "delete" /\ m.doc = outcome[w].doc
      <3>1. m.w < w
        <4>1. ~(m.w > w)
          BY <2>2, <1>4, TakesLatest
        <4> QED BY <4>1, <2>2, <1>2, <1>3
      <3>2. PICK s \in Writes : /\ m.w < s /\ s < w /\ outcome[s].kind = "set"
                                /\ outcome[s].doc = outcome[m.w].doc /\ InHistory(history, s)
        BY <2>2, <3>1, <1>2, <1>4 DEF OwnInv, UpdatesOnDocs
      <3>3. ~Answered(s) /\ s # m.w
        <4>1. s >= m.w
          BY <3>2, <1>2, <1>3
        <4> QED BY <4>1, <3>2, <1>1, <1>2, <1>3 DEF Asked
      <3> QED BY <2>2, <3>2, <3>3, <1>2 DEF Whole
    <2>3. CASE w # m.w /\ (m.kind # "delete" \/ m.doc # outcome[w].doc)
      <3>1. Latest(w)
        BY <1>4, TakesLatest
      <3>2. CASE Db[outcome[w].doc].kind = "doc"
        BY <2>3, <3>2, <1>1, <1>3
      <3>3. CASE Db[outcome[w].doc].kind # "doc"
        <4>1. PICK c \in Writes : /\ c < w /\ Whole(c) /\ outcome[c].doc = outcome[w].doc
                                  /\ InHistory(history, c) /\ ~Answered(c)
          BY <2>3, <3>1, <3>3, <1>4 DEF OwnInv, TakenAgain
        <4>2. CASE c = m.w
          BY <2>3, <4>1, <4>2, <1>1, <1>2
        <4>3. CASE c # m.w
          BY <4>1, <4>3
        <4> QED BY <4>2, <4>3
      <3> QED BY <3>2, <3>3
    <2> QED BY <2>1, <2>2, <2>3
  <1>5. \A c \in Writes : Whole(c)' <=> Whole(c)
    BY <1>1 DEF Whole
  <1>6. \A c \in Writes : ~Answered(c) /\ c # m.w => ~Answered(c)'
    BY <1>1
  <1> QED BY <1>1, <1>4, <1>5, <1>6 DEF TakenAgain

LEMMA TakesShows ==
  ASSUME ClientInv, OwnInv, NEW m, Takes(m)
  PROVE  BackendShows' /\ FailedOver' /\ RefusedOver'
  <1>1. /\ outcome' = outcome /\ Writes' = Writes
        /\ Version \in Nat \ {0} /\ Version' = Version + 1
        /\ \A v \in 1..Version : history'[v] = history[v]
        /\ history'[Version + 1].docs = Db' /\ history'[Version + 1].w = m.w
        /\ \A d \in Docs : d # m.doc => Db'[d] = Db[d]
        /\ \A w : InHistory(history', w) <=> InHistory(history, w) \/ w = m.w
        /\ \A x \in Writes : Answered(x)' <=> Answered(x) \/ x = m.w
    BY DEF Takes
  <1>2. /\ m.w \in Writes /\ outcome[m.w].kind = m.kind /\ outcome[m.w].doc = m.doc
        /\ outcome[m.w].result = "pending" /\ \A x \in Writes : x >= m.w => ~Answered(x)
    BY DEF Takes, Asked
  <1>3. \A x \in Writes : x \in Int /\ outcome[x].doc \in Docs /\ outcome[x].kind \in Kinds
    BY OwnTypes DEF Writes
  <1>4. Version \in 1..Version /\ Db = history[Version].docs
        /\ \A v \in 1..(Version + 1) : v \in 1..Version \/ v = Version + 1
    BY <1>1, DbType
  <1>5. Shows(m.w, Db'[m.doc])
    BY <1>2, <1>3 DEF Takes, Shows, Kinds
  <1>6. ASSUME NEW b \in Writes, Answered(b), Latest(b)'
        PROVE  Shows(b, Db'[outcome[b].doc])
    <2>1. Latest(b) /\ b < m.w
      BY <1>2, <1>3, <1>6, TakesLatest
    <2>2. ~TakenAfter(b, Version)
      BY <1>4 DEF TakenAfter
    <2>3. Shows(b, Db[outcome[b].doc])
      BY <2>1, <2>2, <1>4, <1>6 DEF OwnInv, BackendShows
    <2>4. CASE outcome[b].doc # m.doc
      BY <2>3, <2>4, <1>1, <1>3
    <2>5. CASE outcome[b].doc = m.doc
      <3>1. m.kind = "update"
        BY <2>1, <2>5, <1>6, TakesLatest
      <3>2. /\ Db[m.doc].kind = "doc" /\ Db'[m.doc].kind = "doc"
            /\ Db'[m.doc].f = m.w /\ Db'[m.doc].g = Db[m.doc].g
        BY <3>1 DEF Takes
      <3>3. m.w >= b
        BY <2>1, <1>2, <1>3
      <3> QED BY <2>3, <2>5, <3>2, <3>3 DEF Shows
    <2> QED BY <2>4, <2>5
  <1>7. ASSUME NEW b \in Writes, Answered(b)', Latest(b)', NEW v \in 1..(Version + 1),
               ~TakenAfter(b, v)'
        PROVE  \E doc : doc = history'[v].docs[outcome[b].doc] /\ Shows(b, doc)
    <2>1. CASE v = Version + 1
      <3>1. history'[v].docs = Db'
        BY <2>1, <1>1
      <3>2. CASE b = m.w
        BY <3>1, <3>2, <1>2, <1>5
      <3>3. CASE b # m.w
        BY <3>1, <3>3, <1>1, <1>6, <1>7
      <3> QED BY <3>2, <3>3
    <2>2. CASE v \in 1..Version
      <3>1. b # m.w
        <4>1. Version + 1 \in 1..Version' /\ Version + 1 > v
          BY <2>2, <1>1
        <4>2. history'[Version + 1].w = m.w
          BY <1>1
        <4> QED BY <4>1, <4>2, <1>7 DEF TakenAfter
      <3>2. Answered(b) /\ Latest(b) /\ ~TakenAfter(b, v)
        BY <3>1, <1>1, <1>7, TakesLatest
      <3>3. Shows(b, history[v].docs[outcome[b].doc])
        BY <2>2, <3>2 DEF OwnInv, BackendShows
      <3> QED BY <2>2, <3>3, <1>1
    <2> QED BY <2>1, <2>2, <1>4
  <1>8. BackendShows'
    BY <1>1, <1>7 DEF BackendShows, Shows
  <1>9. FailedOver'
    <2>1. ASSUME NEW w \in Writes, outcome[w].result = "failed",
                 InHistory(history, w) \/ w = m.w
          PROVE  ~Latest(w)'
      <3>1. InHistory(history, w)
        BY <2>1, <1>2
      <3> QED BY <2>1, <3>1, TakesLatest DEF OwnInv, FailedOver
    <2> QED BY <2>1, <1>1 DEF FailedOver
  <1>10. RefusedOver'
    BY DEF Takes, RefusedOver
  <1> QED BY <1>8, <1>9, <1>10

LEMMA TakesCache ==
  ASSUME ClientInv, CacheInv, OwnInv, NEW m, Takes(m)
  PROVE  CacheShows' /\ ListenersKnow'
  <1>1. /\ UNCHANGED <<outcome, cache, since, targets, lastRemote>> /\ Writes' = Writes
        /\ Version \in Nat \ {0} /\ Version' = Version + 1
        /\ \A v \in 1..Version : history'[v] = history[v]
        /\ history'[Version + 1].w = m.w
        /\ \A w : InHistory(history', w) <=> InHistory(history, w) \/ w = m.w
    BY DEF Takes
  <1>2. Landed' = Landed /\ m.w \notin Landed
    <2>1. m.w \in Writes
      BY DEF Takes, Asked
    <2>2. m.w >= m.w
      BY <2>1 DEF Writes
    <2> QED BY <2>1, <2>2, TakesOrder DEF Takes, Asked
  <1>3. ASSUME NEW d \in Docs, NEW doc, doc = cache[d]
        PROVE  /\ \A b \in Landed : outcome[b].doc = d /\ Latest(b)' => Shows(b, doc)'
               /\ doc.version > 0 /\ (\A b \in Landed : ~TakenAfter(b, doc.version)') =>
                    doc = history'[doc.version].docs[d]
               /\ From(d, doc)'
    <2>1. /\ \A b \in Landed : outcome[b].doc = d /\ Latest(b) => Shows(b, doc)
          /\ doc.version > 0 /\ (\A b \in Landed : ~TakenAfter(b, doc.version)) =>
               doc = history[doc.version].docs[d]
          /\ From(d, doc)
      BY <1>3 DEF OwnInv, CacheShows, ShowsAll
    <2>2. \A b \in Landed : /\ Latest(b)' => Latest(b)
                            /\ Shows(b, doc)' <=> Shows(b, doc)
                            /\ TakenAfter(b, doc.version) => TakenAfter(b, doc.version)'
      BY TakesLatest DEF Landed
    <2>3. From(d, doc)'
      BY <2>1, <1>1 DEF From
    <2>4. doc.version \in Nat /\ doc.version <= Version
      <3>1. cache[d].version <= Db[d].version /\ Db[d].version <= Version
        BY DEF CacheInv, CacheTrue, HistoryTrue
      <3>2. cache[d] \in Document /\ Db[d].version \in Nat
        BY DbType DEF CacheInv, CacheTypeOK
      <3> QED BY <3>1, <3>2, <1>1, <1>3 DEF Document
    <2>5. doc.version > 0 => history'[doc.version] = history[doc.version]
      BY <2>4, <1>1
    <2> QED BY <2>1, <2>2, <2>3, <2>5
  <1>4. CacheShows'
    <2>1. ASSUME NEW d \in Docs
          PROVE  /\ \A b \in Landed : outcome[b].doc = d /\ Latest(b)' => Shows(b, cache[d])'
                 /\ cache[d].version > 0 /\ (\A b \in Landed : ~TakenAfter(b, cache[d].version)') =>
                      cache[d] = history'[cache[d].version].docs[d]
                 /\ From(d, cache[d])'
      <3>1. PICK doc : doc = cache[d]
        OBVIOUS
      <3>2. /\ \A b : Shows(b, doc)' <=> Shows(b, cache[d])'
            /\ \A b : TakenAfter(b, doc.version)' <=> TakenAfter(b, cache[d].version)'
            /\ From(d, doc)' <=> From(d, cache[d])'
        BY <3>1, <1>1 DEF Shows, TakenAfter, From
      <3> QED BY <3>1, <3>2, <1>3
    <2> QED BY <2>1, <1>1, <1>2 DEF CacheShows, ShowsAll
  <1>5. ListenersKnow'
    <2>1. ASSUME NEW d \in targets, NEW y \in 1..(Version + 1), y > since[d], y > lastRemote
          PROVE  history'[y].w \notin Landed
      <3>1. CASE y = Version + 1
        BY <3>1, <1>1, <1>2
      <3>2. CASE y \in 1..Version
        BY <2>1, <3>2, <1>1 DEF OwnInv, ListenersKnow
      <3> QED BY <3>1, <3>2, <1>1
    <2>2. since \in [Docs -> Nat]
      BY DEF OwnInv, ListenersKnow
    <2> QED BY <2>1, <2>2, <1>1, <1>2 DEF ListenersKnow
  <1> QED BY <1>4, <1>5

LEMMA ServerTakesKeepsOwn ==
  ASSUME ClientInv, CacheInv, OwnInv, ServerTakes
  PROVE  OwnInv'
  <1>1. PICK m : Takes(m)
    BY TakesIs
  <1>2. OwnQueue' /\ TakenInOrder' /\ HeldLast' /\ AnswersLast'
    BY <1>1, TakesOrder
  <1>3. Versions' /\ HistoryFrom' /\ UpdatesOnDocs'
    BY <1>1, TakesVersions, TakesUpdates
  <1>4. TakenAgain' /\ BackendShows' /\ FailedOver' /\ RefusedOver'
    BY <1>1, TakesAgain, TakesShows
  <1>5. CacheShows' /\ ListenersKnow'
    BY <1>1, TakesCache
  <1> QED BY <1>2, <1>3, <1>4, <1>5 DEF OwnInv

--------------------------------------------------------------------------------
(* What a mutation makes of a document. *)
LEMMA MutationIs ==
  ASSUME NEW doc \in Document, NEW m, m.w \in Nat, m.kind \in Kinds,
         NEW new, new = ApplyMutation(doc, m)
  PROVE  /\ new \in Document
         /\ m.kind = "set" => new.kind = "doc" /\ new.f = m.w /\ new.g = m.w
         /\ m.kind = "delete" => new.kind = "deleted"
         /\ m.kind = "update" /\ doc.kind = "doc" =>
              new.kind = "doc" /\ new.f = m.w /\ new.g = doc.g
         /\ m.kind = "update" /\ doc.kind # "doc" => new = doc
         /\ new.version = doc.version \/ new.version = 0
         /\ new.version > 0 => doc.kind # "unknown" \/ new = doc
  <1>1. new \in Document
    BY MutationType
  <1>2. m.kind = "set" =>
          /\ new.kind = "doc" /\ new.f = m.w /\ new.g = m.w
          /\ new.version = (IF doc.kind = "doc" THEN doc.version ELSE 0)
    BY DEF ApplyMutation, IsValidFor, ApplySet
  <1>3. m.kind = "delete" => new.kind = "deleted" /\ new.version = 0
    BY DEF ApplyMutation, IsValidFor, ApplyDelete, Deleted
  <1>4. m.kind = "update" /\ doc.kind = "doc" =>
          new.kind = "doc" /\ new.f = m.w /\ new.g = doc.g /\ new.version = doc.version
    BY DEF ApplyMutation, IsValidFor, ApplyPatch, Document
  <1>5. m.kind = "update" /\ doc.kind # "doc" => new = doc
    BY DEF ApplyMutation, IsValidFor
  <1>6. m.kind = "set" \/ m.kind = "update" \/ m.kind = "delete"
    BY DEF Kinds
  <1> QED BY <1>1, <1>2, <1>3, <1>4, <1>5, <1>6

(* It shows its write, and what that builds on. *)
LEMMA MutationShows ==
  ASSUME NEW doc \in Document, NEW m, m.w \in Writes, m.kind \in Kinds,
         outcome[m.w].kind = m.kind, NEW new, new = ApplyMutation(doc, m)
  PROVE  /\ Shows(m.w, new)
         /\ \A b \in Writes : b < m.w /\ m.kind = "update" /\ Shows(b, doc) => Shows(b, new)
         /\ new.kind = "doc" => new.f = m.w
  <1>1. m.w \in Nat
    BY DEF Writes
  <1>2. /\ m.kind = "set" => new.kind = "doc" /\ new.f = m.w /\ new.g = m.w
        /\ m.kind = "delete" => new.kind = "deleted"
        /\ m.kind = "update" /\ doc.kind = "doc" =>
             new.kind = "doc" /\ new.f = m.w /\ new.g = doc.g
        /\ m.kind = "update" /\ doc.kind # "doc" => new = doc
    BY <1>1, MutationIs
  <1>3. m.kind = "set" \/ m.kind = "update" \/ m.kind = "delete"
    BY DEF Kinds
  <1>4. Shows(m.w, new)
    BY <1>1, <1>2, <1>3 DEF Shows
  <1>5. ASSUME NEW b \in Writes, b < m.w, m.kind = "update", Shows(b, doc)
        PROVE  Shows(b, new)
    <2>1. CASE doc.kind = "doc"
      <3>1. m.w >= b
        BY <1>1, <1>5 DEF Writes
      <3> QED BY <2>1, <3>1, <1>2, <1>5 DEF Shows
    <2>2. CASE doc.kind # "doc"
      BY <2>2, <1>2, <1>5
    <2> QED BY <2>1, <2>2
  <1> QED BY <1>2, <1>3, <1>4, <1>5

(* A result is applied: it comes after all that landed before.                *)
LEMMA AppliedShows ==
  ASSUME ClientInv, OwnInv, NEW docs, Behind(docs, Db), NEW landed, ShowsAll(docs, landed),
         \A d \in Docs : Db[d].version <= Version,
         NEW r \in Result, LastTaken(r.batch.w, r.version), Answered(r.batch.w),
         r.batch.w \in Writes, outcome[r.batch.w].kind = r.batch.kind,
         outcome[r.batch.w].doc = r.batch.doc,
         landed \subseteq Writes, \A b \in landed : b < r.batch.w
  PROVE  ShowsAll(ApplyBatchResult(docs, r), landed \cup {r.batch.w})
  <1>1. PICK w \in Writes : w = r.batch.w
    OBVIOUS
  <1>2. PICK c \in Docs : c = r.batch.doc
    BY ResultTypes
  <1>3. PICK new : new = ApplyBatchResult(docs, r)
    OBVIOUS
  <1>4. /\ docs \in [Docs -> Document] /\ \A d \in Docs : docs[d].version \in Nat
        /\ \A d \in Docs : docs[d].version <= Version
        /\ r.version \in Nat /\ r.version \in 1..Version /\ Version \in Nat
    <2>1. docs \in [Docs -> Document] /\ \A d \in Docs : docs[d].version <= Db[d].version
      BY DEF Behind
    <2>2. \A d \in Docs : docs[d].version \in Nat
      BY <2>1 DEF Document
    <2>3. \A d \in Docs : Db[d].version \in Nat /\ Version \in Nat
      BY DbType
    <2>4. r.version \in Nat /\ r.version \in 1..Version
      BY ResultTypes DEF LastTaken
    <2>5. \A d \in Docs : docs[d].version <= Version
      BY <2>1, <2>2, <2>3
    <2> QED BY <2>1, <2>2, <2>3, <2>4, <2>5
  <1>5. ASSUME NEW v \in Nat, v < r.version
        PROVE  TakenAfter(w, v)
    BY <1>1, <1>4, <1>5 DEF LastTaken, TakenAfter
  <1>6. ASSUME NEW v \in Nat, v >= r.version, NEW b \in Writes, b <= w
        PROVE  ~TakenAfter(b, v)
    <2>1. SUFFICES ASSUME NEW y \in 1..Version, y > v, history[y].w = b PROVE FALSE
      BY DEF TakenAfter
    <2>2. y > r.version
      BY <2>1, <1>4, <1>6
    <2>3. history[y].w > w
      BY <2>2, <1>1 DEF LastTaken
    <2> QED BY <2>1, <2>3, <1>1, <1>6 DEF Writes
  <1>7. InHistory(history, w)
    BY <1>1, AnsweredTaken
  <1>8. \A b \in landed : b \in Writes /\ b < w
    BY <1>1
  <1>9. ASSUME NEW d \in Docs
        PROVE  /\ \A b \in landed : outcome[b].doc = d /\ Latest(b) => Shows(b, docs[d])
               /\ docs[d].version > 0 /\ (\A b \in landed : ~TakenAfter(b, docs[d].version)) =>
                    docs[d] = history[docs[d].version].docs[d]
               /\ From(d, docs[d])
    BY DEF ShowsAll
  <1> DEFINE more == landed \cup {w}
             Good(d, doc) ==
               /\ \A b \in more : outcome[b].doc = d /\ Latest(b) => Shows(b, doc)
               /\ doc.version > 0 /\ (\A b \in more : ~TakenAfter(b, doc.version)) =>
                    doc = history[doc.version].docs[d]
               /\ From(d, doc)
  <1>10. ASSUME NEW d \in Docs, d # c
         PROVE  Good(d, new[d])
    <2>1. new[d] = docs[d]
      BY <1>2, <1>3, <1>4, <1>10 DEF ApplyBatchResult
    <2>2. outcome[w].doc # d
      BY <1>1, <1>2, <1>10
    <2> QED BY <2>1, <2>2, <1>9
  <1>11. CASE docs[c].kind # "unknown" /\ docs[c].version >= r.version
    <2>1. new = docs
      BY <1>2, <1>3, <1>4, <1>11 DEF ApplyBatchResult
    <2>2. PICK v \in Nat : v = docs[c].version
      BY <1>4
    <2>3. v \in 1..Version /\ v >= r.version
      BY <2>2, <1>4, <1>11
    <2>4. \A b \in landed : ~TakenAfter(b, v)
      <3>1. \A b \in landed : b \in Writes /\ b <= w
        BY <1>8 DEF Writes
      <3> QED BY <2>3, <3>1, <1>6
    <2>5. docs[c] = history[v].docs[c]
      BY <2>2, <2>3, <2>4, <1>9
    <2>6. Latest(w) => Shows(w, docs[c])
      <3>1. ~TakenAfter(w, v)
        <4>1. w <= w
          BY DEF Writes
        <4> QED BY <4>1, <2>3, <1>6
      <3> QED BY <2>3, <2>5, <3>1, <1>1, <1>2 DEF OwnInv, BackendShows
    <2>7. Good(c, new[c])
      BY <2>1, <2>6, <1>9
    <2> QED BY <2>7, <1>1, <1>3, <1>10 DEF ShowsAll
  <1>12. CASE ~(docs[c].kind # "unknown" /\ docs[c].version >= r.version)
    <2> DEFINE doc == docs[c]
               next == ApplyMutation(doc, r.batch)
    <2>1. new[c] = next
      BY <1>2, <1>3, <1>4, <1>12 DEF ApplyBatchResult
    <2>2. /\ doc \in Document /\ r.batch.w \in Nat /\ r.batch.kind \in Kinds
          /\ doc.version \in Nat
      BY <1>4, ResultTypes
    <2> HIDE DEF doc
    <2>3. /\ next.version = doc.version \/ next.version = 0
          /\ next.version > 0 => doc.kind # "unknown" \/ next = doc
      BY <2>2, MutationIs
    <2>4. /\ Shows(w, next)
          /\ \A b \in Writes : b < w /\ r.batch.kind = "update" /\ Shows(b, doc)
                               => Shows(b, next)
          /\ next.kind = "doc" => next.f = w
      BY <2>2, <1>1, MutationShows
    <2> HIDE DEF next
    <2>5. From(c, next)
      BY <2>4, <1>1, <1>2, <1>7 DEF From
    <2>6. ASSUME NEW b \in landed, outcome[b].doc = c, Latest(b)
          PROVE  Shows(b, next)
      <3>1. r.batch.kind = "update"
        BY <2>6, <1>1, <1>2, <1>7, <1>8 DEF Latest, Whole
      <3> QED BY <2>4, <2>6, <3>1, <1>8, <1>9 DEF doc
    <2>7. ASSUME next.version > 0, \A b \in more : ~TakenAfter(b, next.version)
          PROVE  next = history[next.version].docs[c]
      <3>1. next.version = doc.version
        BY <2>3, <2>7
      <3>2. CASE doc.kind # "unknown"
        <4>1. doc.version < r.version
          BY <3>2, <2>2, <1>4, <1>12 DEF doc
        <4>2. TakenAfter(w, next.version)
          BY <3>1, <4>1, <2>2, <1>5
        <4> QED BY <4>2, <2>7
      <3>3. CASE doc.kind = "unknown"
        <4>1. next = doc
          BY <3>3, <2>3, <2>7
        <4> QED BY <4>1, <2>7, <1>9 DEF doc
      <3> QED BY <3>2, <3>3
    <2>8. Good(c, next)
      BY <2>4, <2>5, <2>6, <2>7
    <2> HIDE DEF Good
    <2>9. \A d \in Docs : Good(d, new[d])
      BY <2>1, <2>8, <1>10
    <2> QED BY <2>9, <1>1, <1>3 DEF ShowsAll, Good
  <1> QED BY <1>11, <1>12

(* The writes of the first n held results, and those that landed before.      *)
LandedWith(n) == Landed \cup {held[i].batch.w : i \in 1..n}

LEMMA HeldIs ==
  ASSUME ClientInv, OwnInv, NEW i \in 1..Len(held)
  PROVE  /\ held[i] \in Result /\ i \in 1..Len(queue[user]) /\ held[i].batch = queue[user][i]
         /\ held[i].batch.w \in Writes /\ Answered(held[i].batch.w)
         /\ outcome[held[i].batch.w].result = "ok"
         /\ outcome[held[i].batch.w].kind = held[i].batch.kind
         /\ outcome[held[i].batch.w].doc = held[i].batch.doc
         /\ \A b \in Landed : b < held[i].batch.w
         /\ \A j \in 1..Len(held) : j < i => held[j].batch.w < held[i].batch.w
  <1>1. /\ Len(held) \in Nat /\ held \in Seq(Result) /\ Len(queue[user]) \in Nat
        /\ user \in Users
    BY View DEF ClientInv, ClientTypeOK
  <1>2. \A j \in 1..Len(held) : j \in 1..Len(queue[user]) /\ held[j].batch = queue[user][j]
    BY <1>1 DEF ClientInv, HeldFirst
  <1>3. PICK b : b = queue[user][i]
    OBVIOUS
  <1>4. b.w \in Writes /\ outcome[b.w].kind = b.kind /\ outcome[b.w].doc = b.doc
    BY <1>2, <1>3, OwnTypes DEF OwnInv, OwnQueue
  <1>5. outcome[b.w].result = "ok"
    <2>1. b.id <= acked[user]
      BY <1>1, <1>2, <1>3 DEF ClientInv, HeldFirst
    <2> QED BY <2>1, <1>1, <1>2, <1>3 DEF ClientInv, QueuesPending
  <1>6. \A x \in Landed : x < b.w
    BY <1>2, <1>3 DEF OwnInv, OwnQueue
  <1>7. \A j \in 1..Len(held) : j < i => held[j].batch.w < b.w
    BY <1>2, <1>3, OwnTypes
  <1> QED BY <1>1, <1>2, <1>3, <1>4, <1>5, <1>6, <1>7 DEF Answered

LEMMA LandedAnswered ==
  ASSUME NEW b \in Landed
  PROVE  b \in Writes /\ Answered(b)
  BY DEF Landed, Answered

LEMMA ReleasedShows ==
  ASSUME ClientInv, CacheInv, OwnInv, NEW docs, Behind(docs, Db), ShowsAll(docs, Landed),
         NEW n \in 0..Len(held)
  PROVE  ShowsAll(WithResults(docs, SubSeq(held, 1, n)), LandedWith(n))
  <1> DEFINE s == SubSeq(held, 1, n)
  <1>1. held \in Seq(Result) /\ Len(held) \in Nat
    BY DEF ClientInv, ClientTypeOK
  <1>2. s \in Seq(Result) /\ Len(s) = n /\ n \in Nat /\ n <= Len(held)
        /\ \A i \in 1..n : s[i] = held[i] /\ i \in 1..Len(held)
    BY <1>1
  <1> HIDE DEF s
  <1>3. docs \in [Docs -> Document]
    BY DEF Behind
  <1>4. PICK h \in [0..n -> [Docs -> Document]] :
           /\ h[0] = docs /\ WithResults(docs, s) = h[n]
           /\ \A i \in 1..n : h[i] = ApplyBatchResult(h[i - 1], s[i])
    BY <1>2, <1>3, ResultsApplied
  <1> DEFINE T == {i \in Nat : i <= n => Behind(h[i], Db) /\ ShowsAll(h[i], LandedWith(i))}
  <1>5. 0 \in T
    <2>1. LandedWith(0) = Landed
      BY DEF LandedWith
    <2> QED BY <2>1, <1>4
  <1>6. \A d \in Docs : Db[d].version <= Version
    BY DEF CacheInv, HistoryTrue
  <1>7. ASSUME NEW i \in Nat, i \in T
        PROVE  i + 1 \in T
    <2>1. SUFFICES ASSUME i + 1 <= n
                   PROVE  Behind(h[i + 1], Db) /\ ShowsAll(h[i + 1], LandedWith(i + 1))
      OBVIOUS
    <2>2. i + 1 \in 1..n /\ (i + 1) - 1 = i /\ Behind(h[i], Db) /\ ShowsAll(h[i], LandedWith(i))
      BY <2>1, <1>2, <1>7
    <2> DEFINE r == held[i + 1]
    <2>3. h[i + 1] = ApplyBatchResult(h[i], r) /\ i + 1 \in 1..Len(held)
      BY <2>2, <1>2, <1>4
    <2>4. /\ r \in Result /\ r.batch.w \in Writes /\ Answered(r.batch.w)
          /\ outcome[r.batch.w].kind = r.batch.kind /\ outcome[r.batch.w].doc = r.batch.doc
          /\ \A b \in Landed : b < r.batch.w
          /\ \A j \in 1..Len(held) : j < i + 1 => held[j].batch.w < r.batch.w
      BY <2>3, HeldIs
    <2>5. LastTaken(r.batch.w, r.version) /\ Fresh(r, Db)
      BY <2>3 DEF OwnInv, HeldLast, CacheInv, HeldFresh
    <2>6. LandedWith(i) \subseteq Writes /\ \A b \in LandedWith(i) : b < r.batch.w
      <3>1. \A j \in 1..i : j \in 1..Len(held) /\ j < i + 1
        BY <2>2, <1>2
      <3>2. \A j \in 1..i : held[j].batch.w \in Writes /\ held[j].batch.w < r.batch.w
        BY <3>1, <2>4, HeldIs
      <3> QED BY <3>2, <2>4, LandedAnswered DEF LandedWith
    <2>7. LandedWith(i + 1) = LandedWith(i) \cup {r.batch.w}
      <3>1. \A j \in 1..(i + 1) : j \in 1..i \/ j = i + 1
        OBVIOUS
      <3>2. \A j \in 1..i : j \in 1..(i + 1)
        OBVIOUS
      <3>3. i + 1 \in 1..(i + 1)
        OBVIOUS
      <3> QED BY <3>1, <3>2, <3>3 DEF LandedWith
    <2> HIDE DEF r
    <2>8. ShowsAll(ApplyBatchResult(h[i], r), LandedWith(i) \cup {r.batch.w})
      BY <2>2, <2>4, <2>5, <2>6, <1>6, AppliedShows
    <2>9. Behind(ApplyBatchResult(h[i], r), Db)
      BY <2>2, <2>4, <2>5, AppliedBehind
    <2> QED BY <2>3, <2>7, <2>8, <2>9
  <1> HIDE DEF T
  <1>8. \A i \in Nat : i \in T
    BY <1>5, <1>7, SetInduction
  <1>9. ShowsAll(h[n], LandedWith(n))
    BY <1>2, <1>8 DEF T
  <1> QED BY <1>4, <1>9 DEF s

(* What is carried over to the next state, in which more landed.              *)
LEMMA ShowsStays ==
  ASSUME ClientInv, OwnInv, Grown, ShowsAll(cache', Landed'), Landed' \subseteq Writes
  PROVE  CacheShows'
  <1>1. \A b \in Landed' : /\ b \in Writes /\ outcome'[b].doc = outcome[b].doc
                           /\ Latest(b)' <=> Latest(b)
                           /\ \A doc : Shows(b, doc)' <=> Shows(b, doc)
    BY GrownKeeps DEF Grown
  <1>2. \A d, doc : From(d, doc) => From(d, doc)'
    BY GrownKeeps
  <1>3. history' = history /\ \A b, v : TakenAfter(b, v)' <=> TakenAfter(b, v)
    BY DEF Grown, TakenAfter, Version
  <1>4. ASSUME NEW d \in Docs
        PROVE  /\ \A b \in Landed' : outcome'[b].doc = d /\ Latest(b)' =>
                    \E doc : doc = cache'[d] /\ Shows(b, doc)'
               /\ cache'[d].version > 0 /\ (\A b \in Landed' :
                    \A v : v = cache'[d].version => ~TakenAfter(b, v)') =>
                    cache'[d] = history'[cache'[d].version].docs[d]
               /\ \E doc : doc = cache'[d] /\ From(d, doc)'
    <2>1. PICK c : c = cache'[d]
      OBVIOUS
    <2>2. /\ \A b \in Landed' : outcome[b].doc = d /\ Latest(b) => Shows(b, c)
          /\ c.version > 0 /\ (\A b \in Landed' : ~TakenAfter(b, c.version)) =>
               c = history[c.version].docs[d]
          /\ From(d, c)
      BY <2>1 DEF ShowsAll
    <2> QED BY <2>1, <2>2, <1>1, <1>2, <1>3
  <1>5. ASSUME NEW d \in Docs
        PROVE  /\ \A b \in Landed' : outcome'[b].doc = d /\ Latest(b)' => Shows(b, cache[d])'
               /\ cache'[d].version > 0 /\ (\A b \in Landed' : ~TakenAfter(b, cache[d].version)') =>
                    cache'[d] = history'[cache'[d].version].docs[d]
               /\ From(d, cache[d])'
    <2>1. PICK c : c = cache'[d]
      OBVIOUS
    <2>2. /\ \A b : Shows(b, c)' <=> Shows(b, cache[d])'
          /\ \A b : TakenAfter(b, c.version)' <=> TakenAfter(b, cache[d].version)'
          /\ From(d, c)' <=> From(d, cache[d])'
      BY <2>1 DEF Shows, TakenAfter, From
    <2> QED BY <2>1, <2>2, <1>4
  <1> QED BY <1>5 DEF CacheShows, ShowsAll

LEMMA ReleasedOwn ==
  ASSUME ClientInv, ClientInv', OwnInv, NEW n \in 0..Len(held), Released(n),
         UNCHANGED <<outcome, history, user, responses>>
  PROVE  /\ Grown /\ OwnQueue' /\ TakenInOrder' /\ HeldLast' /\ AnswersLast' /\ RefusedOver'
         /\ Landed' = LandedWith(n) /\ Landed' \subseteq Writes
  <1> DEFINE q == queue[user]
             r == queue'[user]
  <1>1. /\ Len(held') = Len(held) - n /\ Len(r) = Len(q) - n
        /\ \A i \in 1..Len(held') : i + n \in 1..Len(held) /\ held'[i] = held[i + n]
        /\ \A i \in 1..Len(r) : i + n \in 1..Len(q) /\ r[i] = q[i + n]
        /\ n \in Nat /\ Len(held) \in Nat /\ Len(q) \in Nat /\ n <= Len(q) /\ n <= Len(held)
    BY ReleasedQueue
  <1> HIDE DEF r
  <1>2. Grown
    BY SameWrites
  <1>3. \A i \in 1..n : i \in 1..Len(held) /\ i \in 1..Len(q)
    BY <1>1
  <1>4. \A i \in 1..n : /\ held[i].batch.w \in Writes /\ held[i].batch.w = q[i].w
                        /\ outcome[held[i].batch.w].result = "ok"
    BY <1>3, HeldIs
  <1>5. \A i, j \in 1..Len(q) : i < j => q[i].w < q[j].w
    BY OwnTypes
  <1>6. \A i \in 1..Len(q) : q[i].w \in Writes
    BY OwnTypes
  <1>7. ASSUME NEW x \in Writes
        PROVE  /\ Waiting(x)' <=> \E i \in 1..Len(r) : r[i].w = x
               /\ Waiting(x)' => Waiting(x)
    <2>1. Waiting(x)' <=> \E i \in 1..Len(r) : r[i].w = x
      BY DEF Waiting, r
    <2>2. (\E i \in 1..Len(r) : r[i].w = x) => \E i \in 1..Len(q) : q[i].w = x
      BY <1>1
    <2> QED BY <2>1, <2>2 DEF Waiting
  <1>8. ASSUME NEW i \in 1..n, NEW j \in 1..Len(r)
        PROVE  q[i].w < r[j].w
    <2>1. j + n \in 1..Len(q) /\ i < j + n
      BY <1>1
    <2> QED BY <2>1, <1>1, <1>3, <1>5
  <1>9. ASSUME NEW x \in Writes, Waiting(x), ~Waiting(x)'
        PROVE  \E i \in 1..n : held[i].batch.w = x
    <2>1. PICK i \in 1..Len(q) : q[i].w = x
      BY <1>9 DEF Waiting
    <2>2. CASE i > n
      <3>1. i - n \in 1..Len(r) /\ (i - n) + n = i
        BY <2>2, <1>1
      <3>2. r[i - n].w = x
        BY <2>1, <3>1, <1>1
      <3> QED BY <3>1, <3>2, <1>7, <1>9
    <2>3. CASE i <= n
      <3>1. i \in 1..n
        BY <2>3, <1>1
      <3> QED BY <2>1, <3>1, <1>4
    <2>4. i \in Nat /\ n \in Nat
      BY <1>1
    <2>5. i > n \/ i <= n
      BY <2>4
    <2> QED BY <2>2, <2>3, <2>5
  <1>10. Writes' = Writes
    BY DEF Writes
  <1>11. Landed' = LandedWith(n)
    <2>1. ASSUME NEW x \in Landed'
          PROVE  x \in LandedWith(n)
      <3>1. x \in Writes /\ outcome[x].result = "ok" /\ ~Waiting(x)'
        BY <2>1, <1>10 DEF Landed
      <3> QED BY <3>1, <1>9 DEF Landed, LandedWith
    <2>2. ASSUME NEW x \in Landed
          PROVE  x \in Landed'
      BY <1>7, <1>10 DEF Landed
    <2>3. ASSUME NEW i \in 1..n
          PROVE  held[i].batch.w \in Landed'
      <3>1. PICK x \in Writes : x = held[i].batch.w
        BY <1>4
      <3>2. \A j \in 1..Len(r) : r[j].w # x
        <4>1. x \in Nat /\ x = q[i].w
          BY <3>1, <1>4 DEF Writes
        <4>2. \A j \in 1..Len(r) : x < r[j].w
          BY <4>1, <1>8
        <4> QED BY <4>1, <4>2
      <3>3. ~Waiting(x)'
        BY <3>2, <1>7
      <3>4. x \in Landed'
        BY <3>1, <3>3, <1>4, <1>10 DEF Landed
      <3> QED BY <3>1, <3>4
    <2> QED BY <2>1, <2>2, <2>3 DEF LandedWith
  <1>12. Landed' \subseteq Writes
    BY <1>4, <1>11 DEF Landed, LandedWith
  <1>13. OwnQueue' /\ TakenInOrder'
    <2>1. \A i \in 1..Len(queue'[user]) :
            \E j \in 1..Len(queue[user]) : queue'[user][i] = queue[user][j]
      BY <1>1 DEF r
    <2>2. ASSUME NEW b \in Landed', b \notin Landed, NEW i \in 1..Len(queue'[user])
          PROVE  b < queue'[user][i].w
      <3>1. PICK j \in 1..n : b = held[j].batch.w
        BY <2>2, <1>11 DEF LandedWith
      <3> QED BY <3>1, <1>4, <1>8 DEF r
    <2> QED BY <2>1, <2>2, <1>2, OrderKept
  <1>14. HeldLast'
    <2>1. ASSUME NEW i \in 1..Len(held')
          PROVE  LastTaken(held'[i].batch.w, held'[i].version)
      BY <1>1 DEF OwnInv, HeldLast
    <2> QED BY <2>1 DEF HeldLast, LastTaken, Version
  <1>15. AnswersLast'
    BY LastStays DEF OwnInv, AnswersLast
  <1>16. RefusedOver'
    BY DEF OwnInv, RefusedOver, Latest, Whole, Writes
  <1> QED BY <1>2, <1>11, <1>12, <1>13, <1>14, <1>15, <1>16

LEMMA ReleasedKnow ==
  ASSUME ClientInv, CacheInv, OwnInv, NEW n \in 0..Len(held), Landed' = LandedWith(n),
         history' = history, since' = since, targets' \subseteq targets,
         lastRemote' \in Nat, lastRemote <= lastRemote',
         \A i \in 1..n : held[i].version <= lastRemote' \/ targets' = {}
  PROVE  ListenersKnow'
  <1>1. Version' = Version /\ Version \in Nat /\ lastRemote \in Nat
    BY DbType DEF Version, CacheInv, CacheTypeOK
  <1>2. ASSUME NEW d \in targets', NEW y \in 1..Version, y > since[d], y > lastRemote'
        PROVE  history[y].w \notin LandedWith(n)
    <2>1. history[y].w \notin Landed
      BY <1>1, <1>2 DEF OwnInv, ListenersKnow
    <2>2. ASSUME NEW i \in 1..n
          PROVE  history[y].w # held[i].batch.w
      <3>1. i \in 1..Len(held) /\ held[i] \in Result /\ held[i].batch.w \in Writes
        <4>1. Len(held) \in Nat
          BY View
        <4>2. i \in 1..Len(held)
          BY <4>1
        <4> QED BY <4>2, HeldIs
      <3>2. held[i].version \in Nat /\ held[i].version <= lastRemote'
        BY <3>1, <1>2, ResultTypes
      <3>3. y > held[i].version
        BY <3>2, <1>2
      <3>4. history[y].w > held[i].batch.w
        BY <3>1, <3>3 DEF OwnInv, HeldLast, LastTaken
      <3> QED BY <3>1, <3>4 DEF Writes
    <2> QED BY <2>1, <2>2 DEF LandedWith
  <1>3. since \in [Docs -> Nat]
    BY DEF OwnInv, ListenersKnow
  <1> QED BY <1>1, <1>2, <1>3 DEF ListenersKnow

LEMMA StopListeningKeepsOwn ==
  ASSUME ClientInv, ClientInv', CacheInv, OwnInv, NEW d \in Docs, StopListening(d)
  PROVE  OwnInv'
  <1>1. /\ UNCHANGED <<outcome, history, user, responses, lastRemote, since>>
        /\ targets' = targets \ {d}
    BY DEF StopListening, remote, ghosts
  <1>2. lastRemote \in Nat /\ lastRemote <= lastRemote
    BY DEF CacheInv, CacheTypeOK
  <1>3. CASE targets' # {}
    <2>1. UNCHANGED <<queue, held, cache>>
      BY <1>3 DEF StopListening
    <2>2. ListenersKnow'
      BY <1>1, <2>1, ListenersStay
    <2>3. AnswersLast' /\ RefusedOver'
      BY <1>1, LastStays DEF OwnInv, AnswersLast, RefusedOver, Latest, Whole, Writes
    <2> QED BY <1>1, <2>1, <2>2, <2>3, NothingNew
  <1>4. CASE targets' = {}
    <2>1. ReleaseHeldBatchResults(cache, lastRemote, {})
      BY <1>4 DEF StopListening
    <2>2. PICK n \in 0..Len(held) : Released(n) /\ cache' = WithResults(cache, SubSeq(held, 1, n))
      BY <2>1, ReleasedUpTo
    <2>3. /\ Grown /\ OwnQueue' /\ TakenInOrder' /\ HeldLast' /\ AnswersLast' /\ RefusedOver'
          /\ Landed' = LandedWith(n) /\ Landed' \subseteq Writes
      BY <1>1, <2>2, ReleasedOwn
    <2>4. ShowsAll(cache', Landed')
      <3>1. Behind(cache, Db) /\ ShowsAll(cache, Landed)
        BY CacheBehind DEF OwnInv, CacheShows
      <3>2. ShowsAll(WithResults(cache, SubSeq(held, 1, n)), LandedWith(n))
        BY <3>1, ReleasedShows
      <3> QED BY <3>2, <2>2, <2>3
    <2>5. CacheShows'
      BY <2>3, <2>4, ShowsStays
    <2>6. ListenersKnow'
      BY <1>1, <1>2, <1>4, <2>3, ReleasedKnow
    <2>7. Versions' /\ HistoryFrom' /\ UpdatesOnDocs' /\ TakenAgain' /\ BackendShows' /\ FailedOver'
      BY <2>3, GrownKeeps
    <2> QED BY <2>3, <2>5, <2>6, <2>7 DEF OwnInv
  <1> QED BY <1>3, <1>4

LEMMA WatchSnapshotKeepsOwn ==
  ASSUME ClientInv, ClientInv', CacheInv, OwnInv, NEW v \in 1..Version, WatchSnapshot(v)
  PROVE  OwnInv'
  <1> DEFINE docs == history[v].docs
             current == {d \in targets : v >= since[d]}
             changed == {d \in current : docs[d].version > resume[d]}
             applies(d) == \/ docs[d].kind = "doc"
                           \/ cache[d].kind = "unknown"
                           \/ docs[d].version >= cache[d].version
             x == [d \in Docs |-> IF d \in changed /\ applies(d) THEN docs[d] ELSE cache[d]]
  <1>1. /\ UNCHANGED <<outcome, history, user, responses, since, targets>>
        /\ lastRemote' = v /\ v >= lastRemote /\ ReleaseHeldBatchResults(x, v, targets)
    BY DEF WatchSnapshot, remote, ghosts
  <1>2. /\ docs \in [Docs -> Document] /\ Db \in [Docs -> Document]
        /\ cache \in [Docs -> Document] /\ v \in Nat /\ lastRemote \in Nat
    BY DbType DEF CacheInv, CacheTypeOK
  <1>3. \A d \in changed : d \in targets /\ v >= since[d]
    OBVIOUS
  <1>4. \A d \in Docs : x[d] = (IF d \in changed /\ applies(d) THEN docs[d] ELSE cache[d])
    OBVIOUS
  <1>5. x \in [Docs -> Document]
    BY <1>2
  <1> HIDE DEF x, changed, applies
  <1>6. Behind(x, Db)
    <2>1. \A d \in Docs : /\ docs[d].version <= Db[d].version /\ cache[d].version <= Db[d].version
                          /\ docs[d].kind # "unknown"
      BY DEF CacheInv, HistoryTrue, CacheTrue
    <2>2. \A d \in Docs : Db[d].kind # "unknown"
      <3>1. Version \in 1..Version /\ Db = history[Version].docs
        BY DbType
      <3> QED BY <3>1 DEF CacheInv, HistoryTrue
    <2>3. \A d \in Docs : x[d].version <= Db[d].version
      BY <2>1, <1>4
    <2> QED BY <2>2, <2>3, <1>2, <1>5 DEF Behind
  <1>7. ShowsAll(x, Landed)
    <2>1. ASSUME NEW d \in Docs
          PROVE  /\ \A b \in Landed : outcome[b].doc = d /\ Latest(b) => Shows(b, x[d])
                 /\ x[d].version > 0 /\ (\A b \in Landed : ~TakenAfter(b, x[d].version)) =>
                      x[d] = history[x[d].version].docs[d]
                 /\ From(d, x[d])
      <3>1. CASE ~(d \in changed /\ applies(d))
        <4>1. x[d] = cache[d]
          BY <3>1, <1>4
        <4> QED BY <4>1 DEF OwnInv, CacheShows, ShowsAll
      <3>2. CASE d \in changed /\ applies(d)
        <4>1. x[d] = docs[d]
          BY <3>2, <1>4
        <4>2. \A b \in Landed : ~TakenAfter(b, v)
          <5>1. \A y \in 1..Version : y > v => y > since[d] /\ y > lastRemote
            <6>1. since[d] \in Nat /\ v >= since[d]
              BY <3>2, <1>3 DEF OwnInv, ListenersKnow
            <6> QED BY <6>1, <1>1, <1>2
          <5> QED BY <3>2, <5>1, <1>3 DEF OwnInv, ListenersKnow, TakenAfter
        <4>3. \A b \in Landed : outcome[b].doc = d /\ Latest(b) => Shows(b, docs[d])
          BY <4>2, LandedAnswered DEF OwnInv, BackendShows
        <4>4. docs[d] = history[docs[d].version].docs[d]
          BY DEF OwnInv, Versions
        <4>5. From(d, docs[d])
          BY DEF OwnInv, HistoryFrom
        <4> QED BY <4>1, <4>3, <4>4, <4>5
      <3> QED BY <3>1, <3>2
    <2> QED BY <2>1 DEF ShowsAll
  <1>8. PICK n \in 0..Len(held) :
          /\ Released(n) /\ cache' = WithResults(x, SubSeq(held, 1, n))
          /\ \A i \in 1..n : IsRemoteUpTo(held[i], v, targets)
    BY <1>1, ReleasedUpTo
  <1>9. /\ Grown /\ OwnQueue' /\ TakenInOrder' /\ HeldLast' /\ AnswersLast' /\ RefusedOver'
        /\ Landed' = LandedWith(n) /\ Landed' \subseteq Writes
    BY <1>1, <1>8, ReleasedOwn
  <1>10. ShowsAll(cache', Landed')
    <2>1. ShowsAll(WithResults(x, SubSeq(held, 1, n)), LandedWith(n))
      BY <1>6, <1>7, ReleasedShows
    <2> QED BY <2>1, <1>8, <1>9
  <1>11. CacheShows'
    BY <1>9, <1>10, ShowsStays
  <1>12. ListenersKnow'
    <2>1. \A i \in 1..n : held[i].version <= lastRemote' \/ targets' = {}
      BY <1>1, <1>8 DEF IsRemoteUpTo
    <2> QED BY <2>1, <1>1, <1>2, <1>9, ReleasedKnow
  <1>13. Versions' /\ HistoryFrom' /\ UpdatesOnDocs' /\ TakenAgain' /\ BackendShows' /\ FailedOver'
    BY <1>9, GrownKeeps
  <1> QED BY <1>9, <1>11, <1>12, <1>13 DEF OwnInv

--------------------------------------------------------------------------------
(* A write is settled. *)
SettledAs(b, res) == outcome' = [outcome EXCEPT ![b.w].result = res]

LEMMA OneSettled ==
  ASSUME ClientInv, NEW h, NEW b, First(b, h), NEW res, SettledAs(b, res)
  PROVE  /\ Writes' = Writes /\ b.w \in Writes /\ outcome'[b.w].result = res
         /\ \A x \in Writes : /\ outcome'[x].kind = outcome[x].kind
                              /\ outcome'[x].doc = outcome[x].doc
                              /\ outcome'[x].user = outcome[x].user
                              /\ x # b.w => outcome'[x].result = outcome[x].result
  <1>1. outcome \in Seq(Outcome) /\ b.w \in 1..Len(outcome)
    BY DEF ClientInv, ClientTypeOK, First
  <1>2. \A x \in Writes : outcome[x] \in Outcome
    BY <1>1 DEF Writes
  <1>3. PICK w \in Writes : w = b.w
    BY <1>1 DEF Writes
  <1>4. outcome' = [outcome EXCEPT ![w] = [outcome[w] EXCEPT !.result = res]]
    BY <1>3 DEF SettledAs
  <1>5. Len(outcome') = Len(outcome) /\ \A x \in Writes : x # w => outcome'[x] = outcome[x]
    BY <1>1, <1>4 DEF Writes
  <1>6. outcome'[w] = [outcome[w] EXCEPT !.result = res]
    BY <1>1, <1>4 DEF Writes
  <1>7. /\ outcome'[w].result = res /\ outcome'[w].kind = outcome[w].kind
        /\ outcome'[w].doc = outcome[w].doc /\ outcome'[w].user = outcome[w].user
    BY <1>2, <1>6 DEF Outcome
  <1> QED BY <1>3, <1>5, <1>7 DEF Writes

LEMMA OneResult ==
  ASSUME NEW docs \in [Docs -> Document], NEW r \in Result
  PROVE  WithResults(docs, <<r>>) = ApplyBatchResult(docs, r)
  <1> DEFINE s == <<r>>
  <1>1. s \in Seq(Result) /\ Len(s) = 1 /\ s[1] = r
    OBVIOUS
  <1> HIDE DEF s
  <1>2. PICK h \in [0..1 -> [Docs -> Document]] :
           /\ h[0] = docs /\ WithResults(docs, s) = h[1]
           /\ \A i \in 1..1 : h[i] = ApplyBatchResult(h[i - 1], s[i])
    BY <1>1, ResultsApplied
  <1>3. h[1] = ApplyBatchResult(h[0], s[1])
    <2>1. 1 \in 1..1 /\ 1 - 1 = 0
      OBVIOUS
    <2> QED BY <1>2, <2>1
  <1> QED BY <1>1, <1>2, <1>3 DEF s

LEMMA WriteResponseKeepsOwn ==
  ASSUME ClientInv, ClientInv', CacheInv, OwnInv, WriteResponse
  PROVE  OwnInv'
  <1> DEFINE b == Head(pipeline)
             r == [batch |-> b, version |-> Head(responses).version]
             q == queue[user]
             k == Len(responses) - 1
  <1>1. /\ UNCHANGED <<history, user, lastRemote, targets, since>>
        /\ outcome' = [outcome EXCEPT ![b.w].result = "ok"]
        /\ responses' = Tail(responses) /\ responses # <<>> /\ Head(responses).ok
        /\ AcknowledgeBatch(r)
    BY DEF WriteResponse, ProcessUserCallbacks
  <1>2. First(b, Len(held) + 1) /\ FirstGone
    BY WriteResponseKeeps
  <1>3. /\ responses \in Seq(Response) /\ Len(responses) \in Nat \ {0}
        /\ 1 \in 1..Len(responses) /\ Head(responses) = responses[1]
        /\ Len(responses') = k /\ k \in Nat
        /\ \A i \in 1..k : responses'[i] = responses[i + 1] /\ i + 1 \in 1..Len(responses)
    <2>1. responses \in Seq(Response)
      BY DEF ClientInv, ClientTypeOK
    <2> QED BY <2>1, <1>1
  <1>4. pipeline \in Seq(Batch) /\ Len(pipeline) \in Nat \ {0} /\ b = pipeline[1]
    <2>1. pipeline \in Seq(Batch) /\ Len(pipeline) \in Nat \ {0}
      BY <1>1, FirstIs DEF ClientInv, ClientTypeOK
    <2> QED BY <2>1
  <1>5. responses[1].w = b.w /\ responses[1].ok
    <2>1. responses[1].w = pipeline[1].w
      BY <1>3 DEF ClientInv, AnswersInOrder
    <2> QED BY <2>1, <1>1, <1>3, <1>4
  <1>6. r \in Result /\ r.batch = b
    <2>1. Head(responses).version \in Nat
      BY <1>3, AnswerPlace
    <2> QED BY <2>1, <1>2 DEF First, Result
  <1> HIDE DEF b, k
  <1>7. /\ Writes' = Writes /\ b.w \in Writes /\ outcome'[b.w].result = "ok"
        /\ \A x \in Writes : /\ outcome'[x].kind = outcome[x].kind
                             /\ outcome'[x].doc = outcome[x].doc
                             /\ outcome'[x].user = outcome[x].user
                             /\ x # b.w => outcome'[x].result = outcome[x].result
    <2>1. PICK c : c = b
      OBVIOUS
    <2>2. PICK h, res : h = Len(held) + 1 /\ res = "ok"
      OBVIOUS
    <2>3. First(c, h) /\ SettledAs(c, res)
      BY <2>1, <2>2, <1>1, <1>2 DEF SettledAs
    <2>4. /\ Writes' = Writes /\ c.w \in Writes /\ outcome'[c.w].result = res
          /\ \A x \in Writes : /\ outcome'[x].kind = outcome[x].kind
                               /\ outcome'[x].doc = outcome[x].doc
                               /\ outcome'[x].user = outcome[x].user
                               /\ x # c.w => outcome'[x].result = outcome[x].result
      BY <2>3, OneSettled
    <2> QED BY <2>1, <2>2, <2>4
  <1>8. LastTaken(b.w, r.version)
    <2>1. r.version = responses[1].version
      BY <1>3
    <2> QED BY <2>1, <1>3, <1>5 DEF OwnInv, AnswersLast
  <1>9. Answered(b.w)
    BY <1>3, <1>5 DEF Answered
  <1> HIDE DEF r
  <1>0. PICK w \in Writes : w = b.w
    BY <1>7
  <1>10. Grown
    <2>1. ASSUME NEW x \in Writes, Answered(x)'
          PROVE  Answered(x)
      <3>1. SUFFICES ASSUME x # b.w PROVE Answered(x)
        BY <1>9
      <3>2. CASE outcome'[x].result = "ok"
        BY <3>1, <3>2, <1>7 DEF Answered
      <3>3. CASE \E i \in 1..Len(responses') : responses'[i].ok /\ responses'[i].w = x
        <4>1. PICK i \in 1..k : responses'[i].ok /\ responses'[i].w = x
          BY <3>3, <1>3
        <4> QED BY <4>1, <1>3 DEF Answered
      <3> QED BY <2>1, <3>2, <3>3 DEF Answered
    <2>2. \A x \in Writes : outcome'[x].result = "failed" => outcome[x].result = "failed"
      BY <1>7
    <2>3. \A x \in Writes : outcome[x].result = "failed" => outcome'[x].result = "failed"
      <3>1. outcome[b.w].result = "pending"
        BY <1>2 DEF First
      <3> QED BY <3>1, <1>7
    <2>4. \A x \in Writes : outcome'[x].user = user
      BY <1>7 DEF OwnInv, OwnQueue
    <2> QED BY <2>1, <2>2, <2>3, <2>4, <1>1, <1>7 DEF Grown
  <1>11. AnswersLast'
    <2>1. ASSUME NEW i \in 1..k, responses'[i].ok
          PROVE  LastTaken(responses'[i].w, responses'[i].version)
      BY <2>1, <1>3 DEF OwnInv, AnswersLast
    <2> QED BY <2>1, <1>1, <1>3 DEF AnswersLast, LastTaken, Version
  <1>12. RefusedOver'
    <2>1. \A x \in Writes : Latest(x)' <=> Latest(x)
      BY <1>10, GrownKeeps
    <2>2. ASSUME NEW i \in 1..k, ~responses'[i].ok, InHistory(history, responses'[i].w)
          PROVE  \E x \in Writes : x = responses'[i].w /\ ~Latest(x)'
      <3>1. responses'[i] = responses[i + 1] /\ i + 1 \in 1..Len(responses)
        BY <1>3
      <3>2. responses[i + 1].w \in Writes
        BY <3>1, OwnTypes
      <3> QED BY <2>1, <2>2, <3>1, <3>2 DEF OwnInv, RefusedOver
    <2> QED BY <2>2, <1>1, <1>3 DEF RefusedOver, Latest
  <1>13. Versions' /\ HistoryFrom' /\ UpdatesOnDocs' /\ TakenAgain' /\ BackendShows' /\ FailedOver'
    BY <1>10, GrownKeeps
  <1>14. /\ q \in Seq(Batch) /\ Len(q) \in Nat /\ user \in Users /\ Len(held) \in Nat
         /\ held \in Seq(Result) /\ Len(held) + 1 \in 1..Len(q) /\ q[Len(held) + 1] = b
    BY <1>2, View DEF ClientInv, ClientTypeOK, First
  <1>15. CASE held # <<>> \/ ~IsRemoteUpTo(r, lastRemote, targets)
    <2>1. held' = Append(held, r) /\ cache' = cache /\ queue' = queue
      BY <1>15, <1>1 DEF AcknowledgeBatch
    <2>2. Waiting(b.w) /\ \A x : Waiting(x)' <=> Waiting(x)
      BY <2>1, <1>1, <1>14 DEF Waiting
    <2>3. Landed' = Landed
      BY <2>2, <1>7 DEF Landed
    <2>4. OwnQueue' /\ TakenInOrder'
      BY <2>1, <2>3, <1>10, OrderKept
    <2>5. CacheShows'
      BY <2>1, <2>3, <1>10, CacheShowsStays
    <2>6. ListenersKnow'
      BY <2>3, <1>1 DEF OwnInv, ListenersKnow, Version
    <2>7. HeldLast'
      <3>1. \A i \in 1..Len(held') :
              (i \in 1..Len(held) /\ held'[i] = held[i]) \/ held'[i] = r
        BY <2>1, <1>6, <1>14
      <3>2. \A i \in 1..Len(held') : LastTaken(held'[i].batch.w, held'[i].version)
        BY <3>1, <1>6, <1>8 DEF OwnInv, HeldLast
      <3> QED BY <3>2, <1>1 DEF HeldLast, LastTaken, Version
    <2> QED BY <2>4, <2>5, <2>6, <2>7, <1>11, <1>12, <1>13 DEF OwnInv
  <1>16. CASE ~(held # <<>> \/ ~IsRemoteUpTo(r, lastRemote, targets))
    <2>1. held' = held /\ held = <<>> /\ cache' = WithResults(cache, <<r>>)
      BY <1>16, <1>1 DEF AcknowledgeBatch, ReleaseBatchResults
    <2>2. Len(held) = 0 /\ Len(held') = 0
      BY <2>1
    <2>3. /\ q[1] = b /\ 1 \in 1..Len(q) /\ Len(queue'[user]) = Len(q) - 1
          /\ \A i \in 1..(Len(q) - 1) : queue'[user][i] = q[i + 1] /\ i + 1 \in 1..Len(q)
      <3>1. Len(queue'[user]) \in Int
        BY <1>1, <1>14 DEF ClientInv, ClientTypeOK
      <3>2. Len(queue'[user]) = Len(q) - 1
        BY <3>1, <2>2, <1>2, <1>14 DEF FirstGone
      <3>3. ASSUME NEW i \in 1..(Len(q) - 1)
            PROVE  queue'[user][i] = q[i + 1]
        <4>1. i \in 1..(Len(queue'[user]) - Len(held')) /\ Len(held') + i = i
              /\ Len(held) + 1 + i = i + 1
          BY <3>2, <2>2, <1>14
        <4> QED BY <4>1, <1>2 DEF FirstGone
      <3> QED BY <3>2, <3>3, <2>2, <1>14
    <2>4. /\ \A i, j \in 1..Len(q) : i < j => q[i].w < q[j].w
          /\ \A i \in 1..Len(q) : q[i].w \in Writes
          /\ \A x \in Writes : x \in Nat
      BY OwnTypes DEF Writes
    <2>5. \A i \in 1..Len(queue'[user]) : b.w < queue'[user][i].w
      <3>1. \A i \in 1..(Len(q) - 1) : 1 < i + 1
        BY <1>14
      <3> QED BY <3>1, <2>3, <2>4
    <2>6. ~Waiting(w)'
      <3>1. \A i \in 1..Len(queue'[user]) : queue'[user][i].w # w
        BY <2>4, <2>5, <1>0
      <3> QED BY <3>1, <1>1 DEF Waiting
    <2>7. ASSUME NEW x \in Writes
          PROVE  /\ Waiting(x)' => Waiting(x)
                 /\ Waiting(x) /\ x # w => Waiting(x)'
      <3>1. ASSUME NEW i \in 1..Len(queue'[user]), queue'[user][i].w = x
            PROVE  Waiting(x)
        BY <2>3, <3>1 DEF Waiting
      <3>2. ASSUME NEW i \in 1..Len(q), q[i].w = x, x # w
            PROVE  \E j \in 1..Len(queue'[user]) : queue'[user][j].w = x
        <4>1. i # 1
          BY <2>3, <3>2, <1>0
        <4>2. i - 1 \in 1..(Len(q) - 1) /\ (i - 1) + 1 = i
          BY <4>1, <1>14
        <4> QED BY <4>2, <3>2, <2>3
      <3> QED BY <3>1, <3>2, <1>1 DEF Waiting
    <2>8. Landed' = Landed \cup {b.w}
      <3>1. outcome[b.w].result = "pending"
        BY <1>2 DEF First
      <3>2. \A x \in Writes : x \in Landed' <=> outcome'[x].result = "ok" /\ ~Waiting(x)'
        BY <1>7 DEF Landed
      <3> QED BY <3>1, <3>2, <2>6, <2>7, <1>7, <1>0 DEF Landed
    <2>9. Landed' \subseteq Writes
      BY <2>8, <1>7 DEF Landed
    <2>10. OwnQueue' /\ TakenInOrder'
      <3>1. \A i \in 1..Len(queue'[user]) : \E j \in 1..Len(queue[user]) :
              queue'[user][i] = queue[user][j]
        BY <2>3
      <3>2. \A x \in Landed' : x \in Landed \/ \A i \in 1..Len(queue'[user]) : x < queue'[user][i].w
        BY <2>5, <2>8
      <3> QED BY <3>1, <3>2, <1>10, OrderKept
    <2>11. cache \in [Docs -> Document] /\ Behind(cache, Db) /\ \A d \in Docs : Db[d].version <= Version
      BY CacheBehind DEF CacheInv, CacheTypeOK, HistoryTrue
    <2>12. cache' = ApplyBatchResult(cache, r)
      BY <2>1, <2>11, <1>6, OneResult
    <2>13. ShowsAll(cache', Landed')
      <3>1. Landed \subseteq Writes /\ \A x \in Landed : x < r.batch.w
        BY <2>3, <1>6 DEF OwnInv, OwnQueue, Landed
      <3>2. outcome[r.batch.w].kind = r.batch.kind /\ outcome[r.batch.w].doc = r.batch.doc
        BY <2>3, <1>6, OwnTypes DEF OwnInv, OwnQueue
      <3>3. ShowsAll(cache, Landed)
        BY DEF OwnInv, CacheShows
      <3>4. ShowsAll(ApplyBatchResult(cache, r), Landed \cup {r.batch.w})
        BY <3>1, <3>2, <3>3, <2>11, <1>6, <1>7, <1>8, <1>9, AppliedShows
      <3> QED BY <3>4, <2>8, <2>12, <1>6
    <2>14. CacheShows'
      BY <2>9, <2>13, <1>10, ShowsStays
    <2>15. HeldLast'
      BY <2>2 DEF HeldLast
    <2>16. ListenersKnow'
      <3>1. ASSUME NEW d \in targets, NEW y \in 1..Version, y > since[d], y > lastRemote
            PROVE  history[y].w \notin Landed \cup {b.w}
        <4>1. r.version <= lastRemote
          BY <3>1, <1>16 DEF IsRemoteUpTo
        <4>2. r.version \in Nat /\ lastRemote \in Nat /\ Version \in Nat
          BY <1>6, ResultTypes, DbType DEF CacheInv, CacheTypeOK
        <4>3. y > r.version
          BY <3>1, <4>1, <4>2
        <4>4. history[y].w > b.w
          BY <4>3, <1>8 DEF LastTaken
        <4>5. history[y].w # b.w
          BY <4>4, <2>4, <1>7
        <4> QED BY <3>1, <4>5 DEF OwnInv, ListenersKnow
      <3> QED BY <3>1, <2>8, <1>1 DEF OwnInv, ListenersKnow, Version
    <2> QED BY <2>10, <2>14, <2>15, <2>16, <1>11, <1>12, <1>13 DEF OwnInv
  <1> QED BY <1>15, <1>16

(* A write is refused: it leaves the queue. *)
LEMMA WriteErrorKeepsOwn ==
  ASSUME ClientInv, ClientInv', OwnInv, WriteError
  PROVE  OwnInv'
  <1> DEFINE b == Head(pipeline)
             q == queue[user]
             h == Len(held) + 1
  <1>1. /\ UNCHANGED <<history, user, cache, held, lastRemote, targets, since>>
        /\ outcome' = [outcome EXCEPT ![b.w].result = "failed"]
        /\ responses' = <<>> /\ responses # <<>> /\ ~Head(responses).ok /\ RejectBatch(b)
    BY DEF WriteError, ProcessUserCallbacks
  <1>2. First(b, h)
    BY WriteErrorKeeps
  <1>3. responses[1].w = b.w /\ ~responses[1].ok /\ 1 \in 1..Len(responses)
    <2>1. responses \in Seq(Response) /\ pipeline \in Seq(Batch) /\ Len(pipeline) \in Nat \ {0}
      BY <1>1, FirstIs DEF ClientInv, ClientTypeOK
    <2>2. /\ 1 \in 1..Len(responses) /\ Head(responses) = responses[1]
          /\ Head(pipeline) = pipeline[1]
      BY <2>1, <1>1
    <2> QED BY <2>2, <1>1 DEF ClientInv, AnswersInOrder
  <1>4. /\ q \in Seq(Batch) /\ Len(q) \in Nat /\ user \in Users /\ Len(held) \in Nat
        /\ h \in 1..Len(q) /\ q[h] = b /\ queue \in [Users -> Seq(Batch)] /\ b \in Batch
        /\ h \in Nat
    <2>1. /\ q \in Seq(Batch) /\ Len(q) \in Nat /\ user \in Users /\ Len(held) \in Nat
          /\ queue \in [Users -> Seq(Batch)]
      BY View DEF ClientInv, ClientTypeOK
    <2>2. h \in 1..Len(q) /\ q[h] = b /\ b \in Batch
      BY <1>2 DEF First
    <2> QED BY <2>1, <2>2
  <1> HIDE DEF b, h
  <1>5. PICK w \in Writes : w = b.w
    BY <1>2 DEF First, Writes
  <1>6. /\ Writes' = Writes /\ outcome'[w].result = "failed" /\ outcome[w].result = "pending"
        /\ \A x \in Writes : /\ outcome'[x].kind = outcome[x].kind
                             /\ outcome'[x].doc = outcome[x].doc
                             /\ outcome'[x].user = outcome[x].user
                             /\ x # w => outcome'[x].result = outcome[x].result
    <2>1. PICK c, k, res : c = b /\ k = h /\ res = "failed"
      OBVIOUS
    <2>2. First(c, k) /\ SettledAs(c, res)
      BY <2>1, <1>1, <1>2 DEF SettledAs
    <2>3. /\ Writes' = Writes /\ outcome'[c.w].result = res
          /\ \A x \in Writes : /\ outcome'[x].kind = outcome[x].kind
                               /\ outcome'[x].doc = outcome[x].doc
                               /\ outcome'[x].user = outcome[x].user
                               /\ x # c.w => outcome'[x].result = outcome[x].result
      BY <2>2, OneSettled
    <2>4. outcome[w].result = "pending"
      BY <1>2, <1>5 DEF First
    <2> QED BY <2>1, <2>3, <2>4, <1>5
  <1>7. /\ \A i, j \in 1..Len(q) : i < j => q[i].w < q[j].w
        /\ \A i \in 1..Len(q) : q[i].w \in Writes
        /\ \A x \in Writes : x \in Nat
    BY OwnTypes DEF Writes
  <1> DEFINE x == Without(q, {b.id})
  <1>8. queue' = [queue EXCEPT ![user] = x]
    BY <1>1 DEF RejectBatch
  <1>9. Cuts(q, {b.id}, Len(held), 1)
    <2>1. ASSUME NEW i \in 1..Len(q)
          PROVE  q[i].id \in {b.id} <=> i > Len(held) /\ i <= Len(held) + 1
      <3>1. q[i].id \in Nat /\ b.id \in Nat
        BY <1>4, BatchTypes
      <3>2. (i < h => q[i].id < b.id) /\ (i > h => q[i].id > b.id)
        BY <1>2 DEF First
      <3>3. i < h \/ i > h \/ i = h
        BY <1>4
      <3>4. i > Len(held) /\ i <= Len(held) + 1 <=> i = h
        BY <1>4 DEF h
      <3>5. q[i].id = b.id <=> i = h
        <4>1. i < h => q[i].id # b.id
          BY <3>1, <3>2
        <4>2. i > h => q[i].id # b.id
          BY <3>1, <3>2
        <4> QED BY <4>1, <4>2, <3>3, <1>4
      <3> QED BY <3>4, <3>5
    <2> QED BY <2>1, <1>4 DEF Cuts, h
  <1>10. CutOf(x, q, Len(held), 1)
    <2> DEFINE f == Len(held)
               ids == {b.id}
    <2>1. f \in Nat /\ 1 \in Nat /\ Cuts(q, ids, f, 1)
      BY <1>4, <1>9
    <2> HIDE DEF f, ids
    <2>2. CutOf(Without(q, ids), q, f, 1)
      BY <2>1, <1>4, WithoutIs
    <2> QED BY <2>2 DEF f, ids
  <1> HIDE DEF x
  <1>11. /\ x \in Seq(Batch) /\ Len(x) = Len(q) - 1
         /\ \A i \in 1..Len(x) : /\ i \in 1..Len(q) /\ i + 1 \in 1..Len(q)
                                 /\ i <= Len(held) => x[i] = q[i]
                                 /\ i > Len(held) => x[i] = q[i + 1]
    BY <1>4, <1>10 DEF CutOf
  <1>12. queue'[user] = x
    BY <1>4, <1>8, <1>11
  <1>13. ASSUME NEW i \in 1..Len(x)
         PROVE  \E j \in 1..Len(q) : x[i] = q[j] /\ j # h
    <2>1. i <= Len(held) \/ i > Len(held)
      BY <1>4, <1>11
    <2>2. CASE i <= Len(held)
      BY <2>2, <1>4, <1>11 DEF h
    <2>3. CASE i > Len(held)
      <3>1. i + 1 # h
        BY <2>3, <1>4 DEF h
      <3> QED BY <3>1, <2>3, <1>11
    <2> QED BY <2>1, <2>2, <2>3
  <1>14. ASSUME NEW j \in 1..Len(q), j # h
         PROVE  \E i \in 1..Len(x) : x[i] = q[j]
    <2>1. CASE j <= Len(held)
      <3>1. j \in 1..Len(x)
        BY <2>1, <1>4, <1>11 DEF h
      <3> QED BY <3>1, <2>1, <1>11
    <2>2. CASE j > Len(held)
      <3>1. j - 1 \in 1..Len(x) /\ j - 1 > Len(held) /\ (j - 1) + 1 = j
        BY <2>2, <1>4, <1>11, <1>14 DEF h
      <3> QED BY <3>1, <1>11
    <2> QED BY <2>1, <2>2, <1>4
  <1>15. \A y \in Writes : y # w => (Waiting(y)' <=> Waiting(y))
    <2>1. ASSUME NEW y \in Writes, y # w
          PROVE  (\E i \in 1..Len(x) : x[i].w = y) <=> (\E j \in 1..Len(q) : q[j].w = y)
      <3>1. ASSUME NEW i \in 1..Len(x), x[i].w = y
            PROVE  \E j \in 1..Len(q) : q[j].w = y
        BY <3>1, <1>13
      <3>2. ASSUME NEW j \in 1..Len(q), q[j].w = y
            PROVE  \E i \in 1..Len(x) : x[i].w = y
        <4>1. j # h
          BY <3>2, <2>1, <1>4, <1>5
        <4> QED BY <4>1, <3>2, <1>14
      <3> QED BY <3>1, <3>2
    <2> QED BY <2>1, <1>1, <1>12 DEF Waiting
  <1>16. Landed' = Landed
    BY <1>6, <1>15 DEF Landed
  <1>17. 1..Len(responses') = {}
    <2>1. Len(<<>>) = 0 /\ 1..0 = {}
      OBVIOUS
    <2> QED BY <2>1, <1>1
  <1>18. Grown
    <2>1. ASSUME NEW y \in Writes, Answered(y)'
          PROVE  Answered(y)
      <3>1. outcome'[y].result = "ok"
        BY <2>1, <1>17 DEF Answered
      <3> QED BY <3>1, <1>6 DEF Answered
    <2>2. ASSUME NEW y \in Writes, outcome'[y].result = "failed", InHistory(history, y)
          PROVE  outcome[y].result = "failed" \/ ~Latest(y)
      <3>1. CASE y = w
        <4>1. responses[1].w = y
          BY <3>1, <1>3, <1>5
        <4> QED BY <4>1, <2>2, <1>3 DEF OwnInv, RefusedOver
      <3>2. CASE y # w
        BY <3>2, <2>2, <1>6
      <3> QED BY <3>1, <3>2
    <2>3. \A y \in Writes : outcome[y].result = "failed" => outcome'[y].result = "failed"
      BY <1>6
    <2>4. \A y \in Writes : outcome'[y].user = user
      BY <1>6 DEF OwnInv, OwnQueue
    <2> QED BY <2>1, <2>2, <2>3, <2>4, <1>1, <1>6 DEF Grown
  <1>19. OwnQueue' /\ TakenInOrder'
    <2>1. \A i \in 1..Len(queue'[user]) : \E j \in 1..Len(queue[user]) :
            queue'[user][i] = queue[user][j]
      BY <1>12, <1>13
    <2> QED BY <2>1, <1>16, <1>18, OrderKept
  <1>20. CacheShows'
    BY <1>1, <1>16, <1>18, CacheShowsStays
  <1>21. HeldLast'
    BY <1>1, LastStays DEF OwnInv, HeldLast
  <1>22. AnswersLast' /\ RefusedOver'
    BY <1>17 DEF AnswersLast, RefusedOver
  <1>23. ListenersKnow'
    BY <1>1, <1>16 DEF OwnInv, ListenersKnow, Version
  <1>24. Versions' /\ HistoryFrom' /\ UpdatesOnDocs' /\ TakenAgain' /\ BackendShows' /\ FailedOver'
    BY <1>18, GrownKeeps
  <1> QED BY <1>19, <1>20, <1>21, <1>22, <1>23, <1>24 DEF OwnInv

LEMMA NextKeepsOwn ==
  ClientInv /\ ClientInv' /\ CacheInv /\ (calm => OwnInv) /\ [Next]_vars => (calm => OwnInv)'
  <1> SUFFICES ASSUME ClientInv, ClientInv', CacheInv, calm => OwnInv, [Next]_vars, calm'
               PROVE  OwnInv'
    OBVIOUS
  <1>1. budget.docs \subseteq Docs /\ {"set", "update", "delete"} \subseteq Kinds
    BY DocsOfBudget DEF Kinds
  <1>2. CASE Restart \/ \E u \in Users : CredentialDidChange(u)
    BY <1>2 DEF Restart, CredentialDidChange
  <1>3. CASE \E kind \in {"set", "delete"}, d \in budget.docs : OtherWrites(kind, d)
    BY <1>3 DEF OtherWrites
  <1>4. CASE App
    <2>1. PICK d \in budget.docs :
            \/ \E kind \in {"set", "update", "delete"}, allowed \in BOOLEAN :
                 Write(kind, d, allowed)
            \/ Listen(d)
            \/ StopListening(d)
      BY <1>4 DEF App
    <2>2. calm' = calm
      BY <2>1 DEF Write, Listen, StopListening, ghosts
    <2> QED BY <2>1, <2>2, <1>1, WriteKeepsOwn, ListenKeepsOwn, StopListeningKeepsOwn
  <1>5. CASE WriteResponse
    <2>1. calm' = calm
      BY <1>5 DEF WriteResponse
    <2> QED BY <2>1, <1>5, WriteResponseKeepsOwn
  <1>6. CASE WriteError
    <2>1. calm' = calm
      BY <1>6 DEF WriteError
    <2> QED BY <2>1, <1>6, WriteErrorKeepsOwn
  <1>7. CASE \/ StreamOpens \/ HandshakeCompletes \/ IdleCloses \/ StreamBreaks
             \/ UNCHANGED vars
    <2>1. calm' = calm
      BY <1>7 DEF StreamOpens, HandshakeCompletes, IdleCloses, StreamBreaks, vars, ghosts
    <2> QED BY <2>1, <1>7, StreamKeepsOwn
  <1>8. CASE ServerTakes
    <2>1. calm' = calm
      BY <1>8 DEF ServerTakes, ghosts
    <2> QED BY <2>1, <1>8, ServerTakesKeepsOwn
  <1>9. CASE ServerRefuses
    <2>1. calm' = calm
      BY <1>9 DEF ServerRefuses, ghosts
    <2> QED BY <2>1, <1>9, ServerRefusesKeepsOwn
  <1>10. CASE \E v \in 1..Version : WatchSnapshot(v)
    <2>1. calm' = calm
      BY <1>10 DEF WatchSnapshot, ghosts
    <2> QED BY <2>1, <1>10, WatchSnapshotKeepsOwn
  <1> QED BY <1>2, <1>3, <1>4, <1>5, <1>6, <1>7, <1>8, <1>9, <1>10 DEF Next, Client, Backend

--------------------------------------------------------------------------------
(* The document shown is made from the cached one by the queue.               *)
LEMMA LocalIs ==
  ASSUME NEW d, cache[d] \in Document, NEW q \in Seq(Batch), q = queue[user]
  PROVE  \E h \in [0..Len(q) -> Document] :
           /\ h[0] = cache[d] /\ LocalDocument(d) = h[Len(q)]
           /\ \A n \in 1..Len(q) :
                h[n] = IF q[n].doc = d THEN ApplyMutation(h[n - 1], q[n]) ELSE h[n - 1]
  <1> DEFINE N == Len(q)
             Eq(f) == f = [n \in 0..N |->
               IF n = 0 THEN cache[d]
               ELSE IF q[n].doc = d THEN ApplyMutation(f[n - 1], q[n]) ELSE f[n - 1]]
             h == CHOOSE f : Eq(f)
             T == {n \in Nat : n <= N => h[n] \in Document}
             step == [m \in 1..N |-> [y \in Document |->
                        IF q[m].doc = d THEN ApplyMutation(y, q[m]) ELSE y]]
  <1>1. /\ N \in Nat /\ 0 \in 0..N
        /\ \A m \in 1..N : q[m] \in Batch /\ q[m].w \in Nat /\ q[m].kind \in Kinds
    BY BatchTypes
  <1>2. \A m \in 1..N : \A y \in Document :
          step[m][y] = IF q[m].doc = d THEN ApplyMutation(y, q[m]) ELSE y
    OBVIOUS
  <1>3. \A m \in 1..N : \A y \in Document : step[m][y] \in Document
    BY <1>1, <1>2, MutationType
  <1> HIDE DEF step
  <1>4. \E g : Folded(g, Document, cache[d], N, step)
    <2> HIDE DEF N
    <2> QED BY <1>1, <1>3, FoldExists
  <1>5. PICK g : Folded(g, Document, cache[d], N, step)
    BY <1>4
  <1>6. Eq(g)
    <2>1. ASSUME NEW n \in 0..N
          PROVE  g[n] = IF n = 0 THEN cache[d]
                        ELSE IF q[n].doc = d THEN ApplyMutation(g[n - 1], q[n]) ELSE g[n - 1]
      <3>1. CASE n = 0
        BY <3>1, <1>5 DEF Folded
      <3>2. CASE n # 0
        <4>1. n \in 1..N /\ n - 1 \in 0..N
          BY <3>2, <1>1
        <4>2. g[n - 1] \in Document /\ g[n] = step[n][g[n - 1]]
          BY <4>1, <1>5 DEF Folded
        <4> QED BY <3>2, <4>1, <4>2, <1>2
      <3> QED BY <3>1, <3>2
    <2> QED BY <2>1, <1>5 DEF Folded
  <1>7. Eq(h)
    BY <1>6
  <1>8. LocalDocument(d) = h[N]
    BY DEF LocalDocument
  <1>9. /\ \A n \in 0..N : h[n] = IF n = 0 THEN cache[d]
              ELSE IF q[n].doc = d THEN ApplyMutation(h[n - 1], q[n]) ELSE h[n - 1]
        /\ h = [n \in 0..N |-> h[n]]
    BY <1>7
  <1> HIDE DEF h, Eq, N
  <1>10. h[0] = cache[d]
    BY <1>1, <1>9
  <1>11. \A n \in 1..N : n \in 0..N /\ n # 0 /\ n - 1 \in Nat
    BY <1>1
  <1>12. \A n \in 1..N : h[n] = IF q[n].doc = d THEN ApplyMutation(h[n - 1], q[n]) ELSE h[n - 1]
    BY <1>9, <1>11
  <1>13. 0 \in T
    BY <1>10
  <1>14. ASSUME NEW n \in Nat, n \in T
         PROVE  n + 1 \in T
    <2>1. SUFFICES ASSUME n + 1 <= N PROVE h[n + 1] \in Document
      OBVIOUS
    <2>2. n + 1 \in 1..N /\ (n + 1) - 1 = n /\ h[n] \in Document
      BY <1>14, <2>1, <1>1
    <2>3. h[n + 1] = IF q[n + 1].doc = d THEN ApplyMutation(h[n], q[n + 1]) ELSE h[n]
      BY <2>2, <1>12
    <2> QED BY <2>2, <2>3, <1>1, MutationType
  <1> HIDE DEF T
  <1>15. \A n \in Nat : n \in T
    BY <1>13, <1>14, SetInduction
  <1>16. \A n \in 0..N : h[n] \in Document
    BY <1>1, <1>15 DEF T
  <1>17. h \in [0..N -> Document]
    BY <1>9, <1>16
  <1> QED BY <1>8, <1>10, <1>12, <1>17 DEF N

(* A write that was not refused and that no later whole write replaced. *)
LEMMA OwnWriteIs ==
  ASSUME ClientInv, NEW d, NEW b \in OwnWrites(d)
  PROVE  /\ b \in Writes /\ outcome[b].doc = d /\ outcome[b].result # "failed" /\ Latest(b)
         /\ \A x \in Writes :
              outcome[x].doc = d /\ outcome[x].result # "failed" /\ Whole(x) => x <= b
         /\ \A x \in Writes :
              outcome[x].doc = d /\ outcome[x].result # "failed" /\ x > b => x \in OwnWrites(d)
  <1>1. /\ b \in Writes /\ outcome[b].doc = d /\ outcome[b].result # "failed"
        /\ \A x \in Writes : outcome[x].doc = d /\ outcome[x].result # "failed" /\ Whole(x) =>
             x <= b
    BY DEF OwnWrites, Writes, Whole
  <1>2. \A x \in Writes : x \in Nat
    BY DEF Writes
  <1>3. Latest(b)
    <2>1. ASSUME NEW x \in Writes, x > b, outcome[x].doc = d, Whole(x), InHistory(history, x)
          PROVE  FALSE
      <3>1. outcome[x].result # "failed"
        BY <2>1, AnsweredTaken
      <3>2. x <= b
        BY <2>1, <3>1, <1>1
      <3> QED BY <2>1, <3>2, <1>1, <1>2
    <2> QED BY <2>1, <1>1 DEF Latest
  <1>4. ASSUME NEW x \in Writes, outcome[x].doc = d, outcome[x].result # "failed", x > b
        PROVE  x \in OwnWrites(d)
    <2>1. ASSUME NEW y \in Writes, outcome[y].doc = d, outcome[y].result # "failed", Whole(y)
          PROVE  y <= x
      <3>1. y <= b
        BY <2>1, <1>1
      <3> QED BY <3>1, <1>1, <1>2, <1>4
    <2> QED BY <2>1, <1>4 DEF OwnWrites, Writes, Whole
  <1> QED BY <1>1, <1>3, <1>4

LEMMA LocalShows ==
  ASSUME ClientInv, CacheInv, OwnInv, NEW d \in Docs
  PROVE  \E doc \in Document :
           /\ LocalDocument(d) = doc
           /\ \A b \in OwnWrites(d) : Shows(b, doc)
           /\ doc.kind = "doc" =>
                doc.f = 0 \/ /\ doc.f \in Writes /\ outcome[doc.f].doc = d
                             /\ InHistory(history, doc.f) \/ outcome[doc.f].result # "failed"
  <1>1. /\ cache[d] \in Document /\ queue[user] \in Seq(Batch) /\ user \in Users
        /\ Len(queue[user]) \in Nat
    BY View DEF CacheInv, CacheTypeOK, ClientInv, ClientTypeOK
  <1>2. PICK q \in Seq(Batch) : q = queue[user]
    BY <1>1
  <1> DEFINE N == Len(q)
  <1>3. PICK h \in [0..N -> Document] :
          /\ h[0] = cache[d] /\ LocalDocument(d) = h[N]
          /\ \A n \in 1..N :
               h[n] = IF q[n].doc = d THEN ApplyMutation(h[n - 1], q[n]) ELSE h[n - 1]
    BY <1>1, <1>2, LocalIs
  <1>4. N \in Nat
    BY <1>1, <1>2
  <1> HIDE DEF N
  <1>5. /\ \A i \in 1..N : /\ q[i].w \in Writes /\ q[i].w \in Nat /\ q[i].kind \in Kinds
                           /\ outcome[q[i].w].kind = q[i].kind
                           /\ outcome[q[i].w].doc = q[i].doc
                           /\ outcome[q[i].w].result # "failed"
        /\ \A i, j \in 1..N : i < j => q[i].w < q[j].w
        /\ \A b \in Landed : \A i \in 1..N : b < q[i].w
    <2>1. \A i \in 1..N : q[i].w \in Nat /\ q[i].kind \in Kinds
      BY BatchTypes DEF N
    <2> QED BY <2>1, <1>2, OwnTypes DEF N, OwnInv, OwnQueue
  <1> DEFINE Known(n, doc) ==
               /\ \A b \in OwnWrites(d) : b \in Landed \/ (\E i \in 1..n : q[i].w = b) =>
                    Shows(b, doc)
               /\ doc.kind = "doc" =>
                    doc.f = 0 \/ /\ doc.f \in Writes /\ outcome[doc.f].doc = d
                                 /\ InHistory(history, doc.f) \/ outcome[doc.f].result # "failed"
             T == {n \in Nat : n <= N => Known(n, h[n])}
  <1>6. 0 \in T
    <2>1. \A b \in OwnWrites(d) : b \in Landed => Shows(b, cache[d])
      BY OwnWriteIs DEF OwnInv, CacheShows, ShowsAll
    <2>2. From(d, cache[d])
      BY DEF OwnInv, CacheShows, ShowsAll
    <2>3. 1..0 = {}
      OBVIOUS
    <2> QED BY <2>1, <2>2, <2>3, <1>3 DEF From
  <1>7. ASSUME NEW n \in Nat, n \in T
        PROVE  n + 1 \in T
    <2>1. SUFFICES ASSUME n + 1 <= N PROVE Known(n + 1, h[n + 1])
      OBVIOUS
    <2>2. /\ n + 1 \in 1..N /\ n \in 0..N /\ (n + 1) - 1 = n
          /\ \A i \in 1..(n + 1) : i \in 1..n \/ i = n + 1
          /\ \A i \in 1..n : i \in 1..N /\ i < n + 1
      BY <2>1, <1>4
    <2>3. Known(n, h[n])
      BY <1>4, <1>7, <2>1
    <2> DEFINE m == q[n + 1]
    <2>4. /\ m.w \in Writes /\ m.w \in Nat /\ m.kind \in Kinds /\ outcome[m.w].kind = m.kind
          /\ outcome[m.w].doc = m.doc /\ outcome[m.w].result # "failed"
      BY <2>2, <1>5
    <2>5. h[n + 1] = IF m.doc = d THEN ApplyMutation(h[n], m) ELSE h[n]
      BY <2>2, <1>3
    <2>6. ASSUME NEW b \in OwnWrites(d), b \in Landed \/ \E i \in 1..(n + 1) : q[i].w = b
          PROVE  b = m.w \/ /\ b \in Landed \/ \E i \in 1..n : q[i].w = b
                            /\ b < m.w
      BY <2>2, <2>6, <1>5
    <2> HIDE DEF m
    <2>7. CASE m.doc # d
      <3>1. h[n + 1] = h[n]
        BY <2>5, <2>7
      <3>2. \A b \in OwnWrites(d) : b # m.w
        BY <2>4, <2>7, OwnWriteIs
      <3> QED BY <3>1, <3>2, <2>3, <2>6
    <2>8. CASE m.doc = d
      <3>1. h[n] \in Document
        BY <2>2, <1>3
      <3>2. PICK old \in Document : old = h[n]
        BY <3>1
      <3>3. PICK new : new = h[n + 1]
        OBVIOUS
      <3>4. new = ApplyMutation(old, m)
        BY <2>5, <2>8, <3>2, <3>3
      <3>5. /\ Shows(m.w, new)
            /\ \A b \in Writes : b < m.w /\ m.kind = "update" /\ Shows(b, old) => Shows(b, new)
            /\ new.kind = "doc" => new.f = m.w
        BY <3>4, <2>4, MutationShows
      <3>6. ASSUME NEW b \in OwnWrites(d), b \in Landed \/ \E i \in 1..n : q[i].w = b, b < m.w
            PROVE  Shows(b, new)
        <4>1. b \in Writes /\ \A x \in Writes :
                outcome[x].doc = d /\ outcome[x].result # "failed" /\ Whole(x) => x <= b
          BY OwnWriteIs
        <4>2. ~Whole(m.w)
          <5>1. ~(m.w <= b)
            BY <3>6, <4>1, <2>4 DEF Writes
          <5> QED BY <5>1, <4>1, <2>4, <2>8
        <4>3. m.kind = "update"
          BY <4>2, <2>4 DEF Whole
        <4>4. Shows(b, old)
          BY <3>2, <3>6, <2>3
        <4> QED BY <4>1, <4>3, <4>4, <3>5, <3>6
      <3> QED BY <3>3, <3>5, <3>6, <2>4, <2>6, <2>8
    <2> QED BY <2>7, <2>8
  <1> HIDE DEF T
  <1>8. \A n \in Nat : n \in T
    BY <1>6, <1>7, SetInduction
  <1>9. Known(N, h[N]) /\ h[N] \in Document
    BY <1>3, <1>4, <1>8 DEF T
  <1>10. ASSUME NEW b \in OwnWrites(d)
         PROVE  b \in Landed \/ \E i \in 1..N : q[i].w = b
    <2>1. b \in Writes /\ outcome[b].result # "failed" /\ outcome[b].user = user
      BY OwnWriteIs DEF OwnInv, OwnQueue
    <2>2. outcome[b].result \in {"pending", "ok"}
      BY <2>1, OwnTypes
    <2>3. outcome[b].result = "pending" => \E i \in 1..N : q[i].w = b
      BY <2>1, <1>2 DEF ClientInv, QueuesPending, Writes, N
    <2>4. Waiting(b) => \E i \in 1..N : q[i].w = b
      BY <1>2 DEF Waiting, N
    <2> QED BY <2>1, <2>2, <2>3, <2>4 DEF Landed
  <1> QED BY <1>3, <1>9, <1>10

LEMMA LeastExists ==
  ASSUME NEW M, M \subseteq Nat, M # {}
  PROVE  Min(M) \in M /\ \A x \in M : Min(M) <= x
  <1>1. IsWellFoundedOn(OpToRel(<, Nat), Nat)
    BY NatLessThanWellFounded
  <1>2. \E x \in M : \A y \in M : ~ (<<y, x>> \in OpToRel(<, Nat))
    BY <1>1, WFMin
  <1>3. PICK x \in M : \A y \in M : ~ (y < x)
    BY <1>2 DEF OpToRel
  <1> DEFINE P(z) == z \in M /\ \A y \in M : z <= y
  <1>4. P(x)
    BY <1>3
  <1>5. Min(M) = CHOOSE z : P(z)
    BY DEF Min
  <1>6. P(Min(M))
    BY <1>4, <1>5
  <1> QED BY <1>6

LEMMA OwnFromInv == ClientInv /\ CacheInv /\ (calm => OwnInv) => OwnWritesShown
  <1> SUFFICES ASSUME ClientInv, CacheInv, OwnInv, NEW d \in Docs, OwnWrites(d) # {},
                      NEW w, w = Min(OwnWrites(d))
               PROVE  CASE outcome[w].kind = "delete" -> LocalDocument(d).kind = "deleted"
                        [] outcome[w].kind = "set" -> /\ LocalDocument(d).kind = "doc"
                                                      /\ LocalDocument(d).g = w
                                                      /\ LocalDocument(d).f = Max(OwnWrites(d))
                        [] OTHER -> LocalDocument(d).kind = "doc" =>
                                      LocalDocument(d).f = Max(OwnWrites(d))
    BY DEF OwnWritesShown
  <1> DEFINE M == OwnWrites(d)
  <1>1. /\ \A b \in M : b \in Nat /\ b <= Len(outcome) /\ b \in Writes /\ b > 0
        /\ M \subseteq Nat /\ M \subseteq Int /\ Len(outcome) \in Int
        /\ \A x \in Writes : x \in Nat
    <2>1. Len(outcome) \in Nat
      BY OwnTypes
    <2>2. \A x \in Writes : x \in Nat /\ x <= Len(outcome) /\ x > 0
      BY <2>1 DEF Writes
    <2>3. \A b \in M : b \in Writes
      BY OwnWriteIs
    <2> QED BY <2>1, <2>2, <2>3
  <1>2. w \in M /\ \A x \in M : w <= x
    <2> HIDE DEF M
    <2> QED BY <1>1, LeastExists DEF M
  <1>3. PICK m \in M : \A x \in M : x <= m
    <2> HIDE DEF M
    <2>1. M # {}
      BY DEF M
    <2>2. \A x \in M : x <= Len(outcome)
      BY <1>1
    <2> QED BY <1>1, <2>1, <2>2, MaxExists
  <1>4. Max(M) = m
    <2> HIDE DEF M
    <2> QED BY <1>1, <1>3, MaxIs
  <1>5. PICK doc \in Document :
           /\ LocalDocument(d) = doc
           /\ \A b \in M : Shows(b, doc)
           /\ doc.kind = "doc" =>
                doc.f = 0 \/ /\ doc.f \in Writes /\ outcome[doc.f].doc = d
                             /\ InHistory(history, doc.f) \/ outcome[doc.f].result # "failed"
    BY LocalShows
  <1>6. \A b \in M : /\ outcome[b].doc = d /\ outcome[b].result # "failed"
                     /\ \A x \in Writes : outcome[x].doc = d /\ outcome[x].result # "failed"
                                          /\ Whole(x) => x <= b
                     /\ \A x \in Writes : outcome[x].doc = d /\ outcome[x].result # "failed"
                                          /\ x > b => x \in M
    BY OwnWriteIs
  <1> HIDE DEF M
  <1>7. ASSUME doc.kind = "doc", doc.f >= m
        PROVE  doc.f = m
    <2>1. m \in Nat /\ m > 0 /\ doc.f \in Nat
      BY <1>1, <1>3 DEF Document
    <2>2. doc.f # 0
      BY <2>1, <1>7
    <2>3. /\ doc.f \in Writes /\ outcome[doc.f].doc = d
          /\ InHistory(history, doc.f) \/ outcome[doc.f].result # "failed"
      BY <2>2, <1>5, <1>7
    <2>4. SUFFICES ASSUME doc.f > m PROVE FALSE
      BY <2>1, <1>7
    <2>5. CASE outcome[doc.f].result # "failed"
      <3>1. doc.f \in M
        BY <2>3, <2>4, <2>5, <1>3, <1>6
      <3>2. doc.f <= m
        BY <3>1, <1>3
      <3> QED BY <3>2, <2>1, <2>4
    <2>6. CASE outcome[doc.f].result = "failed"
      <3>1. ~Latest(doc.f)
        BY <2>3, <2>6 DEF OwnInv, FailedOver
      <3>2. PICK x \in Writes : /\ x > doc.f /\ outcome[x].doc = d /\ Whole(x)
                                /\ InHistory(history, x)
        BY <3>1, <2>3 DEF Latest
      <3>3. outcome[x].result # "failed"
        BY <3>2, AnsweredTaken
      <3>4. x <= m
        BY <3>2, <3>3, <1>3, <1>6
      <3> QED BY <3>2, <3>4, <2>1, <2>4, <1>1
    <2> QED BY <2>5, <2>6
  <1>8. Whole(m) => m = w
    <2>1. Whole(m) => m <= w
      BY <1>1, <1>2, <1>3, <1>6
    <2>2. w <= m /\ w \in Nat /\ m \in Nat
      BY <1>1, <1>2, <1>3
    <2> QED BY <2>1, <2>2
  <1>9. Shows(w, doc) /\ Shows(m, doc)
    BY <1>2, <1>3, <1>5
  <1>10. CASE outcome[w].kind = "delete"
    BY <1>5, <1>9, <1>10 DEF Shows
  <1>11. CASE outcome[w].kind # "delete"
    <2>1. outcome[m].kind # "delete"
      BY <1>8, <1>11 DEF Whole
    <2>2. doc.kind = "doc" => doc.f = m
      BY <2>1, <1>7, <1>9 DEF Shows
    <2>3. outcome[w].kind = "set" => doc.kind = "doc" /\ doc.g = w
      BY <1>9 DEF Shows
    <2> QED BY <2>2, <2>3, <1>4, <1>5, <1>11 DEF M
  <1> QED BY <1>10, <1>11

(* As long as nobody else interferes, the device shows its own writes, all of *)
(* them and nothing older: for every order of writes, refusals, lost          *)
(* connections, writes sent twice, snapshots and listeners.                   *)
THEOREM OwnWritesAreShown == Spec => []OwnWritesShown
  <1>1. Spec => []CacheInv
    BY ClientInvariant, CacheInvInit, NextKeepsCache, PTL DEF Spec
  <1>2. Spec => [](calm => OwnInv)
    <2>1. Init => (calm => OwnInv)
      BY OwnInvInit
    <2> QED BY <2>1, <1>1, ClientInvariant, NextKeepsOwn, PTL DEF Spec
  <1> QED BY <1>1, <1>2, ClientInvariant, OwnFromInv, PTL
================================================================================
