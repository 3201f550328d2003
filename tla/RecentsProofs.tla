--------------------------- MODULE RecentsProofs ---------------------------
(* Theorems about Recents, for every set of users and every budget: what    *)
(* its counters say; it implements RecentBoard, the refinement that the run *)
(* recents_safety checks on two users; who is in a recent, the members and  *)
(* the partner of every recent of the room; a burst of messages counts each *)
(* of them; and as long as one user sends, all recents of the room agree on *)
(* the last message.                                                        *)
EXTENDS Recents, TLAPS

USE BudgetAssumption DEF Operations

----------------------------------------------------------------------------
(* What a client reads.                                                     *)

\* A queued write is one of the client's queue, of a kind asked for, to the
\* document asked for.
LEMMA QueuedIsWrite ==
    ASSUME TypeOK, NEW u \in Users, NEW ops, NEW id,
           NEW e \in Queued(u, ops, id)
    PROVE  /\ e[1] \in DOMAIN pending[u]
           /\ e[2] \in pending[u][e[1]]
           /\ e[2] \in Write
           /\ e[2].op \in ops
           /\ e[2].id = id
  <1>1. PICK j \in DOMAIN pending[u] : e \in {j} \X pending[u][j]
    BY DEF Queued
  <1>2. e[1] = j /\ e[2] \in pending[u][j] /\ e[2].op \in ops /\ e[2].id = id
    BY <1>1 DEF Queued
  <1>3. pending[u] \in Seq(Batch)
    BY DEF TypeOK
  <1>4. pending[u][j] \in SUBSET Write
    BY <1>1, <1>3 DEF Batch
  <1> QED BY <1>1, <1>2, <1>4

LEMMA LastIsQueued ==
    ASSUME NEW u \in Users, NEW ops, NEW id,
           Newest(Queued(u, ops, id)) # {}
    PROVE  \E e \in Queued(u, ops, id) : Last(u, ops, id) = e[2]
  BY DEF Newest, Last

\* The answer to a query holds documents of the room ...
LEMMA VisibleType ==
    ASSUME TypeOK, NEW u \in Users, NEW id \in Visible(u)
    PROVE  id \in Id /\ Base(u, id) \in Recent
  <1>1. \A w \in QueuedSets(u) : w.id \in Id /\ w.doc \in Recent
    <2> SUFFICES ASSUME NEW w \in QueuedSets(u)
                 PROVE  w.id \in Id /\ w.doc \in Recent
      OBVIOUS
    <2>1. PICK j \in DOMAIN pending[u] : w \in pending[u][j] /\ w.op = "set"
      BY DEF QueuedSets
    <2>2. w \in Write
      <3>1. pending[u] \in Seq(Batch)
        BY DEF TypeOK
      <3>2. pending[u][j] \in SUBSET Write
        BY <3>1 DEF Batch
      <3> QED BY <2>1, <3>2
    <2> QED BY <2>1, <2>2 DEF Write
  <1>2. id \in DOMAIN docs \/ \E w \in QueuedSets(u) : w.id = id
    BY DEF Visible
  <1>3. CASE id \in DOMAIN docs
    BY <1>3 DEF TypeOK, Base
  <1>4. CASE id \notin DOMAIN docs
    BY <1>1, <1>2, <1>4 DEF Base
  <1> QED BY <1>3, <1>4

\* ... and counters, messages and push lists of their types.
LEMMA CounterSeenType ==
    ASSUME TypeOK, NEW u \in Users, NEW id \in Visible(u)
    PROVE  CounterSeen(u, id) \in Nat
  <1> DEFINE ops == {"message", "counter"}
  <1>1. CASE Newest(Queued(u, ops, id)) = {}
    BY <1>1, VisibleType DEF CounterSeen, Recent
  <1>2. CASE Newest(Queued(u, ops, id)) # {}
    <2>1. PICK e \in Queued(u, ops, id) : Last(u, ops, id) = e[2]
      BY <1>2, LastIsQueued
    <2>2. e[2] \in Write /\ e[2].op \in ops
      BY <2>1, QueuedIsWrite
    <2> QED BY <1>2, <2>1, <2>2 DEF CounterSeen, Write
  <1> QED BY <1>1, <1>2

LEMMA PushSeenType ==
    ASSUME TypeOK, NEW u \in Users, NEW id \in Visible(u)
    PROVE  PushSeen(u, id) \in SUBSET Users
  <1>1. CASE Newest(Queued(u, {"push"}, id)) = {}
    BY <1>1, VisibleType DEF PushSeen, Recent
  <1>2. CASE Newest(Queued(u, {"push"}, id)) # {}
    <2>1. PICK e \in Queued(u, {"push"}, id) : Last(u, {"push"}, id) = e[2]
      BY <1>2, LastIsQueued
    <2>2. e[2] \in Write /\ e[2].op = "push"
      BY <2>1, QueuedIsWrite
    <2> QED BY <1>2, <2>1, <2>2 DEF PushSeen, Write
  <1> QED BY <1>1, <1>2

\* Queueing a batch of writes keeps the queues queues of non-empty batches.
LEMMA QueueType ==
    ASSUME TypeOK, NEW u \in Users, NEW batch \in SUBSET Write
    PROVE  Queue(u, batch) \in [Users -> Seq(Batch)]
  <1>1. CASE batch = {}
    BY <1>1 DEF Queue, TypeOK
  <1>2. CASE batch # {}
    <2>1. batch \in Batch
      BY <1>2 DEF Batch
    <2>2. pending[u] \in Seq(Batch)
      BY DEF TypeOK
    <2>3. Append(pending[u], batch) \in Seq(Batch)
      BY <2>1, <2>2
    <2> QED BY <1>2, <2>3 DEF Queue, TypeOK
  <1> QED BY <1>1, <1>2

----------------------------------------------------------------------------
(* Type correctness.                                                        *)

LEMMA SpendType ==
    ASSUME TypeOK, NEW ops, Spend(ops)
    PROVE  used' \in [Operations -> Nat]
  <1>1. \A o \in Operations : used[o] + (IF o \in ops THEN 1 ELSE 0) \in Nat
    BY DEF TypeOK
  <1> QED BY <1>1 DEF Spend

LEMMA AskType ==
    ASSUME TypeOK, NEW u \in Users, NEW C \in SUBSET Call, Ask(u, C)
    PROVE  calls' \in [Users -> SUBSET Call]
  BY DEF TypeOK, Ask

LEMMA AnsweredType ==
    ASSUME TypeOK, NEW u \in Users, NEW c, Answered(u, c)
    PROVE  calls' \in [Users -> SUBSET Call]
  BY DEF TypeOK, Answered

LEMMA ClearCallType ==
    ASSUME TypeOK, NEW by \in {"start", "row", "back"}
    PROVE  ClearCall(by) \in Call /\ [ClearCall(by) EXCEPT !.by = "disappear"] \in Call
  BY DEF TypeOK, ClearCall, Call

LEMMA CreateCallType ==
    ASSUME TypeOK, NEW by \in {"start", "row"}, NEW members \in SUBSET Users,
           NEW users \in Seq(Users)
    PROVE  CreateCall(by, members, users) \in Call
  BY DEF TypeOK, CreateCall, Call

\* createRecentItem writes a document of the collection's type.
LEMMA NewRecentType ==
    ASSUME TypeOK, NEW u \in Users, NEW c \in Call, c.kind = "create",
           NEW o \in Missing(u, c.members)
    PROVE  NewRecent(u, o, c) \in Write
  <1>1. /\ c.by \in {"start", "row"} /\ c.n \in Nat
        /\ c.members \in SUBSET Users /\ c.users \in Seq(Users)
    BY DEF Call
  <1>2. o \in Users
    BY <1>1 DEF Missing
  <1>3. WithUser(u, o, c.users) \in Users \cup {NoOne}
    BY <1>1 DEF WithUser
  <1> DEFINE id == [creator |-> u, by |-> c.by, n |-> c.n, userId |-> o]
             doc == [members |-> c.members, membersToPush |-> c.members,
                     withUser |-> WithUser(u, o, c.users),
                     lastMessage |-> 0, counter |-> 0]
  <1>4. id \in Id
    BY <1>1, <1>2 DEF Id
  <1>5. doc \in Recent
    BY <1>1, <1>3 DEF Recent
  <1>6. NewRecent(u, o, c) = [op |-> "set", id |-> id, doc |-> doc]
    BY DEF NewRecent, SetData
  <1> HIDE DEF id, doc
  <1> QED BY <1>4, <1>5, <1>6 DEF Write

\* Every operation the user starts keeps the types ...
LEMMA OperationType ==
    ASSUME TypeOK, NEW u \in Users, Operation(u)
    PROVE  TypeOK'
  <1>1. CASE Start(u)
    <2>1. calls' \in [Users -> SUBSET Call]
      <3>1. CASE room = "private"
        <4>1. PICK v \in Others(u) :
                 Ask(u, {CreateCall("start", {u, v}, <<u, v>>), ClearCall("start")})
          BY <1>1, <3>1 DEF Start
        <4>2. {CreateCall("start", {u, v}, <<u, v>>), ClearCall("start")} \in SUBSET Call
          <5>1. {u, v} \in SUBSET Users /\ <<u, v>> \in Seq(Users)
            BY DEF Others
          <5>2. CreateCall("start", {u, v}, <<u, v>>) \in Call
            BY <5>1, CreateCallType
          <5>3. ClearCall("start") \in Call
            BY ClearCallType
          <5> QED BY <5>2, <5>3
        <4> QED BY <4>1, <4>2, AskType
      <3>2. CASE room # "private"
        <4>1. Ask(u, {CreateCall("start", Users, <<>>), ClearCall("start")})
          BY <1>1, <3>2 DEF Start
        <4>2. {CreateCall("start", Users, <<>>), ClearCall("start")} \in SUBSET Call
          <5>1. Users \in SUBSET Users /\ <<>> \in Seq(Users)
            OBVIOUS
          <5>2. CreateCall("start", Users, <<>>) \in Call
            BY <5>1, CreateCallType
          <5>3. ClearCall("start") \in Call
            BY ClearCallType
          <5> QED BY <5>2, <5>3
        <4> QED BY <4>1, <4>2, AskType
      <3> QED BY <3>1, <3>2
    <2>2. used' \in [Operations -> Nat]
      BY <1>1, SpendType DEF Start
    <2> QED BY <1>1, <2>1, <2>2 DEF Start, TypeOK
  <1>2. CASE Send(u)
    <2>1. [kind |-> "update", message |-> used["send"] + 1] \in Call
      <3>1. used["send"] \in Nat
        BY DEF TypeOK
      <3>2. used["send"] + 1 \in Nat \ {0}
        BY <3>1
      <3> QED BY <3>2 DEF Call
    <2>2. calls' \in [Users -> SUBSET Call]
      BY <1>2, <2>1, AskType DEF Send
    <2>3. used' \in [Operations -> Nat]
      BY <1>2, SpendType DEF Send
    <2> QED BY <1>2, <2>2, <2>3 DEF Send, TypeOK
  <1>3. CASE Back(u)
    <2>1. calls' \in [Users -> SUBSET Call]
      BY <1>3, ClearCallType, AskType DEF Back
    <2>2. used' \in [Operations -> Nat]
      BY <1>3, SpendType DEF Back
    <2> QED BY <1>3, <2>1, <2>2 DEF Back, TypeOK
  <1>4. CASE Block(u)
    <2>1. [kind |-> "erase", n |-> used["block"]] \in Call
      BY DEF TypeOK, Call
    <2>2. calls' \in [Users -> SUBSET Call]
      BY <1>4, <2>1, AskType DEF Block
    <2>3. used' \in [Operations -> Nat]
      BY <1>4, SpendType DEF Block
    <2> QED BY <1>4, <2>2, <2>3 DEF Block, TypeOK
  <1>5. CASE Kill(u)
    <2>1. used' \in [Operations -> Nat]
      BY <1>5, SpendType DEF Kill
    <2> QED BY <1>5, <2>1 DEF Kill, TypeOK
  <1>6. ASSUME NEW id \in Rows(u), OpenRow(u, id)
        PROVE  TypeOK'
    <2>1. id \in Visible(u)
      BY DEF Rows
    <2> DEFINE users == IF room = "private" THEN <<u>> ELSE <<>>
    <2>2. CreateCall("row", PushSeen(u, id), users) \in Call
      <3>1. users \in Seq(Users)
        OBVIOUS
      <3> HIDE DEF users
      <3> QED BY <2>1, <3>1, PushSeenType, CreateCallType
    <2>3. calls' \in [Users -> SUBSET Call]
      BY <1>6, <2>2, ClearCallType, AskType DEF OpenRow
    <2>4. used' \in [Operations -> Nat]
      BY <1>6, SpendType DEF OpenRow
    <2> QED BY <1>6, <2>3, <2>4 DEF OpenRow, TypeOK
  <1>7. ASSUME NEW id \in Rows(u), DeleteRow(u, id)
        PROVE  TypeOK'
    <2>1. id \in Id
      BY VisibleType DEF Rows
    <2>2. {Delete(id)} \in SUBSET Write
      BY <2>1 DEF Delete, Write
    <2>3. pending' \in [Users -> Seq(Batch)]
      BY <1>7, <2>2, QueueType DEF DeleteRow
    <2>4. used' \in [Operations -> Nat]
      BY <1>7, SpendType DEF DeleteRow
    <2> QED BY <1>7, <2>3, <2>4 DEF DeleteRow, TypeOK
  <1>8. ASSUME NEW id \in Rows(u), Mute(u, id)
        PROVE  TypeOK'
    <2> DEFINE list == PushSeen(u, id)
               new == IF u \in list THEN list \ {u} ELSE list \cup {u}
               call == [kind |-> "push", n |-> used["mute"], list |-> new]
    <2>1. new \in SUBSET Users
      BY PushSeenType DEF Rows
    <2>2. call \in Call
      BY <2>1 DEF TypeOK, Call
    <2>3. Ask(u, {call})
      BY <1>8 DEF Mute
    <2>4. calls' \in [Users -> SUBSET Call]
      BY <2>2, <2>3, AskType
    <2>5. used' \in [Operations -> Nat]
      BY <1>8, SpendType DEF Mute
    <2> QED BY <1>8, <2>4, <2>5 DEF Mute, TypeOK
  <1> QED BY <1>1, <1>2, <1>3, <1>4, <1>5, <1>6, <1>7, <1>8 DEF Operation

\* ... and so does every callback ...
LEMMA CallbackType ==
    ASSUME TypeOK, NEW u \in Users, NEW c \in calls[u],
           Create(u, c) \/ Update(u, c) \/ Clear(u, c) \/ Push(u, c) \/ Erase(u, c)
    PROVE  TypeOK'
  <1>1. c \in Call
    BY DEF TypeOK
  <1>2. \A id \in Visible(u) : id \in Id
    BY VisibleType
  <1>3. CASE Create(u, c)
    <2>1. {NewRecent(u, o, c) : o \in Missing(u, c.members)} \in SUBSET Write
      BY <1>1, <1>3, NewRecentType DEF Create
    <2>2. pending' \in [Users -> Seq(Batch)]
      BY <1>3, <2>1, QueueType DEF Create
    <2> QED BY <1>3, <2>2, AnsweredType DEF Create, TypeOK
  <1>4. CASE Update(u, c)
    <2>1. c.message \in Nat
      BY <1>1, <1>4 DEF Update, Call
    <2>2. ASSUME NEW id \in Visible(u)
          PROVE  UpdateRecentItem(u, id, c.message) \in Write
      <3>1. CounterSeen(u, id) + (IF id.userId # u THEN 1 ELSE 0) \in Nat
        BY CounterSeenType
      <3> QED BY <1>2, <2>1, <3>1 DEF UpdateRecentItem, UpdateMessage, Write
    <2>3. {UpdateRecentItem(u, id, c.message) : id \in Visible(u)} \in SUBSET Write
      BY <2>2
    <2>4. pending' \in [Users -> Seq(Batch)]
      BY <1>4, <2>3, QueueType DEF Update
    <2>5. announced' \in [Users -> Nat]
      <3>1. \A v \in Users : announced[v] + (IF v # u THEN 1 ELSE 0) \in Nat
        <4>1. announced \in [Users -> Nat]
          BY DEF TypeOK
        <4> QED BY <4>1
      <3> QED BY <1>4, <3>1 DEF Update
    <2> QED BY <1>4, <2>4, <2>5, AnsweredType DEF Update, TypeOK
  <1>5. CASE Clear(u, c)
    <2>1. {UpdateCounter(id, 0) : id \in {i \in Visible(u) : i.userId = u}} \in SUBSET Write
      BY <1>2 DEF UpdateCounter, Write
    <2>2. pending' \in [Users -> Seq(Batch)]
      BY <1>5, <2>1, QueueType DEF Clear
    <2> QED BY <1>5, <2>2, AnsweredType DEF Clear, TypeOK
  <1>6. CASE Push(u, c)
    <2>1. c.list \in SUBSET Users
      BY <1>1, <1>6 DEF Push, Call
    <2>2. {UpdatePush(id, c.list) : id \in Visible(u)} \in SUBSET Write
      BY <1>2, <2>1 DEF UpdatePush, Write
    <2>3. pending' \in [Users -> Seq(Batch)]
      BY <1>6, <2>2, QueueType DEF Push
    <2> QED BY <1>6, <2>3, AnsweredType DEF Push, TypeOK
  <1>7. CASE Erase(u, c)
    <2>1. {Delete(id) : id \in Visible(u)} \in SUBSET Write
      BY <1>2 DEF Delete, Write
    <2>2. pending' \in [Users -> Seq(Batch)]
      BY <1>7, <2>1, QueueType DEF Erase
    <2> QED BY <1>7, <2>2, AnsweredType DEF Erase, TypeOK
  <1> QED BY <1>3, <1>4, <1>5, <1>6, <1>7

LEMMA FailType ==
    ASSUME TypeOK, NEW u \in Users, NEW c, Fail(u, c)
    PROVE  TypeOK'
  BY SpendType, AnsweredType DEF Fail, TypeOK

\* ... and the server.
LEMMA ServeType ==
    ASSUME TypeOK, NEW u \in Users, Serve(u)
    PROVE  TypeOK'
  <1> DEFINE q == pending[u]
  <1>1. q \in Seq(Batch) /\ q # <<>>
    BY DEF Serve, TypeOK
  <1>2. PICK w \in Head(q) :
           /\ Apply(w)
           /\ pending' = [pending EXCEPT ![u] =
                IF Head(@) = {w} THEN Tail(@) ELSE <<Head(@) \ {w}>> \o Tail(@)]
    BY DEF Serve
  <1>3. Head(q) \in Batch /\ Tail(q) \in Seq(Batch)
    BY <1>1
  <1>4. w \in Write
    BY <1>2, <1>3 DEF Batch
  <1>5. pending' \in [Users -> Seq(Batch)]
    <2>1. CASE Head(q) = {w}
      BY <1>2, <1>3, <2>1 DEF TypeOK
    <2>2. CASE Head(q) # {w}
      <3>1. Head(q) \ {w} \in Batch
        BY <1>2, <1>3, <2>2 DEF Batch
      <3>2. <<Head(q) \ {w}>> \o Tail(q) \in Seq(Batch)
        BY <1>3, <3>1
      <3> QED BY <1>2, <2>2, <3>2 DEF TypeOK
    <2> QED BY <2>1, <2>2
  <1>6. /\ DOMAIN docs' \subseteq Id
        /\ \A id \in DOMAIN docs' : docs'[id] \in Recent
    <2>1. CASE ApplySet(w)
      BY <1>4, <2>1 DEF ApplySet, TypeOK, Write
    <2>2. CASE ApplyPatch(w)
      <3>1. Patched(docs[w.id], w) \in Recent
        <4>1. docs[w.id] \in Recent
          BY <2>2 DEF ApplyPatch, TypeOK
        <4>2. CASE w.op = "message"
          <5>1. w.lastMessage \in Nat /\ w.counter \in Nat
            BY <1>4, <4>2 DEF Write
          <5> QED BY <4>1, <4>2, <5>1 DEF Patched, Recent
        <4>3. CASE w.op = "counter"
          <5>1. w.counter \in Nat
            BY <1>4, <4>3 DEF Write
          <5> QED BY <4>1, <4>3, <5>1 DEF Patched, Recent
        <4>4. CASE w.op = "push"
          <5>1. w.membersToPush \in SUBSET Users
            BY <1>4, <4>4 DEF Write
          <5> QED BY <4>1, <4>4, <5>1 DEF Patched, Recent
        <4> QED BY <2>2, <4>2, <4>3, <4>4 DEF ApplyPatch, Patches
      <3> QED BY <2>2, <3>1 DEF ApplyPatch, TypeOK
    <2>3. CASE RejectPatch(w)
      BY <2>3 DEF RejectPatch, TypeOK
    <2>4. CASE ApplyDelete(w)
      BY <2>4 DEF ApplyDelete, TypeOK
    <2> QED BY <1>2, <2>1, <2>2, <2>3, <2>4 DEF Apply
  <1> QED BY <1>5, <1>6 DEF Serve, TypeOK

LEMMA InitType == Init => TypeOK
  BY DEF Init, TypeOK

LEMMA NextType == TypeOK /\ [Next]_vars => TypeOK'
  <1> SUFFICES ASSUME TypeOK, [Next]_vars
               PROVE  TypeOK'
    OBVIOUS
  <1>1. CASE UNCHANGED vars
    BY <1>1 DEF vars, TypeOK
  <1>2. ASSUME NEW u \in Users, Operation(u)
        PROVE  TypeOK'
    BY <1>2, OperationType
  <1>3. ASSUME NEW u \in Users, Callback(u)
        PROVE  TypeOK'
    BY <1>3, CallbackType DEF Callback
  <1>4. ASSUME NEW u \in Users, NEW c \in calls[u], Fail(u, c)
        PROVE  TypeOK'
    BY <1>4, FailType
  <1>5. ASSUME NEW u \in Users, Serve(u)
        PROVE  TypeOK'
    BY <1>5, ServeType
  <1> QED BY <1>1, <1>2, <1>3, <1>4, <1>5 DEF Next

\* Documents, queues and calls of Class/Recent.swift always have their types,
\* whatever the room, the number of its users and the length of the run.
THEOREM TypeCorrect == Spec => []TypeOK
  BY InitType, NextType, PTL DEF Spec

----------------------------------------------------------------------------
(* Where queued writes come from.                                           *)

QueuedWrites(u) == UNION {pending[u][j] : j \in DOMAIN pending[u]}

LEMMA QueuedWriteType ==
    ASSUME TypeOK, NEW u \in Users, NEW w \in QueuedWrites(u)
    PROVE  w \in Write
  <1>1. PICK j \in DOMAIN pending[u] : w \in pending[u][j]
    BY DEF QueuedWrites
  <1>2. pending[u] \in Seq(Batch)
    BY DEF TypeOK
  <1> QED BY <1>1, <1>2 DEF Batch

\* A callback adds its batch and nothing else.
LEMMA QueueAdds ==
    ASSUME TypeOK, NEW u \in Users, NEW batch \in SUBSET Write,
           pending' = Queue(u, batch), NEW v \in Users, NEW w \in QueuedWrites(v)'
    PROVE  w \in QueuedWrites(v) \/ (v = u /\ w \in batch)
  <1>1. CASE batch = {} \/ v # u
    BY <1>1 DEF Queue, QueuedWrites, TypeOK
  <1>2. CASE batch # {} /\ v = u
    <2>1. pending[u] \in Seq(Batch) /\ batch \in Batch
      BY <1>2 DEF TypeOK, Batch
    <2>2. pending'[u] = Append(pending[u], batch)
      BY <1>2 DEF Queue, TypeOK
    <2>3. PICK j \in DOMAIN pending'[u] : w \in pending'[u][j]
      BY <1>2 DEF QueuedWrites
    <2>4. \/ j = Len(pending[u]) + 1 /\ pending'[u][j] = batch
          \/ j \in DOMAIN pending[u] /\ pending'[u][j] = pending[u][j]
      BY <2>1, <2>2, <2>3
    <2> QED BY <1>2, <2>3, <2>4 DEF QueuedWrites
  <1> QED BY <1>1, <1>2

\* The server adds nothing; what it applies was queued.
LEMMA ServeTakes ==
    ASSUME TypeOK, NEW u \in Users, Serve(u)
    PROVE  /\ \A v \in Users : QueuedWrites(v)' \subseteq QueuedWrites(v)
           /\ \E w \in QueuedWrites(u) : Apply(w)
  <1> DEFINE q == pending[u]
  <1>1. q \in Seq(Batch) /\ q # <<>>
    BY DEF Serve, TypeOK
  <1>2. PICK w \in Head(q) :
           /\ Apply(w)
           /\ pending' = [pending EXCEPT ![u] =
                IF Head(@) = {w} THEN Tail(@) ELSE <<Head(@) \ {w}>> \o Tail(@)]
    BY DEF Serve
  <1>3. 1 \in DOMAIN q /\ Head(q) = q[1]
    BY <1>1
  <1>4. ASSUME NEW x \in QueuedWrites(u)'
        PROVE  x \in QueuedWrites(u)
    <2>1. PICK j \in DOMAIN pending'[u] : x \in pending'[u][j]
      BY <1>4 DEF QueuedWrites
    <2>2. CASE Head(q) = {w}
      <3>1. pending'[u] = Tail(q)
        BY <1>2, <2>2 DEF TypeOK
      <3>2. j + 1 \in DOMAIN q /\ pending'[u][j] = q[j + 1]
        BY <1>1, <2>1, <3>1
      <3> QED BY <2>1, <3>2 DEF QueuedWrites
    <2>3. CASE Head(q) # {w}
      <3>1. pending'[u] = <<Head(q) \ {w}>> \o Tail(q)
        BY <1>2, <2>3 DEF TypeOK
      <3>2. Head(q) \in Batch /\ Tail(q) \in Seq(Batch)
        BY <1>1
      <3>3. j \in DOMAIN q /\ pending'[u][j] \subseteq q[j]
        <4> DEFINE h == Head(q) \ {w}
                   t == Tail(q)
        <4>1. Len(t) = Len(q) - 1 /\ \A i \in 1..Len(t) : t[i] = q[i + 1]
          BY <1>1
        <4>2. pending'[u] = <<h>> \o t /\ h \subseteq q[1] /\ t \in Seq(Batch)
          BY <1>3, <3>1, <3>2
        <4> HIDE DEF h, t
        <4>3. /\ Len(<<h>> \o t) = Len(t) + 1
              /\ (<<h>> \o t)[1] = h
              /\ \A i \in 2..Len(t) + 1 : (<<h>> \o t)[i] = t[i - 1]
          BY <4>2
        <4>4. j \in 1..Len(t) + 1
          BY <2>1, <4>2, <4>3
        <4> QED BY <1>1, <4>1, <4>2, <4>3, <4>4
      <3> QED BY <2>1, <3>3 DEF QueuedWrites
    <2> QED BY <2>2, <2>3
  <1>5. \A v \in Users : v # u => pending'[v] = pending[v]
    BY <1>2 DEF TypeOK
  <1>6. w \in QueuedWrites(u)
    BY <1>3 DEF QueuedWrites
  <1>7. ASSUME NEW v \in Users
        PROVE  QueuedWrites(v)' \subseteq QueuedWrites(v)
    <2>1. CASE v = u
      BY <1>4, <2>1
    <2>2. CASE v # u
      BY <1>5, <2>2 DEF QueuedWrites
    <2> QED BY <2>1, <2>2
  <1> QED BY <1>2, <1>6, <1>7

----------------------------------------------------------------------------
(* The unread counter.                                                      *)
(*                                                                          *)
(* UnreadNeverOvercounts bounds the counters at the server and in the       *)
(* queues.  It is inductive together with the fact that the recents a       *)
(* client has yet to create start at 0, because a callback may read such a  *)
(* recent before the server has it.                                         *)

Bounded(w) ==
    /\ w.op \in {"message", "counter"} => w.counter <= announced[w.id.userId]
    /\ w.op = "set" => w.doc.counter = 0

CounterInv ==
    /\ TypeOK
    /\ \A id \in DOMAIN docs : docs[id].counter <= announced[id.userId]
    /\ \A u \in Users : \A w \in QueuedWrites(u) : Bounded(w)

LEMMA CounterSeenBounded ==
    ASSUME CounterInv, NEW u \in Users, NEW id \in Visible(u)
    PROVE  CounterSeen(u, id) <= announced[id.userId]
  <1> DEFINE ops == {"message", "counter"}
  <1>1. TypeOK /\ id \in Id
    BY VisibleType DEF CounterInv
  <1>2. announced[id.userId] \in Nat
    BY <1>1 DEF TypeOK, Id
  <1>3. CASE Newest(Queued(u, ops, id)) = {}
    <2>1. CASE id \in DOMAIN docs
      BY <1>3, <2>1 DEF CounterInv, CounterSeen, Base
    <2>2. CASE id \notin DOMAIN docs
      <3>1. \E w \in QueuedSets(u) : w.id = id
        BY <2>2 DEF Visible
      <3>2. PICK w \in QueuedSets(u) : Base(u, id) = w.doc
        BY <2>2, <3>1 DEF Base
      <3>3. w.op = "set" /\ w \in QueuedWrites(u)
        BY <3>2 DEF QueuedSets, QueuedWrites
      <3>4. w.doc.counter = 0
        BY <3>3 DEF CounterInv, Bounded
      <3> QED BY <1>2, <1>3, <3>2, <3>4 DEF CounterSeen
    <2> QED BY <2>1, <2>2
  <1>4. CASE Newest(Queued(u, ops, id)) # {}
    <2>1. PICK e \in Queued(u, ops, id) : Last(u, ops, id) = e[2]
      BY <1>4, LastIsQueued
    <2>2. /\ e[1] \in DOMAIN pending[u] /\ e[2] \in pending[u][e[1]]
          /\ e[2].op \in ops /\ e[2].id = id
      BY <1>1, <2>1, QueuedIsWrite
    <2>3. e[2] \in QueuedWrites(u)
      BY <2>2 DEF QueuedWrites
    <2> QED BY <1>4, <2>1, <2>2, <2>3 DEF CounterInv, Bounded, CounterSeen
  <1> QED BY <1>3, <1>4

\* A callback that leaves announced alone keeps the bound if its batch does.
LEMMA QueueBounded ==
    ASSUME CounterInv, TypeOK', NEW u \in Users, NEW batch \in SUBSET Write,
           pending' = Queue(u, batch), UNCHANGED <<docs, announced>>,
           \A w \in batch : Bounded(w)
    PROVE  CounterInv'
  <1>1. ASSUME NEW v \in Users, NEW w \in QueuedWrites(v)'
        PROVE  Bounded(w)'
    <2>1. w \in QueuedWrites(v) \/ w \in batch
      BY QueueAdds DEF CounterInv
    <2> QED BY <2>1 DEF CounterInv, Bounded
  <1> QED BY <1>1 DEF CounterInv

LEMMA CounterNext == CounterInv /\ [Next]_vars => CounterInv'
  <1> SUFFICES ASSUME CounterInv, [Next]_vars
               PROVE  CounterInv'
    OBVIOUS
  <1>1. TypeOK /\ TypeOK'
    BY NextType DEF CounterInv
  <1>2. ASSUME UNCHANGED <<docs, pending, announced>>
        PROVE  CounterInv'
    BY <1>1, <1>2 DEF CounterInv, Bounded, QueuedWrites
  <1>3. \A id \in DOMAIN docs : id \in Id
    BY <1>1 DEF TypeOK
  <1>4. ASSUME NEW u \in Users, Operation(u)
        PROVE  CounterInv'
    <2>1. CASE UNCHANGED <<docs, pending, announced>>
      BY <1>2, <2>1
    <2>2. ASSUME NEW id \in Rows(u), DeleteRow(u, id)
          PROVE  CounterInv'
      <3>1. {Delete(id)} \in SUBSET Write
        BY <1>1, VisibleType DEF Rows, Delete, Write
      <3>2. \A w \in {Delete(id)} : Bounded(w)
        BY DEF Delete, Bounded
      <3>3. pending' = Queue(u, {Delete(id)}) /\ UNCHANGED <<docs, announced>>
        BY <2>2 DEF DeleteRow
      <3> QED BY <1>1, <3>1, <3>2, <3>3, QueueBounded
    <2> QED BY <1>4, <2>1, <2>2
          DEF Operation, Start, Send, Back, Block, Kill, OpenRow, Mute
  <1>5. ASSUME NEW u \in Users, NEW c \in calls[u], Create(u, c)
        PROVE  CounterInv'
    <2> DEFINE batch == {NewRecent(u, o, c) : o \in Missing(u, c.members)}
    <2>1. c \in Call /\ c.kind = "create"
      BY <1>1, <1>5 DEF TypeOK, Create
    <2>2. batch \in SUBSET Write
      BY <1>1, <2>1, NewRecentType
    <2>3. \A w \in batch : Bounded(w)
      BY DEF NewRecent, SetData, Bounded
    <2>4. pending' = Queue(u, batch) /\ UNCHANGED <<docs, announced>>
      BY <1>5 DEF Create
    <2> HIDE DEF batch
    <2> QED BY <1>1, <2>2, <2>3, <2>4, QueueBounded
  <1>6. ASSUME NEW u \in Users, NEW c \in calls[u], Update(u, c)
        PROVE  CounterInv'
    <2> DEFINE batch == {UpdateRecentItem(u, id, c.message) : id \in Visible(u)}
    <2>1. \A v \in Users : announced[v] \in Nat /\ announced'[v] \in Nat
      BY <1>1 DEF TypeOK
    <2>2. /\ \A v \in Users : announced'[v] = announced[v] + IF v # u THEN 1 ELSE 0
          /\ \A v \in Users : announced[v] <= announced'[v]
      BY <1>6, <2>1 DEF Update
    <2>3. ASSUME NEW x \in batch
          PROVE  x \in Write /\ Bounded(x)'
      <3>0. PICK id \in Visible(u) : x = UpdateRecentItem(u, id, c.message)
        OBVIOUS
      <3> DEFINE n == CounterSeen(u, id) + IF id.userId # u THEN 1 ELSE 0
      <3>1. id \in Id /\ id.userId \in Users /\ CounterSeen(u, id) \in Nat
        BY <1>1, VisibleType, CounterSeenType DEF Id
      <3>2. n \in Nat /\ n <= announced'[id.userId]
        BY <2>1, <2>2, <3>1, CounterSeenBounded
      <3>3. c.message \in Nat
        <4>1. c \in Call /\ c.kind = "update"
          BY <1>1, <1>6 DEF TypeOK, Update
        <4> QED BY <4>1 DEF Call
      <3>4. x = [op |-> "message", id |-> id, lastMessage |-> c.message, counter |-> n]
        BY <3>0 DEF UpdateRecentItem, UpdateMessage
      <3> HIDE DEF n
      <3>5. x \in Write
        BY <3>1, <3>2, <3>3, <3>4 DEF Write
      <3>6. x.op = "message" /\ x.counter = n /\ x.id = id
        BY <3>4
      <3> QED BY <3>2, <3>5, <3>6 DEF Bounded
    <2>4. batch \in SUBSET Write /\ pending' = Queue(u, batch)
      BY <1>6, <2>3 DEF Update
    <2>5. \A w \in batch : Bounded(w)'
      BY <2>3
    <2> HIDE DEF batch
    <2>6. ASSUME NEW v \in Users, NEW w \in QueuedWrites(v)'
          PROVE  Bounded(w)'
      <3>1. w \in QueuedWrites(v) \/ w \in batch
        BY <1>1, <2>4, QueueAdds
      <3>2. CASE w \in QueuedWrites(v)
        <4>1. Bounded(w)
          BY <3>2 DEF CounterInv
        <4>2. w \in Write
          BY <1>1, <3>2, QueuedWriteType
        <4>3. w.op \in {"message", "counter"} =>
                 w.counter \in Nat /\ w.id.userId \in Users
          BY <4>2 DEF Write, Id
        <4> QED BY <2>1, <2>2, <4>1, <4>3 DEF Bounded
      <3> QED BY <2>5, <3>1, <3>2
    <2>7. ASSUME NEW id \in DOMAIN docs
          PROVE  docs[id].counter <= announced'[id.userId]
      <3>1. id.userId \in Users /\ docs[id].counter \in Nat
        BY <1>1, <1>3 DEF TypeOK, Id, Recent
      <3>2. docs[id].counter <= announced[id.userId]
        BY DEF CounterInv
      <3> QED BY <2>1, <2>2, <3>1, <3>2
    <2>8. docs' = docs
      BY <1>6 DEF Update
    <2> QED BY <1>1, <2>6, <2>7, <2>8 DEF CounterInv
  <1>7. ASSUME NEW u \in Users, NEW c \in calls[u], Clear(u, c)
        PROVE  CounterInv'
    <2> DEFINE batch == {UpdateCounter(id, 0) : id \in {i \in Visible(u) : i.userId = u}}
    <2>1. batch \in SUBSET Write
      BY <1>1, VisibleType DEF UpdateCounter, Write
    <2>2. \A w \in batch : Bounded(w)
      <3>1. announced[u] \in Nat
        BY <1>1 DEF TypeOK
      <3> QED BY <3>1 DEF UpdateCounter, Bounded
    <2>3. pending' = Queue(u, batch) /\ UNCHANGED <<docs, announced>>
      BY <1>7 DEF Clear
    <2> HIDE DEF batch
    <2> QED BY <1>1, <2>1, <2>2, <2>3, QueueBounded
  <1>8. ASSUME NEW u \in Users, NEW c \in calls[u], Push(u, c)
        PROVE  CounterInv'
    <2> DEFINE batch == {UpdatePush(id, c.list) : id \in Visible(u)}
    <2>1. c.list \in SUBSET Users
      <3>1. c \in Call /\ c.kind = "push"
        BY <1>1, <1>8 DEF TypeOK, Push
      <3> QED BY <3>1 DEF Call
    <2>2. batch \in SUBSET Write
      BY <1>1, <2>1, VisibleType DEF UpdatePush, Write
    <2>3. \A w \in batch : Bounded(w)
      BY DEF UpdatePush, Bounded
    <2>4. pending' = Queue(u, batch) /\ UNCHANGED <<docs, announced>>
      BY <1>8 DEF Push
    <2> HIDE DEF batch
    <2> QED BY <1>1, <2>2, <2>3, <2>4, QueueBounded
  <1>9. ASSUME NEW u \in Users, NEW c \in calls[u], Erase(u, c)
        PROVE  CounterInv'
    <2> DEFINE batch == {Delete(id) : id \in Visible(u)}
    <2>1. batch \in SUBSET Write
      BY <1>1, VisibleType DEF Delete, Write
    <2>2. \A w \in batch : Bounded(w)
      BY DEF Delete, Bounded
    <2>3. pending' = Queue(u, batch) /\ UNCHANGED <<docs, announced>>
      BY <1>9 DEF Erase
    <2> HIDE DEF batch
    <2> QED BY <1>1, <2>1, <2>2, <2>3, QueueBounded
  <1>10. ASSUME NEW u \in Users, Serve(u)
         PROVE  CounterInv'
    <2>1. PICK w \in QueuedWrites(u) : Apply(w)
      BY <1>1, <1>10, ServeTakes
    <2>2. Bounded(w)
      BY DEF CounterInv
    <2>3. w \in Write
      BY <1>1, QueuedWriteType
    <2>4. announced' = announced
      BY <1>10 DEF Serve
    <2>5. ASSUME NEW id \in DOMAIN docs'
          PROVE  docs'[id].counter <= announced[id.userId]
      <3>1. CASE ApplySet(w)
        <4>1. w.id \in Id /\ w.doc.counter = 0
          BY <2>2, <2>3, <3>1 DEF ApplySet, Bounded, Write
        <4>2. announced[w.id.userId] \in Nat
          BY <1>1, <4>1 DEF TypeOK, Id
        <4> QED BY <2>5, <3>1, <4>1, <4>2 DEF ApplySet, CounterInv
      <3>2. CASE ApplyPatch(w)
        <4>1. CASE id # w.id
          BY <2>5, <3>2, <4>1 DEF ApplyPatch, CounterInv
        <4>2. CASE id = w.id
          <5>1. docs[id] \in Recent /\ docs[id].counter <= announced[id.userId]
            BY <1>1, <3>2, <4>2 DEF ApplyPatch, TypeOK, CounterInv
          <5>2. docs'[id] = Patched(docs[id], w) /\ w.op \in Patches
            BY <3>2, <4>2 DEF ApplyPatch
          <5>3. CASE w.op \in {"message", "counter"}
            <6>1. Patched(docs[id], w).counter = w.counter
              BY <5>1, <5>3 DEF Patched, Recent
            <6> QED BY <2>2, <4>2, <5>2, <5>3, <6>1 DEF Bounded
          <5>4. CASE w.op = "push"
            <6>1. Patched(docs[id], w).counter = docs[id].counter
              BY <5>1, <5>4 DEF Patched, Recent
            <6> QED BY <5>1, <5>2, <6>1
          <5> QED BY <5>2, <5>3, <5>4 DEF Patches
        <4> QED BY <4>1, <4>2
      <3>3. CASE RejectPatch(w)
        BY <2>5, <3>3 DEF RejectPatch, CounterInv
      <3>4. CASE ApplyDelete(w)
        BY <2>5, <3>4 DEF ApplyDelete, CounterInv
      <3> QED BY <2>1, <3>1, <3>2, <3>3, <3>4 DEF Apply
    <2>6. \A v \in Users : \A x \in QueuedWrites(v)' : Bounded(x)'
      BY <1>1, <1>10, <2>4, ServeTakes DEF CounterInv, Bounded
    <2> QED BY <1>1, <2>4, <2>5, <2>6 DEF CounterInv
  <1>11. ASSUME NEW u \in Users, NEW c \in calls[u], Fail(u, c)
         PROVE  CounterInv'
    BY <1>2, <1>11 DEF Fail
  <1>12. CASE UNCHANGED vars
    BY <1>2, <1>12 DEF vars
  <1> QED BY <1>4, <1>5, <1>6, <1>7, <1>8, <1>9, <1>10, <1>11, <1>12
        DEF Next, Callback

\* However the callbacks of the clients interleave, no recent ever shows more
\* unread messages than the others have announced to its owner.
THEOREM UnreadBounded == Spec => []UnreadNeverOvercounts
  <1>1. Init => CounterInv
    BY InitType DEF Init, CounterInv, QueuedWrites
  <1>2. CounterInv => UnreadNeverOvercounts
    BY DEF CounterInv, UnreadNeverOvercounts, QueuedWrites, Bounded
  <1> QED BY <1>1, <1>2, CounterNext, PTL DEF Spec

HIDE BudgetAssumption DEF Operations

----------------------------------------------------------------------------
(* The invariant.                                                           *)
(*                                                                          *)
(* The board allows a row to go up once, and only while its creator has no  *)
(* other up for its owner.  createRecent cannot see that at the server: it  *)
(* sees its client's answer to a query.  What makes it true is the order of *)
(* that client's queue: a set for an owner is queued after the deletions of *)
(* all that the client has put up, or has still to put up, for this owner.  *)

\* The id was drawn by a call of createRecent that is no longer under way.
Drawn(id) ==
    /\ id.n < used[id.by]
    /\ \A c \in calls[id.creator] : c.kind = "create" => ~(c.by = id.by /\ c.n = id.n)

\* Ids in use are drawn, and calls under way have not drawn theirs yet.
FreshIds ==
    /\ \A id \in DOMAIN docs \cup retired : id \in Id /\ Drawn(id)
    /\ \A u \in Users : \A w \in QueuedWrites(u) : Drawn(w.id)
    /\ \A u \in Users : \A c \in calls[u] :
          c.kind = "create" =>
              /\ c.n < used[c.by]
              /\ \A d \in calls[u] :
                    d.kind = "create" /\ d.by = c.by /\ d.n = c.n => d = c

\* What waits to be put up is an empty row of its creator's, not up yet.
EmptyRow(u, w) ==
    /\ w.id.creator = u
    /\ w.doc.counter = 0 /\ w.doc.lastMessage = 0
    /\ w.id.userId \in w.doc.members

SetsAreNew ==
    \A u \in Users : \A w \in QueuedWrites(u) :
        w.op = "set" => EmptyRow(u, w) /\ w.id \notin DOMAIN docs \cup retired

\* Queue q has the deletion of id in its i-th batch.
DeletesAt(q, i, id) == i \in DOMAIN q /\ Delete(id) \in q[i]

\* A set never comes before a deletion of the same document is queued ...
SetThenDelete(q) ==
    \A j, i \in DOMAIN q : \A v \in q[j] :
        v.op = "set" /\ DeletesAt(q, i, v.id) => j < i

\* ... two sets for one owner have the deletion of the first between them ...
OneAtATime(q) ==
    \A j, k \in DOMAIN q : \A v \in q[j], w \in q[k] :
        v.op = "set" /\ w.op = "set" /\ v.id.userId = w.id.userId =>
            /\ j = k => v = w
            /\ j < k => \E i \in DOMAIN q : j < i /\ i < k /\ DeletesAt(q, i, v.id)

\* ... and a set comes after the deletion of what its creator has up for the
\* owner.
AfterDeletion(u, D) ==
    \A id \in D : \A k \in DOMAIN pending[u] : \A w \in pending[u][k] :
        id.creator = u /\ w.op = "set" /\ w.id.userId = id.userId =>
            \E i \in DOMAIN pending[u] : i < k /\ DeletesAt(pending[u], i, id)

InOrderOfDeletion ==
    \A u \in Users :
        /\ SetThenDelete(pending[u])
        /\ OneAtATime(pending[u])
        /\ AfterDeletion(u, DOMAIN docs)

BoardInv ==
    /\ CounterInv
    /\ docs = [id \in DOMAIN docs |-> docs[id]]
    /\ FreshIds
    /\ SetsAreNew
    /\ InOrderOfDeletion

----------------------------------------------------------------------------
(* What the steps do to the calls under way.                                *)

\* Call c is one made by this step: its number was not in use before.
MadeNow(c) == c.n = used[c.by] /\ used'[c.by] = used[c.by] + 1

CallsGrow ==
    /\ \A o \in Operations : used[o] <= used'[o]
    /\ \A u \in Users : \A c \in calls'[u] :
          c.kind = "create" => c \in calls[u] \/ MadeNow(c)
    /\ \A u \in Users : \A c, d \in calls'[u] :
          c.kind = "create" /\ d.kind = "create" /\ c \notin calls[u] /\ d \notin calls[u]
              => c = d

LEMMA SpendGrows ==
    ASSUME TypeOK, NEW ops, Spend(ops)
    PROVE  /\ \A o \in Operations : used[o] <= used'[o]
           /\ \A o \in Operations : o \in ops => used'[o] = used[o] + 1
  BY DEF Spend, TypeOK

\* A screen that opens asks for one creation and for a reset.
LEMMA OpeningCallsGrow ==
    ASSUME TypeOK, NEW u \in Users, NEW by \in {"start", "row"}, Spend({by}),
           NEW members, NEW users,
           Ask(u, {CreateCall(by, members, users), ClearCall(by)})
    PROVE  CallsGrow
  <1> DEFINE c == CreateCall(by, members, users)
  <1>1. c.by = by /\ c.n = used[by] /\ ClearCall(by).kind = "clear"
    BY DEF CreateCall, ClearCall
  <1>2. \A v \in Users : \A d \in calls'[v] :
           d \in calls[v] \/ d = c \/ d = ClearCall(by)
    BY DEF Ask, TypeOK
  <1>3. used'[by] = used[by] + 1
    <2>1. by \in Operations /\ by \in {by}
      BY DEF Operations
    <2>2. \A o \in Operations : o \in {by} => used'[o] = used[o] + 1
      BY SpendGrows
    <2> QED BY <2>1, <2>2
  <1>4. MadeNow(c)
    BY <1>1, <1>3 DEF MadeNow
  <1> HIDE DEF c
  <1> QED BY <1>1, <1>2, <1>4, SpendGrows DEF CallsGrow

\* Everything else asks for no creation.
LEMMA OtherCallsGrow ==
    ASSUME \A o \in Operations : used[o] <= used'[o],
           \A u \in Users : \A c \in calls'[u] : c \in calls[u] \/ c.kind # "create"
    PROVE  CallsGrow
  BY DEF CallsGrow

LEMMA NextCallsGrow ==
    ASSUME TypeOK, [Next]_vars
    PROVE  CallsGrow
  <1> DEFINE Same == \A o \in Operations : used[o] <= used'[o]
             Fewer == \A u \in Users : \A c \in calls'[u] :
                          c \in calls[u] \/ c.kind # "create"
  <1>0. used \in [Operations -> Nat]
    BY DEF TypeOK
  <1>1. ASSUME UNCHANGED used PROVE Same
    BY <1>0, <1>1
  <1>2. ASSUME NEW u \in Users, NEW c, Answered(u, c) PROVE Fewer
    BY <1>2 DEF Answered, TypeOK
  <1>3. ASSUME NEW u \in Users, NEW C, Ask(u, C), \A c \in C : c.kind # "create"
        PROVE  Fewer
    BY <1>3 DEF Ask, TypeOK
  <1>4. ASSUME NEW ops, Spend(ops) PROVE Same
    BY <1>4, SpendGrows
  <1>5. ASSUME NEW u \in Users, Operation(u)
        PROVE  CallsGrow
    <2>1. CASE Start(u)
      BY <2>1, OpeningCallsGrow DEF Start
    <2>2. ASSUME NEW id \in Rows(u), OpenRow(u, id) PROVE CallsGrow
      BY <2>2, OpeningCallsGrow DEF OpenRow
    <2>3. CASE Send(u)
      <3>1. \A c \in {[kind |-> "update", message |-> used["send"] + 1]} : c.kind # "create"
        OBVIOUS
      <3> QED BY <1>3, <1>4, <2>3, <3>1, OtherCallsGrow DEF Send
    <2>4. CASE Back(u)
      <3>1. \A c \in {ClearCall("back"), [ClearCall("back") EXCEPT !.by = "disappear"]} :
               c.kind # "create"
        BY DEF ClearCall
      <3> QED BY <1>3, <1>4, <2>4, <3>1, OtherCallsGrow DEF Back
    <2>5. CASE Block(u)
      <3>1. \A c \in {[kind |-> "erase", n |-> used["block"]]} : c.kind # "create"
        OBVIOUS
      <3> QED BY <1>3, <1>4, <2>5, <3>1, OtherCallsGrow DEF Block
    <2>6. CASE Kill(u)
      <3>1. Fewer
        BY <2>6 DEF Kill, TypeOK
      <3> QED BY <1>4, <2>6, <3>1, OtherCallsGrow DEF Kill
    <2>7. ASSUME NEW id \in Rows(u), DeleteRow(u, id) PROVE CallsGrow
      <3>1. Fewer
        BY <2>7 DEF DeleteRow
      <3> QED BY <1>4, <2>7, <3>1, OtherCallsGrow DEF DeleteRow
    <2>8. ASSUME NEW id \in Rows(u), Mute(u, id) PROVE CallsGrow
      <3>1. PICK list : Ask(u, {[kind |-> "push", n |-> used["mute"], list |-> list]})
        BY <2>8 DEF Mute
      <3>2. \A c \in {[kind |-> "push", n |-> used["mute"], list |-> list]} :
               c.kind # "create"
        OBVIOUS
      <3> QED BY <1>3, <1>4, <2>8, <3>1, <3>2, OtherCallsGrow DEF Mute
    <2> QED BY <1>5, <2>1, <2>2, <2>3, <2>4, <2>5, <2>6, <2>7, <2>8 DEF Operation
  <1>6. ASSUME NEW u \in Users, Callback(u)
        PROVE  CallsGrow
    BY <1>1, <1>2, <1>6, OtherCallsGrow
    DEF Callback, Create, Update, Clear, Push, Erase
  <1>7. ASSUME NEW u \in Users, NEW c \in calls[u], Fail(u, c)
        PROVE  CallsGrow
    BY <1>2, <1>4, <1>7, OtherCallsGrow DEF Fail
  <1>8. ASSUME NEW u \in Users, Serve(u)
        PROVE  CallsGrow
    BY <1>1, <1>8, OtherCallsGrow DEF Serve
  <1>9. CASE UNCHANGED vars
    BY <1>1, <1>9, OtherCallsGrow DEF vars
  <1> QED BY <1>5, <1>6, <1>7, <1>8, <1>9 DEF Next

----------------------------------------------------------------------------
(* Ids.                                                                     *)

CallsFresh ==
    \A u \in Users : \A c \in calls[u] :
        c.kind = "create" =>
            /\ c.n < used[c.by]
            /\ \A d \in calls[u] :
                  d.kind = "create" /\ d.by = c.by /\ d.n = c.n => d = c

LEMMA CreateCallIsTyped ==
    ASSUME NEW c \in Call, c.kind = "create"
    PROVE  /\ c.by \in {"start", "row"} /\ c.n \in Nat
           /\ c.members \in SUBSET Users /\ c.users \in Seq(Users)
  BY DEF Call

\* What was drawn is not drawn again.
LEMMA DrawnStays ==
    ASSUME TypeOK, TypeOK', CallsGrow, NEW id \in Id, Drawn(id)
    PROVE  Drawn(id)'
  <1>1. id.by \in Operations /\ id.creator \in Users /\ id.n \in Nat
    <2>1. id.by \in {"start", "row"} /\ id.creator \in Users /\ id.n \in Nat
      BY DEF Id
    <2> QED BY <2>1 DEF Operations
  <1>2. used[id.by] \in Nat /\ used'[id.by] \in Nat
    BY <1>1 DEF TypeOK
  <1>3. id.n < used'[id.by]
    BY <1>1, <1>2 DEF Drawn, CallsGrow
  <1>4. ASSUME NEW c \in calls'[id.creator], c.kind = "create", c.by = id.by, c.n = id.n
        PROVE  FALSE
    <2>1. c \in calls[id.creator] \/ MadeNow(c)
      BY <1>1, <1>4 DEF CallsGrow
    <2>2. c \notin calls[id.creator]
      BY <1>4 DEF Drawn
    <2> QED BY <1>2, <1>4, <2>1, <2>2 DEF MadeNow, Drawn
  <1> QED BY <1>3, <1>4 DEF Drawn

LEMMA CallsStayFresh ==
    ASSUME TypeOK, TypeOK', CallsGrow, CallsFresh
    PROVE  CallsFresh'
  <1> SUFFICES ASSUME NEW u \in Users, NEW c \in calls'[u], c.kind = "create"
               PROVE  /\ c.n < used'[c.by]
                      /\ \A d \in calls'[u] :
                            d.kind = "create" /\ d.by = c.by /\ d.n = c.n => d = c
    BY DEF CallsFresh
  <1>1. c.by \in {"start", "row"} /\ c.n \in Nat
    <2>1. c \in Call
      BY DEF TypeOK
    <2> QED BY <2>1, CreateCallIsTyped
  <1>2. used[c.by] \in Nat /\ used'[c.by] \in Nat /\ used[c.by] <= used'[c.by]
    <2>1. c.by \in Operations
      BY <1>1 DEF Operations
    <2> QED BY <2>1 DEF TypeOK, CallsGrow
  <1>3. c \in calls[u] \/ MadeNow(c)
    BY DEF CallsGrow
  <1>4. c \in calls[u] => c.n < used[c.by]
    BY DEF CallsFresh
  <1>5. c.n < used'[c.by]
    BY <1>1, <1>2, <1>3, <1>4 DEF MadeNow
  <1>6. ASSUME NEW d \in calls'[u], d.kind = "create", d.by = c.by, d.n = c.n
        PROVE  d = c
    <2>1. d \in calls[u] \/ MadeNow(d)
      BY <1>6 DEF CallsGrow
    <2>2. CASE c \in calls[u] /\ d \in calls[u]
      BY <1>6, <2>2 DEF CallsFresh
    <2>3. CASE c \notin calls[u] /\ d \notin calls[u]
      BY <1>6, <2>3 DEF CallsGrow
    <2>4. CASE c \in calls[u] /\ d \notin calls[u]
      <3>1. d.n = used[c.by]
        BY <1>6, <2>1, <2>4 DEF MadeNow
      <3> QED BY <1>1, <1>2, <1>4, <1>6, <2>4, <3>1
    <2>5. CASE c \notin calls[u] /\ d \in calls[u]
      <3>1. d.n < used[d.by]
        BY <1>6, <2>5 DEF CallsFresh
      <3>2. c.n = used[c.by]
        BY <1>3, <2>5 DEF MadeNow
      <3> QED BY <1>1, <1>2, <1>6, <3>1, <3>2
    <2> QED BY <2>2, <2>3, <2>4, <2>5
  <1> QED BY <1>5, <1>6

\* A client sees only documents with ids that were drawn.
LEMMA VisibleIsDrawn ==
    ASSUME BoardInv, NEW u \in Users, NEW id \in Visible(u)
    PROVE  id \in Id /\ Drawn(id)
  <1>1. id \in Id
    BY VisibleType DEF BoardInv, CounterInv
  <1>2. CASE id \in DOMAIN docs
    BY <1>2 DEF BoardInv, FreshIds
  <1>3. CASE id \notin DOMAIN docs
    <2>1. PICK w \in QueuedSets(u) : w.id = id
      BY <1>3 DEF Visible
    <2>2. w \in QueuedWrites(u)
      BY DEF QueuedSets, QueuedWrites
    <2> QED BY <1>1, <2>1, <2>2 DEF BoardInv, FreshIds
  <1> QED BY <1>1, <1>2, <1>3

\* Ids stay fresh if nothing but drawn ones come into use.
LEMMA IdsStayFresh ==
    ASSUME BoardInv, TypeOK', CallsGrow,
           \A id \in DOMAIN docs' \cup retired' :
               id \in DOMAIN docs \cup retired \/ Drawn(id)',
           \A u \in Users : \A w \in QueuedWrites(u)' :
               w \in QueuedWrites(u) \/ Drawn(w.id)'
    PROVE  FreshIds'
  <1>1. TypeOK
    BY DEF BoardInv, CounterInv
  <1>2. \A id \in DOMAIN docs' \cup retired' : id \in Id
    BY DEF TypeOK
  <1>3. \A id \in DOMAIN docs' \cup retired' : Drawn(id)'
    BY <1>1, <1>2, DrawnStays DEF BoardInv, FreshIds
  <1>4. ASSUME NEW u \in Users, NEW w \in QueuedWrites(u)'
        PROVE  Drawn(w.id)'
    <2>1. CASE w \in QueuedWrites(u)
      <3>1. w.id \in Id
        BY <1>1, <2>1, QueuedWriteType DEF Write
      <3> QED BY <1>1, <2>1, <3>1, DrawnStays DEF BoardInv, FreshIds
    <2> QED BY <2>1
  <1>5. CallsFresh'
    BY <1>1, CallsStayFresh DEF BoardInv, FreshIds, CallsFresh
  <1> QED BY <1>2, <1>3, <1>4, <1>5 DEF FreshIds, CallsFresh

----------------------------------------------------------------------------
(* A callback queues one batch at the end of its client's queue.            *)

\* In the queue of v after the step, entry j is an old one, or u's new batch.
LEMMA Appended ==
    ASSUME TypeOK, NEW u \in Users, NEW batch \in SUBSET Write,
           pending' = Queue(u, batch), NEW v \in Users
    PROVE  /\ \A j \in DOMAIN pending'[v] :
                 \/ j \in DOMAIN pending[v] /\ pending'[v][j] = pending[v][j]
                 \/ /\ v = u /\ pending'[v][j] = batch
                    /\ j = Len(pending[v]) + 1
                    /\ \A i \in DOMAIN pending[v] : i < j
           /\ \A j \in DOMAIN pending[v] :
                 j \in DOMAIN pending'[v] /\ pending'[v][j] = pending[v][j]
           /\ DOMAIN pending'[v] \subseteq Nat
  <1>1. pending[v] \in Seq(Batch) /\ pending \in [Users -> Seq(Batch)]
    BY DEF TypeOK
  <1>2. CASE batch = {} \/ v # u
    <2>1. pending'[v] = pending[v]
      BY <1>1, <1>2 DEF Queue
    <2> QED BY <1>1, <2>1
  <1>3. CASE batch # {} /\ v = u
    <2>1. batch \in Batch
      BY <1>3 DEF Batch
    <2>2. pending'[v] = Append(pending[v], batch)
      BY <1>1, <1>3 DEF Queue
    <2>3. /\ DOMAIN pending[v] = 1..Len(pending[v]) /\ Len(pending[v]) \in Nat
          /\ DOMAIN pending'[v] = 1..(Len(pending[v]) + 1)
          /\ \A j \in 1..Len(pending[v]) : pending'[v][j] = pending[v][j]
          /\ pending'[v][Len(pending[v]) + 1] = batch
      BY <1>1, <2>1, <2>2
    <2> QED BY <1>3, <2>3
  <1> QED BY <1>2, <1>3

LEMMA DeletesStay ==
    ASSUME TypeOK, NEW u \in Users, NEW batch \in SUBSET Write,
           pending' = Queue(u, batch), NEW v \in Users,
           NEW i, NEW id, DeletesAt(pending[v], i, id)
    PROVE  DeletesAt(pending'[v], i, id)
  BY Appended DEF DeletesAt

\* A batch that puts up nothing, of documents the client sees.
LEMMA QueueChanges ==
    ASSUME BoardInv, CounterInv', CallsGrow, NEW u \in Users,
           NEW batch \in SUBSET Write, pending' = Queue(u, batch),
           UNCHANGED <<docs, retired>>,
           \A w \in batch : w.op # "set" /\ w.id \in Visible(u)
    PROVE  BoardInv'
  <1>1. TypeOK /\ TypeOK'
    BY DEF BoardInv, CounterInv
  <1>2. ASSUME NEW v \in Users, NEW w \in QueuedWrites(v)'
        PROVE  w \in QueuedWrites(v) \/ (v = u /\ w \in batch)
    BY <1>1, <1>2, QueueAdds
  <1>3. FreshIds'
    <2>1. ASSUME NEW w \in batch
          PROVE  Drawn(w.id)'
      <3>1. w.id \in Id /\ Drawn(w.id)
        BY VisibleIsDrawn
      <3> QED BY <1>1, <3>1, DrawnStays
    <2> QED BY <1>1, <1>2, <2>1, IdsStayFresh
  <1>4. SetsAreNew'
    BY <1>2 DEF BoardInv, SetsAreNew, EmptyRow
  <1>5. ASSUME NEW v \in Users
        PROVE  /\ SetThenDelete(pending'[v])
               /\ OneAtATime(pending'[v])
               /\ AfterDeletion(v, DOMAIN docs)'
    <2> DEFINE q == pending[v]
               r == pending'[v]
    <2>1. SetThenDelete(q) /\ OneAtATime(q) /\ AfterDeletion(v, DOMAIN docs)
      BY DEF BoardInv, InOrderOfDeletion
    <2>2. ASSUME NEW j \in DOMAIN r, NEW x \in r[j], x.op = "set"
          PROVE  j \in DOMAIN q /\ x \in q[j]
      BY <1>1, <2>2, Appended
    <2>3. ASSUME NEW i, NEW id, DeletesAt(q, i, id)
          PROVE  DeletesAt(r, i, id) /\ i \in DOMAIN r
      BY <1>1, <2>3, DeletesStay DEF DeletesAt
    <2>4. ASSUME NEW i, NEW id, DeletesAt(r, i, id)
          PROVE  DeletesAt(q, i, id) \/ \A j \in DOMAIN q : j < i
      BY <1>1, <2>4, Appended DEF DeletesAt
    <2> HIDE DEF q, r
    <2>5. SetThenDelete(r)
      BY <2>1, <2>2, <2>4 DEF SetThenDelete, DeletesAt
    <2>6. OneAtATime(r)
      BY <2>1, <2>2, <2>3 DEF OneAtATime
    <2>7. AfterDeletion(v, DOMAIN docs)'
      <3>1. \A id \in DOMAIN docs : \A k \in DOMAIN r : \A w \in r[k] :
               id.creator = v /\ w.op = "set" /\ w.id.userId = id.userId =>
                   \E i \in DOMAIN r : i < k /\ DeletesAt(r, i, id)
        <4>1. \A id \in DOMAIN docs : \A k \in DOMAIN q : \A w \in q[k] :
               id.creator = v /\ w.op = "set" /\ w.id.userId = id.userId =>
                   \E i \in DOMAIN q : i < k /\ DeletesAt(q, i, id)
          BY <2>1 DEF AfterDeletion, q
        <4> QED BY <4>1, <2>2, <2>3
      <3> QED BY <3>1 DEF AfterDeletion, r
    <2> QED BY <2>5, <2>6, <2>7 DEF r
  <1> QED BY <1>3, <1>4, <1>5 DEF BoardInv, InOrderOfDeletion

----------------------------------------------------------------------------
(* createRecent.                                                            *)

\* What its client has up, or has still to put up, for an owner it creates a
\* recent for, it has queued for deletion: its query did not find it.
LEMMA MissingIsDeleted ==
    ASSUME TypeOK, NEW u \in Users, NEW members, NEW o \in Missing(u, members),
           NEW id, id.userId = o,
           id \in DOMAIN docs \/ \E w \in QueuedSets(u) : w.id = id
    PROVE  \E i \in DOMAIN pending[u] : DeletesAt(pending[u], i, id)
  <1>1. id \notin Visible(u)
    BY DEF Missing
  <1>2. Queued(u, {"delete"}, id) # {}
    BY <1>1 DEF Visible
  <1>3. PICK e \in Queued(u, {"delete"}, id) : TRUE
    BY <1>2
  <1>4. /\ e[1] \in DOMAIN pending[u] /\ e[2] \in pending[u][e[1]]
        /\ e[2] \in Write /\ e[2].op = "delete" /\ e[2].id = id
    BY QueuedIsWrite
  <1>5. e[2] = Delete(id)
    BY <1>4 DEF Write, Delete
  <1> QED BY <1>4, <1>5 DEF DeletesAt

\* The new documents: one for each owner, under an id of their own.
LEMMA NewIsNew ==
    ASSUME BoardInv, NEW u \in Users, NEW c \in calls[u], c.kind = "create",
           NEW o \in Missing(u, c.members)
    PROVE  LET w == NewRecent(u, o, c)
           IN  /\ w \in Write /\ w.op = "set" /\ w.id.userId = o
               /\ EmptyRow(u, w)
               /\ w.id.by = c.by /\ w.id.n = c.n /\ w.id.creator = u
               /\ ~Drawn(w.id)
  <1> DEFINE w == NewRecent(u, o, c)
  <1>1. c \in Call /\ TypeOK
    BY DEF BoardInv, CounterInv, TypeOK
  <1>2. w \in Write
    BY <1>1, NewRecentType
  <1>3. /\ w.op = "set" /\ w.id.userId = o /\ w.id.creator = u
        /\ w.id.by = c.by /\ w.id.n = c.n
        /\ w.doc.counter = 0 /\ w.doc.lastMessage = 0 /\ w.doc.members = c.members
    BY DEF NewRecent, SetData
  <1>4. o \in c.members
    BY DEF Missing
  <1> HIDE DEF w
  <1>5. EmptyRow(u, w) /\ ~Drawn(w.id)
    BY <1>3, <1>4 DEF EmptyRow, Drawn
  <1> QED BY <1>2, <1>3, <1>5 DEF w

LEMMA CreateKeeps ==
    ASSUME BoardInv, CounterInv', CallsGrow, NEW u \in Users, NEW c \in calls[u],
           Create(u, c)
    PROVE  BoardInv'
  <1> DEFINE batch == {NewRecent(u, o, c) : o \in Missing(u, c.members)}
  <1>1. /\ c.kind = "create" /\ pending' = Queue(u, batch)
        /\ UNCHANGED <<docs, retired, used>> /\ calls' = [calls EXCEPT ![u] = @ \ {c}]
    BY DEF Create, Answered
  <1>2. TypeOK /\ TypeOK' /\ c \in Call
    BY DEF BoardInv, CounterInv, TypeOK
  <1>3. ASSUME NEW w \in batch
        PROVE  /\ w \in Write /\ w.op = "set" /\ EmptyRow(u, w) /\ ~Drawn(w.id)
               /\ w.id \in Id /\ w.id.creator = u
               /\ w.id.by = c.by /\ w.id.n = c.n
               /\ w.id.userId \in Missing(u, c.members)
               /\ w = NewRecent(u, w.id.userId, c)
    <2>1. PICK o \in Missing(u, c.members) : w = NewRecent(u, o, c)
      OBVIOUS
    <2>2. /\ w \in Write /\ w.op = "set" /\ w.id.userId = o /\ EmptyRow(u, w)
          /\ w.id.by = c.by /\ w.id.n = c.n /\ w.id.creator = u /\ ~Drawn(w.id)
      BY <1>1, <2>1, NewIsNew
    <2>3. w.id \in Id
      BY <2>2 DEF Write
    <2> QED BY <2>1, <2>2, <2>3
  <1>4. batch \in SUBSET Write
    BY <1>3
  <1> HIDE DEF batch
  <1>5. ASSUME NEW v \in Users, NEW w \in QueuedWrites(v)'
        PROVE  w \in QueuedWrites(v) \/ (v = u /\ w \in batch)
    BY <1>1, <1>2, <1>4, <1>5, QueueAdds
  <1>6. FreshIds'
    <2>1. ASSUME NEW w \in batch
          PROVE  Drawn(w.id)'
      <3>1. w.id.by = c.by /\ w.id.n = c.n /\ w.id.creator = u
        BY <1>3
      <3>2. c.n < used[c.by]
        BY <1>1 DEF BoardInv, FreshIds
      <3>3. ASSUME NEW d \in calls'[u], d.kind = "create", d.by = c.by, d.n = c.n
            PROVE  FALSE
        <4>1. d \in calls[u] /\ d # c
          BY <1>1, <1>2, <3>3 DEF TypeOK
        <4> QED BY <1>1, <3>3, <4>1 DEF BoardInv, FreshIds
      <3> QED BY <1>1, <3>1, <3>2, <3>3 DEF Drawn
    <2> QED BY <1>1, <1>2, <1>5, <2>1, IdsStayFresh
  <1>7. SetsAreNew'
    <2> SUFFICES ASSUME NEW v \in Users, NEW w \in QueuedWrites(v)', w.op = "set"
                 PROVE  EmptyRow(v, w) /\ w.id \notin DOMAIN docs \cup retired
      BY <1>1 DEF SetsAreNew, EmptyRow
    <2>1. CASE w \in QueuedWrites(v)
      BY <2>1 DEF BoardInv, SetsAreNew
    <2>2. CASE v = u /\ w \in batch
      BY <1>3, <2>2 DEF BoardInv, FreshIds
    <2> QED BY <1>5, <2>1, <2>2
  <1>8. ASSUME NEW v \in Users
        PROVE  /\ SetThenDelete(pending'[v])
               /\ OneAtATime(pending'[v])
               /\ AfterDeletion(v, DOMAIN docs)'
    <2> DEFINE q == pending[v]
               r == pending'[v]
    <2>1. SetThenDelete(q) /\ OneAtATime(q) /\ AfterDeletion(v, DOMAIN docs)
      BY DEF BoardInv, InOrderOfDeletion
    <2>2. ASSUME NEW j \in DOMAIN r, NEW x \in r[j]
          PROVE  \/ j \in DOMAIN q /\ x \in q[j]
                 \/ /\ v = u /\ x \in batch
                    /\ j = Len(q) + 1 /\ \A i \in DOMAIN q : i < j
      BY <1>1, <1>2, <1>4, Appended
    <2>3. ASSUME NEW i, NEW id, DeletesAt(q, i, id)
          PROVE  DeletesAt(r, i, id) /\ i \in DOMAIN r
      BY <1>1, <1>2, <1>4, <2>3, DeletesStay DEF DeletesAt
    <2>4. ASSUME NEW i, NEW id, DeletesAt(r, i, id)
          PROVE  DeletesAt(q, i, id)
      <3>1. Delete(id).op = "delete" /\ i \in DOMAIN r /\ Delete(id) \in r[i]
        BY <2>4 DEF DeletesAt, Delete
      <3>2. Delete(id) \notin batch
        BY <1>3, <3>1
      <3> QED BY <2>2, <3>1, <3>2 DEF DeletesAt
    <2>5. ASSUME NEW x \in batch, v = u, NEW i
          PROVE  ~DeletesAt(q, i, x.id)
      <3>1. SUFFICES ASSUME DeletesAt(q, i, x.id) PROVE FALSE
        OBVIOUS
      <3>2. Delete(x.id) \in QueuedWrites(u)
        BY <2>5, <3>1 DEF DeletesAt, QueuedWrites
      <3>3. Drawn(Delete(x.id).id)
        BY <3>2 DEF BoardInv, FreshIds
      <3>4. Delete(x.id).id = x.id
        BY DEF Delete
      <3> QED BY <1>3, <3>3, <3>4
    <2>6. ASSUME NEW x \in batch, v = u, NEW id, id.userId = x.id.userId,
                 id \in DOMAIN docs \/ \E j \in DOMAIN q : \E w \in q[j] : w.op = "set" /\ w.id = id
          PROVE  \E i \in DOMAIN q : DeletesAt(q, i, id)
      <3>1. x.id.userId \in Missing(u, c.members)
        BY <1>3
      <3>2. id \in DOMAIN docs \/ \E w \in QueuedSets(u) : w.id = id
        BY <2>6 DEF QueuedSets
      <3> QED BY <1>2, <2>6, <3>1, <3>2, MissingIsDeleted
    <2> HIDE DEF q, r
    <2>7. SetThenDelete(r)
      <3> SUFFICES ASSUME NEW j \in DOMAIN r, NEW i \in DOMAIN r, NEW x \in r[j],
                          x.op = "set", DeletesAt(r, i, x.id)
                   PROVE  j < i
        BY DEF SetThenDelete
      <3>1. DeletesAt(q, i, x.id)
        BY <2>4
      <3>2. j \in DOMAIN q /\ x \in q[j]
        BY <2>2, <2>5, <3>1
      <3> QED BY <2>1, <3>1, <3>2 DEF SetThenDelete, DeletesAt
    <2>8. OneAtATime(r)
      <3> SUFFICES ASSUME NEW j \in DOMAIN r, NEW k \in DOMAIN r, NEW x \in r[j], NEW w \in r[k],
                          x.op = "set", w.op = "set", x.id.userId = w.id.userId
                   PROVE  /\ j = k => x = w
                          /\ j < k => \E i \in DOMAIN r : j < i /\ i < k /\ DeletesAt(r, i, x.id)
        BY DEF OneAtATime
      <3>0. DOMAIN q \subseteq Nat /\ DOMAIN r \subseteq Nat
        BY <1>1, <1>2, <1>4, Appended DEF q, r
      <3>1. CASE j \in DOMAIN q /\ x \in q[j] /\ k \in DOMAIN q /\ w \in q[k]
        BY <2>1, <2>3, <3>1 DEF OneAtATime
      <3>2. CASE v = u /\ x \in batch /\ j = Len(q) + 1 /\ w \in batch /\ k = Len(q) + 1
        <4>1. x = w
          BY <1>3, <3>2
        <4> QED BY <3>0, <3>2, <4>1
      <3>3. CASE /\ j \in DOMAIN q /\ x \in q[j]
                 /\ v = u /\ w \in batch /\ \A i \in DOMAIN q : i < k
        <4>1. PICK i \in DOMAIN q : DeletesAt(q, i, x.id)
          BY <2>6, <3>3
        <4>2. j < i
          BY <2>1, <3>3, <4>1 DEF SetThenDelete
        <4>3. i < k /\ j # k
          BY <3>0, <3>3
        <4> QED BY <2>3, <4>1, <4>2, <4>3
      <3>4. CASE /\ k \in DOMAIN q /\ w \in q[k]
                 /\ v = u /\ x \in batch /\ \A i \in DOMAIN q : i < j
        BY <3>0, <3>4
      <3> QED BY <2>2, <3>1, <3>2, <3>3, <3>4
    <2>9. AfterDeletion(v, DOMAIN docs)'
      <3> SUFFICES ASSUME NEW id \in DOMAIN docs, NEW k \in DOMAIN r, NEW w \in r[k],
                          id.creator = v, w.op = "set", w.id.userId = id.userId
                   PROVE  \E i \in DOMAIN r : i < k /\ DeletesAt(r, i, id)
        BY <1>1 DEF AfterDeletion, r
      <3>1. CASE k \in DOMAIN q /\ w \in q[k]
        <4>1. \E i \in DOMAIN q : i < k /\ DeletesAt(q, i, id)
          BY <2>1, <3>1 DEF AfterDeletion, q
        <4> QED BY <2>3, <4>1
      <3>2. CASE v = u /\ w \in batch /\ \A i \in DOMAIN q : i < k
        <4>1. PICK i \in DOMAIN q : DeletesAt(q, i, id)
          BY <2>6, <3>2
        <4> QED BY <2>3, <3>2, <4>1
      <3> QED BY <2>2, <3>1, <3>2
    <2> QED BY <2>7, <2>8, <2>9 DEF r
  <1> QED BY <1>1, <1>6, <1>7, <1>8 DEF BoardInv, InOrderOfDeletion

----------------------------------------------------------------------------
(* The server.                                                              *)

\* Write w is taken from the first batch of q, which is then r: entry j of r is
\* entry j + s of q, without w, and s is 1 if w was the last of its batch.
Taken(q, r, w, s) ==
    /\ DOMAIN q \subseteq Nat \ {0} /\ DOMAIN r \subseteq Nat \ {0}
    /\ s \in {0, 1}
    /\ 1 \in DOMAIN q /\ w \in q[1]
    /\ \A j \in DOMAIN r : j + s \in DOMAIN q /\ r[j] \subseteq q[j + s]
    /\ \A i \in DOMAIN q : \A x \in q[i] :
          i # 1 \/ x # w => i - s \in DOMAIN r /\ x \in r[i - s]
    /\ s = 0 => w \notin r[1]

LEMMA ServeShape ==
    ASSUME TypeOK, NEW u \in Users, Serve(u)
    PROVE  /\ \E w \in Write : \E s \in {0, 1} :
                 Apply(w) /\ Taken(pending[u], pending'[u], w, s)
           /\ \A v \in Users \ {u} : pending'[v] = pending[v]
  <1> DEFINE q == pending[u]
             r == pending'[u]
  <1>1. q \in Seq(Batch) /\ q # <<>>
    BY DEF Serve, TypeOK
  <1>2. PICK w \in Head(q) :
           /\ Apply(w)
           /\ pending' = [pending EXCEPT ![u] =
                IF Head(@) = {w} THEN Tail(@) ELSE <<Head(@) \ {w}>> \o Tail(@)]
    BY DEF Serve
  <1>3. /\ Head(q) = q[1] /\ Head(q) \in Batch /\ Tail(q) \in Seq(Batch)
        /\ DOMAIN q = 1..Len(q) /\ Len(q) \in Nat /\ Len(q) >= 1
        /\ Len(Tail(q)) = Len(q) - 1
        /\ \A i \in 1..Len(q) - 1 : Tail(q)[i] = q[i + 1]
    BY <1>1
  <1>4. w \in Write
    BY <1>2, <1>3 DEF Batch
  <1>5. r = IF Head(q) = {w} THEN Tail(q) ELSE <<Head(q) \ {w}>> \o Tail(q)
    BY <1>2 DEF TypeOK
  <1>6. CASE Head(q) = {w}
    <2>1. r = Tail(q) /\ DOMAIN r = 1..Len(q) - 1
      BY <1>3, <1>5, <1>6
    <2> HIDE DEF q, r
    <2>2. Taken(q, r, w, 1)
      BY <1>2, <1>3, <1>6, <2>1 DEF Taken
    <2> QED BY <1>2, <1>4, <2>2 DEF q, r, TypeOK
  <1>7. CASE Head(q) # {w}
    <2> DEFINE h == Head(q) \ {w}
               t == Tail(q)
    <2>1. r = <<h>> \o t /\ t \in Seq(Batch) /\ h \subseteq q[1] /\ w \notin h
      BY <1>3, <1>5, <1>7
    <2>2. Len(t) = Len(q) - 1 /\ \A i \in 1..Len(q) - 1 : t[i] = q[i + 1]
      BY <1>3
    <2>3. \A x \in q[1] : x # w => x \in h
      BY <1>3
    <2> HIDE DEF h, t, q, r
    <2>4. /\ Len(<<h>> \o t) = Len(t) + 1
          /\ DOMAIN (<<h>> \o t) = 1..(Len(t) + 1)
          /\ (<<h>> \o t)[1] = h
          /\ \A i \in 2..Len(t) + 1 : (<<h>> \o t)[i] = t[i - 1]
      BY <2>1
    <2>5. DOMAIN r = DOMAIN q /\ r[1] = h
      <3>1. Len(t) + 1 = Len(q)
        BY <1>3, <2>2
      <3>2. DOMAIN r = 1..(Len(t) + 1)
        BY <2>1, <2>4
      <3>3. DOMAIN r = 1..Len(q)
        BY <3>1, <3>2
      <3>4. DOMAIN q = 1..Len(q)
        BY <1>3
      <3>5. r[1] = h
        BY <2>1, <2>4
      <3> QED BY <3>3, <3>4, <3>5
    <2>6. ASSUME NEW i \in DOMAIN q, i # 1
          PROVE  r[i] = q[i]
      <3>1. i - 1 \in 1..Len(q) - 1 /\ i \in 2..Len(t) + 1 /\ (i - 1) + 1 = i
        BY <1>3, <2>2, <2>6
      <3>2. r[i] = t[i - 1] /\ t[i - 1] = q[(i - 1) + 1]
        BY <2>1, <2>2, <2>4, <3>1
      <3> QED BY <3>1, <3>2
    <2>7. ASSUME NEW j \in DOMAIN r
          PROVE  j + 0 \in DOMAIN q /\ r[j] \subseteq q[j + 0]
      <3>1. j + 0 = j /\ j \in DOMAIN q
        BY <1>3, <2>5
      <3> QED BY <2>1, <2>5, <2>6, <3>1
    <2>8. ASSUME NEW i \in DOMAIN q, NEW x \in q[i], i # 1 \/ x # w
          PROVE  i - 0 \in DOMAIN r /\ x \in r[i - 0]
      <3>1. i - 0 = i /\ i \in DOMAIN r
        BY <1>3, <2>5
      <3> QED BY <2>3, <2>5, <2>6, <2>8, <3>1
    <2>9. 1 \in DOMAIN q /\ w \in q[1] /\ w \notin r[1] /\ DOMAIN q \subseteq Nat \ {0}
      <3>1. DOMAIN q = 1..Len(q) /\ Len(q) \in Nat /\ Len(q) >= 1
        BY <1>3
      <3>2. 1 \in DOMAIN q /\ DOMAIN q \subseteq Nat \ {0}
        BY <3>1
      <3>3. w \in q[1]
        BY <1>3
      <3>4. w \notin r[1]
        BY <2>1, <2>5
      <3> QED BY <3>2, <3>3, <3>4
    <2>10. Taken(q, r, w, 0)
      BY <2>5, <2>7, <2>8, <2>9 DEF Taken
    <2> QED BY <1>2, <1>4, <2>10 DEF q, r, TypeOK
  <1> QED BY <1>6, <1>7

\* What the server does with a write, in terms of the board.
LEMMA Applying ==
    ASSUME TypeOK, docs = [id \in DOMAIN docs |-> docs[id]],
           NEW u \in Users, Serve(u), NEW w \in Write, Apply(w)
    PROVE  /\ docs' = [id \in DOMAIN docs' |-> docs'[id]]
           /\ retired' = retired \cup (DOMAIN docs \ DOMAIN docs')
           /\ w.op = "set" =>
                 DOMAIN docs' = DOMAIN docs \cup {w.id}
           /\ w.op \in Patches => DOMAIN docs' = DOMAIN docs
           /\ w.op = "delete" => DOMAIN docs' = DOMAIN docs \ {w.id}
           /\ w.op \in {"set", "delete"} \cup Patches
  <1>1. w.op \in {"set", "delete"} \cup Patches
    BY DEF Write, Patches
  <1>2. retired' = retired \cup (DOMAIN docs \ DOMAIN docs')
    BY DEF Serve
  <1>3. CASE ApplySet(w)
    BY <1>1, <1>2, <1>3 DEF ApplySet, Patches
  <1>4. CASE ApplyPatch(w)
    BY <1>1, <1>2, <1>4 DEF ApplyPatch, Patches
  <1>5. CASE RejectPatch(w)
    BY <1>1, <1>2, <1>5 DEF RejectPatch, Patches
  <1>6. CASE ApplyDelete(w)
    BY <1>1, <1>2, <1>6 DEF ApplyDelete, Patches
  <1> QED BY <1>3, <1>4, <1>5, <1>6 DEF Apply

\* No two sets in one queue are of the same document.
LEMMA SetsDiffer ==
    ASSUME NEW q, SetThenDelete(q), OneAtATime(q), DOMAIN q \subseteq Nat,
           NEW j \in DOMAIN q, NEW k \in DOMAIN q, NEW v \in q[j], NEW w \in q[k],
           v.op = "set", w.op = "set", v.id = w.id, j <= k
    PROVE  j = k /\ v = w
  <1>1. CASE j < k
    <2>1. PICK i \in DOMAIN q : i < k /\ DeletesAt(q, i, w.id)
      BY <1>1 DEF OneAtATime
    <2>2. k < i
      BY <2>1 DEF SetThenDelete
    <2> QED BY <2>1, <2>2
  <1>2. CASE j = k
    BY <1>2 DEF OneAtATime
  <1> QED BY <1>1, <1>2

LEMMA ServeKeeps ==
    ASSUME BoardInv, CounterInv', CallsGrow, NEW u \in Users, Serve(u)
    PROVE  BoardInv'
  <1>1. TypeOK /\ TypeOK'
    BY DEF BoardInv, CounterInv
  <1>2. PICK w \in Write, s \in {0, 1} :
           Apply(w) /\ Taken(pending[u], pending'[u], w, s)
    BY <1>1, ServeShape
  <1>3. \A v \in Users \ {u} : pending'[v] = pending[v]
    BY <1>1, ServeShape
  <1>4. /\ docs' = [id \in DOMAIN docs' |-> docs'[id]]
        /\ DOMAIN docs' \cup retired' \subseteq DOMAIN docs \cup retired \cup {w.id}
        /\ w.op # "set" => DOMAIN docs' \cup retired' \subseteq DOMAIN docs \cup retired
        /\ DOMAIN docs' \subseteq DOMAIN docs \cup {w.id}
        /\ w.op # "set" => DOMAIN docs' \subseteq DOMAIN docs
        /\ w.op = "delete" => w.id \notin DOMAIN docs'
    BY <1>1, <1>2, Applying DEF BoardInv, Patches
  <1>5. w \in QueuedWrites(u)
    BY <1>2 DEF Taken, QueuedWrites
  <1>6. ASSUME NEW v \in Users
        PROVE  QueuedWrites(v)' \subseteq QueuedWrites(v)
    BY <1>1, ServeTakes
  <1>7. w.op = "set" => w.id.creator = u
    BY <1>5 DEF BoardInv, SetsAreNew, EmptyRow
  <1>8. FreshIds'
    <2>1. w.id \in Id /\ Drawn(w.id)
      BY <1>2, <1>5 DEF BoardInv, FreshIds, Write
    <2>2. Drawn(w.id)'
      BY <1>1, <2>1, DrawnStays
    <2> QED BY <1>1, <1>4, <1>6, <2>2, IdsStayFresh
  <1> DEFINE q == pending[u]
             r == pending'[u]
  <1>9. SetThenDelete(q) /\ OneAtATime(q) /\ AfterDeletion(u, DOMAIN docs)
    BY DEF BoardInv, InOrderOfDeletion
  <1>10. Taken(q, r, w, s)
    BY <1>2
  <1>11. \A id \in DOMAIN docs : \A k \in DOMAIN q : \A x \in q[k] :
            id.creator = u /\ x.op = "set" /\ x.id.userId = id.userId =>
                \E i \in DOMAIN q : i < k /\ DeletesAt(q, i, id)
    BY <1>9 DEF AfterDeletion
  <1>12. ASSUME NEW x \in QueuedWrites(u)', x.op = "set"
         PROVE  \E j \in DOMAIN r : x \in r[j]
    BY <1>12 DEF QueuedWrites
  <1> HIDE DEF q, r
  \* No other entry of the queue is w itself ...
  <1>13. ASSUME NEW j \in DOMAIN r, NEW x \in r[j], w.op = "set", x.op = "set"
         PROVE  /\ j + s \in DOMAIN q /\ x \in q[j + s]
                /\ x.id # w.id
                /\ 1 <= j + s
                /\ j + s = 1 => x # w
    <2>1. /\ j + s \in DOMAIN q /\ x \in q[j + s] /\ j \in Nat \ {0}
          /\ 1 <= j + s /\ (j + s = 1 => x # w)
      BY <1>10 DEF Taken
    <2>2. 1 \in DOMAIN q /\ w \in q[1] /\ DOMAIN q \subseteq Nat
      BY <1>10 DEF Taken
    <2>3. x.id # w.id
      BY <1>9, <1>13, <2>1, <2>2, SetsDiffer
    <2> QED BY <2>1, <2>3
  \* ... and a deletion behind the first batch, or not w, stays.
  <1>14. ASSUME NEW i \in DOMAIN q, NEW id, DeletesAt(q, i, id), i # 1 \/ Delete(id) # w
         PROVE  i - s \in DOMAIN r /\ DeletesAt(r, i - s, id)
    BY <1>10, <1>14 DEF Taken, DeletesAt
  <1>15. SetsAreNew'
    <2> SUFFICES ASSUME NEW v \in Users, NEW x \in QueuedWrites(v)', x.op = "set"
                 PROVE  EmptyRow(v, x) /\ x.id \notin DOMAIN docs' \cup retired'
      BY DEF SetsAreNew, EmptyRow
    <2>1. EmptyRow(v, x) /\ x.id \notin DOMAIN docs \cup retired
      BY <1>6 DEF BoardInv, SetsAreNew
    <2>2. w.op = "set" => x.id # w.id
      <3>1. CASE v = u
        BY <1>12, <1>13, <3>1
      <3>2. CASE v # u
        BY <1>7, <2>1, <3>2 DEF EmptyRow
      <3> QED BY <3>1, <3>2
    <2> QED BY <1>4, <2>1, <2>2
  <1>16. ASSUME NEW v \in Users, v # u
         PROVE  /\ SetThenDelete(pending'[v])
                /\ OneAtATime(pending'[v])
                /\ AfterDeletion(v, DOMAIN docs)'
    <2>1. /\ SetThenDelete(pending[v]) /\ OneAtATime(pending[v])
          /\ AfterDeletion(v, DOMAIN docs)
      BY DEF BoardInv, InOrderOfDeletion
    <2>2. pending'[v] = pending[v]
      BY <1>3, <1>16
    <2>3. \A id \in DOMAIN docs' : id.creator = v => id \in DOMAIN docs
      BY <1>4, <1>7, <1>16
    <2> QED BY <2>1, <2>2, <2>3 DEF AfterDeletion
  <1>17. SetThenDelete(r)
    <2> SUFFICES ASSUME NEW j \in DOMAIN r, NEW i \in DOMAIN r, NEW x \in r[j],
                        x.op = "set", DeletesAt(r, i, x.id)
                 PROVE  j < i
      BY DEF SetThenDelete
    <2>1. /\ j + s \in DOMAIN q /\ x \in q[j + s] /\ j \in Nat /\ i \in Nat
          /\ i + s \in DOMAIN q /\ DeletesAt(q, i + s, x.id)
      BY <1>10 DEF Taken, DeletesAt
    <2>2. j + s < i + s
      BY <1>9, <2>1 DEF SetThenDelete
    <2> QED BY <2>1, <2>2
  <1>18. OneAtATime(r)
    <2> SUFFICES ASSUME NEW j \in DOMAIN r, NEW k \in DOMAIN r, NEW x \in r[j], NEW y \in r[k],
                        x.op = "set", y.op = "set", x.id.userId = y.id.userId
                 PROVE  /\ j = k => x = y
                        /\ j < k => \E i \in DOMAIN r : j < i /\ i < k /\ DeletesAt(r, i, x.id)
      BY DEF OneAtATime
    <2>1. /\ j + s \in DOMAIN q /\ x \in q[j + s] /\ j \in Nat \ {0}
          /\ k + s \in DOMAIN q /\ y \in q[k + s] /\ k \in Nat \ {0}
          /\ DOMAIN q \subseteq Nat
      BY <1>10 DEF Taken
    <2>2. j = k => x = y
      BY <1>9, <2>1 DEF OneAtATime
    <2>3. ASSUME j < k
          PROVE  \E i \in DOMAIN r : j < i /\ i < k /\ DeletesAt(r, i, x.id)
      <3>1. j + s < k + s
        BY <2>1, <2>3
      <3>2. PICK i \in DOMAIN q : j + s < i /\ i < k + s /\ DeletesAt(q, i, x.id)
        BY <1>9, <2>1, <3>1 DEF OneAtATime
      <3>3. i # 1 /\ j < i - s /\ i - s < k
        BY <2>1, <3>2
      <3>4. i - s \in DOMAIN r /\ DeletesAt(r, i - s, x.id)
        BY <1>14, <3>2, <3>3
      <3> QED BY <3>3, <3>4
    <2> QED BY <2>2, <2>3
  <1>19. AfterDeletion(u, DOMAIN docs)'
    <2> SUFFICES ASSUME NEW id \in DOMAIN docs', NEW k \in DOMAIN r, NEW x \in r[k],
                        id.creator = u, x.op = "set", x.id.userId = id.userId
                 PROVE  \E i \in DOMAIN r : i < k /\ DeletesAt(r, i, id)
      BY DEF AfterDeletion, r
    <2>1. /\ k + s \in DOMAIN q /\ x \in q[k + s] /\ k \in Nat \ {0}
          /\ DOMAIN q \subseteq Nat \ {0}
      BY <1>10 DEF Taken
    <2>2. CASE id \in DOMAIN docs
      <3>1. PICK i \in DOMAIN q : i < k + s /\ DeletesAt(q, i, id)
        BY <1>11, <2>1, <2>2
      <3>2. Delete(id) # w
        BY <1>4 DEF Delete
      <3>3. i - s \in DOMAIN r /\ DeletesAt(r, i - s, id) /\ i - s < k
        BY <1>14, <2>1, <3>1, <3>2
      <3> QED BY <3>3
    <2>3. CASE id \notin DOMAIN docs
      <3>1. w.op = "set" /\ id = w.id
        BY <1>4, <2>3
      <3>2. 1 \in DOMAIN q /\ w \in q[1]
        BY <1>10 DEF Taken
      <3>3. k + s # 1
        BY <1>9, <1>13, <2>1, <3>1, <3>2 DEF OneAtATime
      <3>4. 1 < k + s
        BY <2>1, <3>3
      <3>5. PICK i \in DOMAIN q : 1 < i /\ i < k + s /\ DeletesAt(q, i, id)
        BY <1>9, <2>1, <3>1, <3>2, <3>4 DEF OneAtATime
      <3>6. i - s \in DOMAIN r /\ DeletesAt(r, i - s, id) /\ i - s < k
        BY <1>14, <2>1, <3>5
      <3> QED BY <3>6
    <2> QED BY <2>2, <2>3
  <1> QED BY <1>4, <1>8, <1>15, <1>16, <1>17, <1>18, <1>19
       DEF BoardInv, InOrderOfDeletion, r

----------------------------------------------------------------------------
(* The invariant, and the refinement.                                       *)

LEMMA BoardInvInit == Init => BoardInv
  <1> SUFFICES ASSUME Init PROVE BoardInv
    OBVIOUS
  <1>1. CounterInv
    BY InitType DEF Init, CounterInv, QueuedWrites
  <1>2. DOMAIN docs = {} /\ docs = [id \in DOMAIN docs |-> docs[id]]
    BY DEF Init
  <1>3. /\ \A u \in Users : pending[u] = <<>> /\ calls[u] = {}
        /\ retired = {}
    BY DEF Init
  <1>4. \A u \in Users : DOMAIN pending[u] = {} /\ QueuedWrites(u) = {}
    <2> SUFFICES ASSUME NEW u \in Users
                 PROVE  DOMAIN pending[u] = {} /\ QueuedWrites(u) = {}
      OBVIOUS
    <2>1. pending[u] = <<>>
      BY <1>3
    <2>2. DOMAIN pending[u] = {}
      BY <2>1
    <2>3. QueuedWrites(u) = UNION {pending[u][i] : i \in DOMAIN pending[u]}
      BY DEF QueuedWrites
    <2> QED BY <2>2, <2>3
  <1>5. FreshIds /\ SetsAreNew
    BY <1>2, <1>3, <1>4 DEF FreshIds, SetsAreNew
  <1>6. InOrderOfDeletion
    BY <1>2, <1>4 DEF InOrderOfDeletion, SetThenDelete, OneAtATime, AfterDeletion
  <1> QED BY <1>1, <1>2, <1>5, <1>6 DEF BoardInv

LEMMA BoardInvNext == BoardInv /\ [Next]_vars => BoardInv'
  <1> SUFFICES ASSUME BoardInv, [Next]_vars
               PROVE  BoardInv'
    OBVIOUS
  <1>1. TypeOK /\ CounterInv' /\ CallsGrow
    BY CounterNext, NextCallsGrow DEF BoardInv, CounterInv
  <1>2. TypeOK'
    BY <1>1 DEF CounterInv
  <1>3. ASSUME UNCHANGED <<docs, pending, retired>>
        PROVE  BoardInv'
    <2>1. FreshIds'
      BY <1>1, <1>2, <1>3, IdsStayFresh DEF QueuedWrites
    <2> QED BY <1>1, <1>3, <2>1
        DEF BoardInv, SetsAreNew, EmptyRow, QueuedWrites, InOrderOfDeletion, AfterDeletion
  <1>4. ASSUME NEW u \in Users, NEW id \in Rows(u), DeleteRow(u, id)
        PROVE  BoardInv'
    <2>1. id \in Visible(u) /\ id \in Id
      BY <1>1, VisibleType DEF Rows
    <2>2. {Delete(id)} \in SUBSET Write
      BY <2>1 DEF Delete, Write
    <2>3. \A w \in {Delete(id)} : w.op # "set" /\ w.id \in Visible(u)
      BY <2>1 DEF Delete
    <2>4. pending' = Queue(u, {Delete(id)}) /\ UNCHANGED <<docs, retired>>
      BY <1>4 DEF DeleteRow
    <2> QED BY <1>1, <2>2, <2>3, <2>4, QueueChanges
  <1>5. ASSUME NEW u \in Users, Operation(u)
        PROVE  BoardInv'
    <2>1. CASE UNCHANGED <<docs, pending, retired>>
      BY <1>3, <2>1
    <2> QED BY <1>4, <1>5, <2>1
        DEF Operation, Start, Send, Back, Block, Kill, OpenRow, Mute
  <1>6. ASSUME NEW u \in Users, NEW c \in calls[u], Create(u, c)
        PROVE  BoardInv'
    BY <1>1, <1>6, CreateKeeps
  <1>7. ASSUME NEW u \in Users, NEW c \in calls[u], Update(u, c)
        PROVE  BoardInv'
    <2> DEFINE batch == {UpdateRecentItem(u, id, c.message) : id \in Visible(u)}
    <2>1. ASSUME NEW w \in batch
          PROVE  w \in Write /\ w.op # "set" /\ w.id \in Visible(u)
      <3>1. PICK id \in Visible(u) : w = UpdateRecentItem(u, id, c.message)
        OBVIOUS
      <3> DEFINE n == CounterSeen(u, id) + IF id.userId # u THEN 1 ELSE 0
      <3>2. id \in Id /\ n \in Nat
        BY <1>1, VisibleType, CounterSeenType
      <3>3. c.message \in Nat
        <4>1. c \in Call /\ c.kind = "update"
          BY <1>1, <1>7 DEF TypeOK, Update
        <4> QED BY <4>1 DEF Call
      <3>4. w = [op |-> "message", id |-> id, lastMessage |-> c.message, counter |-> n]
        BY <3>1 DEF UpdateRecentItem, UpdateMessage
      <3> HIDE DEF n
      <3> QED BY <3>2, <3>3, <3>4 DEF Write
    <2>2. pending' = Queue(u, batch) /\ UNCHANGED <<docs, retired>>
      BY <1>7 DEF Update
    <2>3. batch \in SUBSET Write
      BY <2>1
    <2>4. \A w \in batch : w.op # "set" /\ w.id \in Visible(u)
      BY <2>1
    <2> HIDE DEF batch
    <2> QED BY <1>1, <2>2, <2>3, <2>4, QueueChanges
  <1>8. ASSUME NEW u \in Users, NEW c \in calls[u], Clear(u, c)
        PROVE  BoardInv'
    <2> DEFINE batch == {UpdateCounter(id, 0) : id \in {i \in Visible(u) : i.userId = u}}
    <2>1. batch \in SUBSET Write
      BY <1>1, VisibleType DEF UpdateCounter, Write
    <2>2. \A w \in batch : w.op # "set" /\ w.id \in Visible(u)
      BY DEF UpdateCounter
    <2>3. pending' = Queue(u, batch) /\ UNCHANGED <<docs, retired>>
      BY <1>8 DEF Clear
    <2> HIDE DEF batch
    <2> QED BY <1>1, <2>1, <2>2, <2>3, QueueChanges
  <1>9. ASSUME NEW u \in Users, NEW c \in calls[u], Push(u, c)
        PROVE  BoardInv'
    <2> DEFINE batch == {UpdatePush(id, c.list) : id \in Visible(u)}
    <2>1. c.list \in SUBSET Users
      <3>1. c \in Call /\ c.kind = "push"
        BY <1>1, <1>9 DEF TypeOK, Push
      <3> QED BY <3>1 DEF Call
    <2>2. batch \in SUBSET Write
      BY <1>1, <2>1, VisibleType DEF UpdatePush, Write
    <2>3. \A w \in batch : w.op # "set" /\ w.id \in Visible(u)
      BY DEF UpdatePush
    <2>4. pending' = Queue(u, batch) /\ UNCHANGED <<docs, retired>>
      BY <1>9 DEF Push
    <2> HIDE DEF batch
    <2> QED BY <1>1, <2>2, <2>3, <2>4, QueueChanges
  <1>10. ASSUME NEW u \in Users, NEW c \in calls[u], Erase(u, c)
         PROVE  BoardInv'
    <2> DEFINE batch == {Delete(id) : id \in Visible(u)}
    <2>1. batch \in SUBSET Write
      BY <1>1, VisibleType DEF Delete, Write
    <2>2. \A w \in batch : w.op # "set" /\ w.id \in Visible(u)
      BY DEF Delete
    <2>3. pending' = Queue(u, batch) /\ UNCHANGED <<docs, retired>>
      BY <1>10 DEF Erase
    <2> HIDE DEF batch
    <2> QED BY <1>1, <2>1, <2>2, <2>3, QueueChanges
  <1>11. ASSUME NEW u \in Users, NEW c \in calls[u], Fail(u, c)
         PROVE  BoardInv'
    BY <1>3, <1>11 DEF Fail
  <1>12. ASSUME NEW u \in Users, Serve(u)
         PROVE  BoardInv'
    BY <1>1, <1>12, ServeKeeps
  <1>13. CASE UNCHANGED vars
    BY <1>3, <1>13 DEF vars
  <1> QED BY <1>5, <1>6, <1>7, <1>8, <1>9, <1>10, <1>11, <1>12, <1>13
          DEF Next, Callback

\* A step of the server is one of the board, or none.
LEMMA ServeIsOnBoard ==
    ASSUME BoardInv, BoardInv', NEW u \in Users, Serve(u)
    PROVE  [Board!Next]_(Board!vars)
  <1>1. TypeOK /\ docs = [id \in DOMAIN docs |-> docs[id]]
    BY DEF BoardInv, CounterInv
  <1>2. PICK w \in Write, s \in {0, 1} :
           Apply(w) /\ Taken(pending[u], pending'[u], w, s)
    BY <1>1, ServeShape
  <1>3. w \in QueuedWrites(u) /\ 1 \in DOMAIN pending[u] /\ w \in pending[u][1]
    BY <1>2 DEF Taken, QueuedWrites
  <1>4. announced' = announced /\ retired' = retired \cup (DOMAIN docs \ DOMAIN docs')
    BY DEF Serve
  <1>5. CASE ApplySet(w)
    <2>1. /\ DOMAIN docs' = DOMAIN docs \cup {w.id} /\ docs'[w.id] = w.doc
          /\ \A id \in DOMAIN docs \ {w.id} : docs'[id] = docs[id]
          /\ w.op = "set"
      BY <1>5 DEF ApplySet
    <2>2. EmptyRow(u, w) /\ w.id \notin DOMAIN docs \cup retired /\ w.id \in Id
      BY <1>2, <1>3, <2>1 DEF BoardInv, SetsAreNew, Write
    <2>3. ASSUME NEW i \in DOMAIN docs, i.creator = w.id.creator, i.userId = w.id.userId
          PROVE  FALSE
      <3>1. i.creator = u
        BY <2>2, <2>3 DEF EmptyRow
      <3>2. AfterDeletion(u, DOMAIN docs)
        BY DEF BoardInv, InOrderOfDeletion
      <3>3. \E k \in DOMAIN pending[u] : k < 1
        BY <1>3, <2>1, <2>3, <3>1, <3>2 DEF AfterDeletion
      <3>4. DOMAIN pending[u] \subseteq Nat \ {0}
        BY <1>2 DEF Taken
      <3> QED BY <3>3, <3>4
    <2>4. retired' = retired
      BY <1>4, <2>1
    <2>5. Board!PutUp(w.id)
      BY <1>4, <2>1, <2>2, <2>3, <2>4 DEF Board!PutUp, EmptyRow
    <2> QED BY <2>1, <2>5 DEF Board!Next
  <1>6. CASE ApplyPatch(w)
    <2>1. /\ w.id \in DOMAIN docs /\ DOMAIN docs' = DOMAIN docs
          /\ docs'[w.id] = Patched(docs[w.id], w) /\ w.op \in Patches
          /\ \A id \in DOMAIN docs \ {w.id} : docs'[id] = docs[id]
      BY <1>6 DEF ApplyPatch
    <2>2. docs[w.id] \in Recent
      BY <1>1, <2>1 DEF TypeOK
    <2>3. /\ docs'[w.id].members = docs[w.id].members
          /\ docs'[w.id].withUser = docs[w.id].withUser
      BY <2>1, <2>2 DEF Patched, Patches, Recent
    <2>4. docs'[w.id].counter <= announced[w.id.userId]
      BY <1>4, <2>1 DEF BoardInv, CounterInv
    <2>5. retired' = retired
      BY <1>4, <2>1
    <2>6. Board!Change(w.id)
      BY <1>4, <2>1, <2>3, <2>4, <2>5 DEF Board!Change
    <2> QED BY <2>1, <2>6 DEF Board!Next
  <1>7. CASE RejectPatch(w)
    BY <1>4, <1>7 DEF RejectPatch, Board!vars
  <1>8. CASE ApplyDelete(w)
    <2>1. docs' = [id \in DOMAIN docs \ {w.id} |-> docs[id]]
      BY <1>8 DEF ApplyDelete
    <2>2. CASE w.id \in DOMAIN docs
      <3>1. retired' = retired \cup {w.id}
        BY <1>4, <2>1, <2>2
      <3>2. Board!TakeDown(w.id)
        BY <1>4, <2>1, <2>2, <3>1 DEF Board!TakeDown
      <3> QED BY <2>2, <3>2 DEF Board!Next
    <2>3. CASE w.id \notin DOMAIN docs
      <3>1. DOMAIN docs \ {w.id} = DOMAIN docs
        BY <2>3
      <3>2. docs' = docs
        BY <1>1, <2>1, <3>1
      <3> QED BY <1>4, <3>2 DEF Board!vars
    <2> QED BY <2>2, <2>3
  <1> QED BY <1>2, <1>5, <1>6, <1>7, <1>8 DEF Apply

LEMMA StepIsOnBoard ==
    BoardInv /\ BoardInv' /\ [Next]_vars => [Board!Next]_(Board!vars)
  <1> SUFFICES ASSUME BoardInv, BoardInv', [Next]_vars
               PROVE  [Board!Next]_(Board!vars)
    OBVIOUS
  <1>1. ASSUME UNCHANGED <<docs, announced, retired>>
        PROVE  [Board!Next]_(Board!vars)
    BY <1>1 DEF Board!vars
  <1>2. ASSUME NEW u \in Users, NEW c \in calls[u], Update(u, c)
        PROVE  [Board!Next]_(Board!vars)
    <2>1. Board!Announce(u)
      BY <1>2 DEF Update, Board!Announce
    <2> QED BY <2>1 DEF Board!Next
  <1>3. ASSUME NEW u \in Users, Operation(u)
        PROVE  [Board!Next]_(Board!vars)
    BY <1>1, <1>3 DEF Operation, Start, Send, Back, Block, Kill, OpenRow, DeleteRow, Mute
  <1>4. ASSUME NEW u \in Users, Callback(u)
        PROVE  [Board!Next]_(Board!vars)
    BY <1>1, <1>2, <1>4 DEF Callback, Create, Clear, Push, Erase
  <1>5. ASSUME NEW u \in Users, NEW c \in calls[u], Fail(u, c)
        PROVE  [Board!Next]_(Board!vars)
    BY <1>1, <1>5 DEF Fail
  <1>6. ASSUME NEW u \in Users, Serve(u)
        PROVE  [Board!Next]_(Board!vars)
    BY <1>6, ServeIsOnBoard
  <1>7. CASE UNCHANGED vars
    BY <1>1, <1>7 DEF vars
  <1> QED BY <1>3, <1>4, <1>5, <1>6, <1>7 DEF Next

\* The recents of a room implement the board, for any number of users and any
\* number of calls, lost callbacks and deletions: getDocuments, setData and
\* updateData of Recent.swift put a row up fresh and empty, one per creator and
\* owner at a time, and never bring back one that was deleted.
THEOREM ImplementsBoard == Spec => BoardSpec
  <1>1. Init => Board!Init
    BY DEF Init, Board!Init
  <1> QED BY <1>1, BoardInvInit, BoardInvNext, StepIsOnBoard, PTL
          DEF Spec, BoardSpec, Board!Spec

----------------------------------------------------------------------------
(* Members: what a step adds.                                               *)

\* The calls of createRecent: by a screen for a chat or group just chosen, or
\* by a row for the push list it shows.
StartsPrivate(u, c) ==
    room = "private" /\ \E v \in Others(u) : c.members = {u, v} /\ c.users = <<u, v>>

StartsGroup(c) == room = "group" /\ c.members = Users /\ c.users = <<>>

Restarts(u, c) ==
    \E id \in Rows(u) :
        /\ c.members = PushSeen(u, id)
        /\ c.users = IF room = "private" THEN <<u>> ELSE <<>>

NewCall(u, c) ==
    /\ c.kind = "create" => StartsPrivate(u, c) \/ StartsGroup(c) \/ Restarts(u, c)
    /\ c.kind = "push" => used'["mute"] # 0
    /\ c.kind = "erase" => used'["block"] # 0

NewWrite(u, w) ==
    /\ w.op = "set" => \E c \in calls[u] : /\ c.kind = "create"
                                           /\ \E o \in Missing(u, c.members) : w = NewRecent(u, o, c)
    /\ w.op = "push" => \E c \in calls[u] : c.kind = "push"
    /\ w.op = "delete" => used'["delete"] # 0 \/ \E c \in calls[u] : c.kind = "erase"

AddsCalls == \A u \in Users : \A c \in calls'[u] : c \in calls[u] \/ NewCall(u, c)

AddsWrites ==
    \A u \in Users : \A w \in QueuedWrites(u)' : w \in QueuedWrites(u) \/ NewWrite(u, w)

Spent(o) == used'[o] # 0

LEMMA SpendSpends ==
    ASSUME TypeOK, NEW o \in Operations, Spend({o})
    PROVE  Spent(o)
  <1>1. used'[o] = used[o] + 1
    BY SpendGrows
  <1>2. used[o] \in Nat
    BY DEF TypeOK
  <1> QED BY <1>1, <1>2 DEF Spent

LEMMA AsksFor ==
    ASSUME TypeOK, NEW u \in Users, NEW C, Ask(u, C), \A c \in C : NewCall(u, c)
    PROVE  AddsCalls
  BY DEF Ask, TypeOK, AddsCalls

LEMMA AsksNothing ==
    ASSUME \A v \in Users : calls'[v] \subseteq calls[v]
    PROVE  AddsCalls
  BY DEF AddsCalls

LEMMA QueuesNothing ==
    ASSUME UNCHANGED pending
    PROVE  AddsWrites
  BY DEF AddsWrites, QueuedWrites

LEMMA OperationAdds ==
    ASSUME TypeOK, NEW u \in Users, Operation(u)
    PROVE  AddsCalls /\ AddsWrites
  <1>1. /\ \A by \in {"start", "row", "back"} : NewCall(u, ClearCall(by))
        /\ NewCall(u, [ClearCall("back") EXCEPT !.by = "disappear"])
    BY DEF NewCall, ClearCall
  <1>2. CASE Start(u)
    <2>1. CASE room = "private"
      <3>1. PICK v \in Others(u) :
               Ask(u, {CreateCall("start", {u, v}, <<u, v>>), ClearCall("start")})
        BY <1>2, <2>1 DEF Start
      <3> DEFINE c == CreateCall("start", {u, v}, <<u, v>>)
      <3>2. c.kind = "create" /\ c.members = {u, v} /\ c.users = <<u, v>>
        BY DEF CreateCall
      <3> HIDE DEF c
      <3>3. NewCall(u, c)
        BY <2>1, <3>2 DEF NewCall, StartsPrivate
      <3>4. \A d \in {c, ClearCall("start")} : NewCall(u, d)
        BY <1>1, <3>3
      <3>5. Ask(u, {c, ClearCall("start")})
        BY <3>1 DEF c
      <3>6. AddsCalls
        BY <3>4, <3>5, AsksFor
      <3> QED BY <1>2, <3>6, QueuesNothing DEF Start
    <2>2. CASE room # "private"
      <3>1. Ask(u, {CreateCall("start", Users, <<>>), ClearCall("start")})
        BY <1>2, <2>2 DEF Start
      <3> DEFINE c == CreateCall("start", Users, <<>>)
      <3>2. c.kind = "create" /\ c.members = Users /\ c.users = <<>>
        BY DEF CreateCall
      <3> HIDE DEF c
      <3>3. NewCall(u, c)
        BY <2>2, <3>2 DEF NewCall, StartsGroup, TypeOK, Kinds
      <3>4. \A d \in {c, ClearCall("start")} : NewCall(u, d)
        BY <1>1, <3>3
      <3>5. Ask(u, {c, ClearCall("start")})
        BY <3>1 DEF c
      <3>6. AddsCalls
        BY <3>4, <3>5, AsksFor
      <3> QED BY <1>2, <3>6, QueuesNothing DEF Start
    <2> QED BY <2>1, <2>2
  <1>3. ASSUME NEW id \in Rows(u), OpenRow(u, id)
        PROVE  AddsCalls /\ AddsWrites
    <2> DEFINE users == IF room = "private" THEN <<u>> ELSE <<>>
               c == CreateCall("row", PushSeen(u, id), users)
    <2>1. c.kind = "create" /\ c.members = PushSeen(u, id) /\ c.users = users
      BY DEF CreateCall
    <2>2. Ask(u, {c, ClearCall("row")})
      BY <1>3 DEF OpenRow
    <2> HIDE DEF c
    <2>3. NewCall(u, c)
      BY <2>1 DEF NewCall, Restarts
    <2>4. \A d \in {c, ClearCall("row")} : NewCall(u, d)
      BY <1>1, <2>3
    <2>5. AddsCalls
      BY <2>2, <2>4, AsksFor
    <2> QED BY <1>3, <2>5, QueuesNothing DEF OpenRow
  <1>4. CASE Send(u)
    <2>1. NewCall(u, [kind |-> "update", message |-> used["send"] + 1])
      BY DEF NewCall
    <2> QED BY <1>4, <2>1, AsksFor, QueuesNothing DEF Send
  <1>5. CASE Back(u)
    <2>1. \A d \in {ClearCall("back"), [ClearCall("back") EXCEPT !.by = "disappear"]} :
             NewCall(u, d)
      BY <1>1
    <2>2. AddsCalls
      BY <1>5, <2>1, AsksFor DEF Back
    <2> QED BY <1>5, <2>2, QueuesNothing DEF Back
  <1>6. CASE Block(u)
    <2>1. Spent("block")
      BY <1>6, SpendSpends DEF Block, Operations
    <2>2. NewCall(u, [kind |-> "erase", n |-> used["block"]])
      BY <2>1 DEF NewCall, Spent
    <2> QED BY <1>6, <2>2, AsksFor, QueuesNothing DEF Block
  <1>7. CASE Kill(u)
    <2>1. \A v \in Users : calls'[v] \subseteq calls[v]
      BY <1>7 DEF Kill, TypeOK
    <2> QED BY <1>7, <2>1, AsksNothing, QueuesNothing DEF Kill
  <1>8. ASSUME NEW id \in Rows(u), DeleteRow(u, id)
        PROVE  AddsCalls /\ AddsWrites
    <2>1. Spent("delete")
      BY <1>8, SpendSpends DEF DeleteRow, Operations
    <2>2. {Delete(id)} \in SUBSET Write
      BY VisibleType DEF Rows, Delete, Write
    <2>3. NewWrite(u, Delete(id))
      BY <2>1 DEF NewWrite, Delete, Spent
    <2>4. AddsWrites
      BY <1>8, <2>2, <2>3, QueueAdds DEF DeleteRow, AddsWrites
    <2> QED BY <1>8, <2>4, AsksNothing DEF DeleteRow
  <1>9. ASSUME NEW id \in Rows(u), Mute(u, id)
        PROVE  AddsCalls /\ AddsWrites
    <2>1. Spent("mute")
      BY <1>9, SpendSpends DEF Mute, Operations
    <2>2. PICK list : Ask(u, {[kind |-> "push", n |-> used["mute"], list |-> list]})
      BY <1>9 DEF Mute
    <2>3. NewCall(u, [kind |-> "push", n |-> used["mute"], list |-> list])
      BY <2>1 DEF NewCall, Spent
    <2> QED BY <1>9, <2>2, <2>3, AsksFor, QueuesNothing DEF Mute
  <1> QED BY <1>2, <1>3, <1>4, <1>5, <1>6, <1>7, <1>8, <1>9 DEF Operation

QueuesFor(u) ==
    \E batch \in SUBSET Write :
        /\ pending' = Queue(u, batch)
        /\ \A w \in batch : NewWrite(u, w)

LEMMA CallbackAdds ==
    ASSUME TypeOK, NEW u \in Users, NEW c \in calls[u],
           Create(u, c) \/ Update(u, c) \/ Clear(u, c) \/ Push(u, c) \/ Erase(u, c)
    PROVE  AddsCalls /\ QueuesFor(u) /\ UNCHANGED docs
  <1>1. c \in Call
    BY DEF TypeOK
  <1>2. AddsCalls
    <2>1. Answered(u, c)
      BY DEF Create, Update, Clear, Push, Erase
    <2>2. \A v \in Users : calls'[v] \subseteq calls[v]
      BY <2>1 DEF Answered, TypeOK
    <2> QED BY <2>2, AsksNothing
  <1>3. UNCHANGED docs
    BY DEF Create, Update, Clear, Push, Erase
  <1>4. \A id \in Visible(u) : id \in Id
    BY VisibleType
  <1>5. CASE Create(u, c)
    <2> DEFINE batch == {NewRecent(u, o, c) : o \in Missing(u, c.members)}
    <2>1. batch \in SUBSET Write
      BY <1>1, <1>5, NewRecentType DEF Create
    <2>2. \A w \in batch : w.op = "set"
      BY DEF NewRecent, SetData
    <2>3. \A w \in batch : NewWrite(u, w)
      BY <1>5, <2>2 DEF Create, NewWrite
    <2>4. pending' = Queue(u, batch)
      BY <1>5 DEF Create
    <2> HIDE DEF batch
    <2> QED BY <1>2, <1>3, <2>1, <2>3, <2>4 DEF QueuesFor
  <1>6. CASE Update(u, c)
    <2> DEFINE batch == {UpdateRecentItem(u, id, c.message) : id \in Visible(u)}
    <2>1. \A id \in Visible(u) : UpdateRecentItem(u, id, c.message) \in Write
      <3>1. c.message \in Nat
        BY <1>1, <1>6 DEF Update, Call
      <3> SUFFICES ASSUME NEW id \in Visible(u)
                   PROVE  UpdateRecentItem(u, id, c.message) \in Write
        OBVIOUS
      <3>2. CounterSeen(u, id) + (IF id.userId # u THEN 1 ELSE 0) \in Nat
        BY CounterSeenType
      <3> QED BY <1>4, <3>1, <3>2 DEF UpdateRecentItem, UpdateMessage, Write
    <2>2. \A w \in batch : w.op = "message"
      BY DEF UpdateRecentItem, UpdateMessage
    <2>3. \A w \in batch : NewWrite(u, w)
      BY <2>2 DEF NewWrite
    <2>4. pending' = Queue(u, batch) /\ batch \in SUBSET Write
      BY <1>6, <2>1 DEF Update
    <2> HIDE DEF batch
    <2> QED BY <1>2, <1>3, <2>3, <2>4 DEF QueuesFor
  <1>7. CASE Clear(u, c)
    <2> DEFINE batch == {UpdateCounter(id, 0) : id \in {i \in Visible(u) : i.userId = u}}
    <2>1. \A w \in batch : w \in Write /\ w.op = "counter"
      BY <1>4 DEF UpdateCounter, Write
    <2>2. \A w \in batch : NewWrite(u, w)
      BY <2>1 DEF NewWrite
    <2>3. pending' = Queue(u, batch)
      BY <1>7 DEF Clear
    <2> HIDE DEF batch
    <2> QED BY <1>2, <1>3, <2>1, <2>2, <2>3 DEF QueuesFor
  <1>8. CASE Push(u, c)
    <2> DEFINE batch == {UpdatePush(id, c.list) : id \in Visible(u)}
    <2>1. c.kind = "push" /\ c.list \in SUBSET Users
      BY <1>1, <1>8 DEF Push, Call
    <2>2. \A w \in batch : w \in Write /\ w.op = "push"
      BY <1>4, <2>1 DEF UpdatePush, Write
    <2>3. \A w \in batch : NewWrite(u, w)
      BY <2>1, <2>2 DEF NewWrite
    <2>4. pending' = Queue(u, batch)
      BY <1>8 DEF Push
    <2> HIDE DEF batch
    <2> QED BY <1>2, <1>3, <2>2, <2>3, <2>4 DEF QueuesFor
  <1>9. CASE Erase(u, c)
    <2> DEFINE batch == {Delete(id) : id \in Visible(u)}
    <2>1. c.kind = "erase"
      BY <1>9 DEF Erase
    <2>2. \A w \in batch : w \in Write /\ w.op = "delete"
      BY <1>4 DEF Delete, Write
    <2>3. \A w \in batch : NewWrite(u, w)
      BY <2>1, <2>2 DEF NewWrite
    <2>4. pending' = Queue(u, batch)
      BY <1>9 DEF Erase
    <2> HIDE DEF batch
    <2> QED BY <1>2, <1>3, <2>2, <2>3, <2>4 DEF QueuesFor
  <1> QED BY <1>5, <1>6, <1>7, <1>8, <1>9

LEMMA NextAdds ==
    ASSUME TypeOK, [Next]_vars
    PROVE  AddsCalls /\ AddsWrites
  <1>1. ASSUME NEW u \in Users, Callback(u)
        PROVE  AddsCalls /\ AddsWrites
    <2>1. AddsCalls /\ QueuesFor(u)
      BY <1>1, CallbackAdds DEF Callback
    <2>2. PICK batch \in SUBSET Write :
             pending' = Queue(u, batch) /\ \A w \in batch : NewWrite(u, w)
      BY <2>1 DEF QueuesFor
    <2>3. AddsWrites
      BY <2>2, QueueAdds DEF AddsWrites
    <2> QED BY <2>1, <2>3
  <1>2. ASSUME NEW u \in Users, NEW c \in calls[u], Fail(u, c)
        PROVE  AddsCalls /\ AddsWrites
    <2>1. \A v \in Users : calls'[v] \subseteq calls[v]
      BY <1>2 DEF Fail, Answered, TypeOK
    <2> QED BY <1>2, <2>1, AsksNothing, QueuesNothing DEF Fail
  <1>3. ASSUME NEW u \in Users, Serve(u)
        PROVE  AddsCalls /\ AddsWrites
    <2>1. AddsCalls
      BY <1>3, AsksNothing DEF Serve
    <2>2. AddsWrites
      BY <1>3, ServeTakes DEF AddsWrites
    <2> QED BY <2>1, <2>2
  <1>4. CASE UNCHANGED vars
    BY <1>4, AsksNothing, QueuesNothing DEF vars
  <1> QED BY <1>1, <1>2, <1>3, <1>4, OperationAdds DEF Next

----------------------------------------------------------------------------
(* What a step leaves.                                                      *)

\* Every document after a step was there before, maybe with another push list,
\* or was put up by a queued write.
ServesQueued ==
    \A id \in DOMAIN docs' :
        \/ /\ id \in DOMAIN docs
           /\ docs'[id].members = docs[id].members
           /\ docs'[id].withUser = docs[id].withUser
           /\ \/ docs'[id].membersToPush = docs[id].membersToPush
              \/ \E u \in Users : \E w \in QueuedWrites(u) : w.op = "push"
        \/ \E u \in Users : \E w \in QueuedWrites(u) :
              w.op = "set" /\ w.id = id /\ docs'[id] = w.doc

LEMMA NextServes ==
    ASSUME TypeOK, [Next]_vars
    PROVE  ServesQueued /\ UNCHANGED room
  <1>1. ASSUME UNCHANGED docs PROVE ServesQueued
    BY <1>1 DEF ServesQueued
  <1>2. ASSUME NEW u \in Users, Serve(u)
        PROVE  ServesQueued
    <2>1. PICK w \in QueuedWrites(u) : Apply(w)
      BY <1>2, ServeTakes
    <2>2. CASE ApplySet(w)
      BY <2>1, <2>2 DEF ApplySet, ServesQueued
    <2>3. CASE ApplyPatch(w)
      <3>1. /\ w.id \in DOMAIN docs /\ DOMAIN docs' = DOMAIN docs
            /\ docs'[w.id] = Patched(docs[w.id], w) /\ w.op \in Patches
            /\ \A id \in DOMAIN docs \ {w.id} : docs'[id] = docs[id]
        BY <2>3 DEF ApplyPatch
      <3>2. docs[w.id] \in Recent
        BY <3>1 DEF TypeOK
      <3>3. /\ docs'[w.id].members = docs[w.id].members
            /\ docs'[w.id].withUser = docs[w.id].withUser
        BY <3>1, <3>2 DEF Patched, Patches, Recent
      <3>4. w.op = "push" \/ docs'[w.id].membersToPush = docs[w.id].membersToPush
        BY <3>1, <3>2 DEF Patched, Patches, Recent
      <3> QED BY <2>1, <3>1, <3>3, <3>4 DEF ServesQueued
    <2>4. CASE RejectPatch(w)
      BY <1>1, <2>4 DEF RejectPatch
    <2>5. CASE ApplyDelete(w)
      BY <2>5 DEF ApplyDelete, ServesQueued
    <2> QED BY <2>1, <2>2, <2>3, <2>4, <2>5 DEF Apply
  <1>3. UNCHANGED docs \/ \E u \in Users : Serve(u)
    <2>1. ASSUME NEW u \in Users, Operation(u) PROVE UNCHANGED docs
      BY <2>1 DEF Operation, Start, Send, Back, Block, Kill, OpenRow, DeleteRow, Mute
    <2>2. ASSUME NEW u \in Users, Callback(u) \/ \E c \in calls[u] : Fail(u, c)
          PROVE  UNCHANGED docs
      BY <2>2 DEF Callback, Create, Update, Clear, Push, Erase, Fail
    <2> QED BY <2>1, <2>2 DEF Next, vars
  <1>4. UNCHANGED room
    <2>1. ASSUME NEW u \in Users, Operation(u) PROVE UNCHANGED room
      BY <2>1 DEF Operation, Start, Send, Back, Block, Kill, OpenRow, DeleteRow, Mute
    <2>2. ASSUME NEW u \in Users,
                 Callback(u) \/ (\E c \in calls[u] : Fail(u, c)) \/ Serve(u)
          PROVE  UNCHANGED room
      BY <2>2 DEF Callback, Create, Update, Clear, Push, Erase, Fail, Serve
    <2> QED BY <2>1, <2>2 DEF Next, vars
  <1> QED BY <1>1, <1>2, <1>3, <1>4

----------------------------------------------------------------------------
(* The members.                                                             *)
(*                                                                          *)
(* restartRecentChat creates recents for the push list of the row.  As long *)
(* as nobody muted, that list is complete wherever a client may read it: in *)
(* the documents and in those that wait to be put up.                       *)

Complete(doc) == doc.members = Users /\ doc.membersToPush = Users

AllComplete ==
    /\ \A id \in DOMAIN docs : Complete(docs[id])
    /\ \A u \in Users : \A w \in QueuedWrites(u) :
          w.op # "push" /\ (w.op = "set" => Complete(w.doc))
    /\ \A u \in Users : \A c \in calls[u] :
          c.kind # "push" /\ (c.kind = "create" => c.members = Users)

MembersInv ==
    /\ TypeOK
    /\ Budgets[room] # {}
    /\ used["mute"] = 0 => AllComplete

\* A row shows the complete list.
LEMMA PushListComplete ==
    ASSUME TypeOK, AllComplete, NEW u \in Users, NEW id \in Visible(u)
    PROVE  PushSeen(u, id) = Users
  <1>1. Queued(u, {"push"}, id) = {}
    <2> SUFFICES ASSUME NEW e \in Queued(u, {"push"}, id)
                 PROVE  FALSE
      OBVIOUS
    <2>1. e[2] \in QueuedWrites(u) /\ e[2].op = "push"
      BY QueuedIsWrite DEF QueuedWrites
    <2> QED BY <2>1 DEF AllComplete
  <1>2. PushSeen(u, id) = Base(u, id).membersToPush
    BY <1>1 DEF PushSeen, Newest
  <1>3. CASE id \in DOMAIN docs
    BY <1>2, <1>3 DEF Base, AllComplete, Complete
  <1>4. CASE id \notin DOMAIN docs
    <2>1. \E w \in QueuedSets(u) : w.id = id
      BY <1>4 DEF Visible
    <2>2. PICK w \in QueuedSets(u) : Base(u, id) = w.doc
      BY <1>4, <2>1 DEF Base
    <2>3. w.op = "set" /\ w \in QueuedWrites(u)
      BY <2>2 DEF QueuedSets, QueuedWrites
    <2> QED BY <1>2, <2>2, <2>3 DEF AllComplete, Complete
  <1> QED BY <1>3, <1>4

LEMMA MembersNext == MembersInv /\ [Next]_vars => MembersInv'
  <1> SUFFICES ASSUME MembersInv, [Next]_vars
               PROVE  MembersInv'
    OBVIOUS
  <1>1. TypeOK /\ TypeOK' /\ AddsCalls /\ AddsWrites /\ ServesQueued /\ UNCHANGED room
    BY NextType, NextServes, NextAdds DEF MembersInv
  <1> SUFFICES ASSUME used'["mute"] = 0
               PROVE  AllComplete'
    BY <1>1 DEF MembersInv
  <1>2. used["mute"] = 0
    <2>1. used["mute"] <= used'["mute"]
      <3>1. CallsGrow
        BY <1>1, NextCallsGrow
      <3> QED BY <3>1 DEF CallsGrow, Operations
    <2>2. used["mute"] \in Nat
      BY <1>1 DEF TypeOK, Operations
    <2> QED BY <2>1, <2>2
  <1>3. AllComplete
    BY <1>2 DEF MembersInv
  <1>4. ASSUME NEW id \in DOMAIN docs'
        PROVE  Complete(docs'[id])
    BY <1>1, <1>3 DEF ServesQueued, AllComplete, Complete
  <1>5. ASSUME NEW u \in Users, NEW w \in QueuedWrites(u)'
        PROVE  w.op # "push" /\ (w.op = "set" => Complete(w.doc))
    <2>1. CASE w \in QueuedWrites(u)
      BY <1>3, <2>1 DEF AllComplete
    <2>2. CASE NewWrite(u, w)
      <3>1. w.op # "push"
        BY <1>3, <2>2 DEF NewWrite, AllComplete
      <3>2. ASSUME w.op = "set" PROVE Complete(w.doc)
        <4>1. PICK c \in calls[u] : c.kind = "create" /\ \E o \in Missing(u, c.members) : w = NewRecent(u, o, c)
          BY <2>2, <3>2 DEF NewWrite
        <4>2. c.members = Users
          BY <1>3, <4>1 DEF AllComplete
        <4> QED BY <4>1, <4>2 DEF NewRecent, SetData, Complete
      <3> QED BY <3>1, <3>2
    <2> QED BY <1>1, <2>1, <2>2 DEF AddsWrites
  <1>6. ASSUME NEW u \in Users, NEW c \in calls'[u]
        PROVE  c.kind # "push" /\ (c.kind = "create" => c.members = Users)
    <2>1. CASE c \in calls[u]
      BY <1>3, <2>1 DEF AllComplete
    <2>2. CASE NewCall(u, c)
      <3>1. c.kind # "push"
        BY <2>2 DEF NewCall
      <3>2. ASSUME StartsPrivate(u, c) PROVE c.members = Users
        <4>1. room = "private" /\ Budgets["private"] # {}
          BY <3>2 DEF StartsPrivate, MembersInv
        <4> QED BY <3>2, <4>1, RoomAssumption DEF StartsPrivate, Others
      <3>3. ASSUME Restarts(u, c) PROVE c.members = Users
        BY <1>1, <1>3, <3>3, PushListComplete DEF Restarts, Rows
      <3> QED BY <2>2, <3>1, <3>2, <3>3 DEF NewCall, StartsGroup
    <2> QED BY <1>1, <2>1, <2>2 DEF AddsCalls
  <1> QED BY <1>4, <1>5, <1>6 DEF AllComplete

LEMMA InitQueues ==
    ASSUME Init
    PROVE  \A u \in Users : QueuedWrites(u) = {} /\ calls[u] = {}
  <1> SUFFICES ASSUME NEW u \in Users
               PROVE  QueuedWrites(u) = {} /\ calls[u] = {}
    OBVIOUS
  <1>1. pending[u] = <<>> /\ calls[u] = {}
    BY DEF Init
  <1>2. DOMAIN pending[u] = {}
    BY <1>1
  <1>3. QueuedWrites(u) = UNION {pending[u][i] : i \in DOMAIN pending[u]}
    BY DEF QueuedWrites
  <1> QED BY <1>1, <1>2, <1>3

\* A recent without some participant comes only from a chat somebody muted,
\* however many users the group has: createRecent, called with the push list
\* for its members (restartRecentChat), is otherwise called for everybody.
THEOREM MembersComplete == Spec => []MembersCompleteUnlessMuted
  <1>1. Init => MembersInv
    <2> SUFFICES ASSUME Init PROVE MembersInv
      OBVIOUS
    <2>1. TypeOK /\ Budgets[room] # {} /\ DOMAIN docs = {}
      BY InitType DEF Init
    <2> QED BY <2>1, InitQueues DEF MembersInv, AllComplete
  <1>2. MembersInv => MembersCompleteUnlessMuted
    BY DEF MembersInv, AllComplete, Complete, MembersCompleteUnlessMuted
  <1> QED BY <1>1, <1>2, MembersNext, PTL DEF Spec

----------------------------------------------------------------------------
(* The partner.                                                             *)
(*                                                                          *)
(* The user who taps a row is alone in the array of users restartRecentChat *)
(* passes, so a recent created for him then would name him as his own       *)
(* partner.  It is not: the row he tapped stays in every later answer of    *)
(* his client, at the server or in his queue, while nothing is deleted.     *)

Untouched == used["delete"] = 0 /\ used["block"] = 0

\* What client u has of the recent id, without deletions.
Has(u, id) == id \in DOMAIN docs \/ \E w \in QueuedWrites(u) : w.op = "set" /\ w.id = id

Passes(u, c) ==
    \/ c.users = <<>>
    \/ \E v \in Others(u) : c.users = <<u, v>> /\ c.members = {u, v}
    \/ c.users = <<u>> /\ \E id \in Id : id.userId = u /\ Has(u, id)

OthersOnly ==
    /\ \A id \in DOMAIN docs : docs[id].withUser # id.userId
    /\ \A u \in Users : \A w \in QueuedWrites(u) :
          w.op # "delete" /\ (w.op = "set" => w.doc.withUser # w.id.userId)
    /\ \A u \in Users : \A c \in calls[u] :
          c.kind # "erase" /\ (c.kind = "create" => Passes(u, c))

PartnerInv == BoardInv /\ (Untouched => OthersOnly)

LEMMA UntouchedBefore ==
    ASSUME TypeOK, [Next]_vars, Untouched'
    PROVE  Untouched
  <1>1. used["delete"] <= used'["delete"] /\ used["block"] <= used'["block"]
    <2>1. CallsGrow
      BY NextCallsGrow
    <2> QED BY <2>1 DEF CallsGrow, Operations
  <1>2. used["delete"] \in Nat /\ used["block"] \in Nat
    BY DEF TypeOK, Operations
  <1> QED BY <1>1, <1>2 DEF Untouched

\* What a client has is in its answers.
LEMMA HasIsVisible ==
    ASSUME TypeOK, OthersOnly, NEW u \in Users, NEW id, Has(u, id)
    PROVE  id \in Visible(u)
  <1>1. Queued(u, {"delete"}, id) = {}
    <2> SUFFICES ASSUME NEW e \in Queued(u, {"delete"}, id)
                 PROVE  FALSE
      OBVIOUS
    <2>1. e[2] \in QueuedWrites(u) /\ e[2].op = "delete"
      BY QueuedIsWrite DEF QueuedWrites
    <2> QED BY <2>1 DEF OthersOnly
  <1>2. id \in DOMAIN docs \cup {w.id : w \in QueuedSets(u)}
    BY DEF Has, QueuedWrites, QueuedSets
  <1> QED BY <1>1, <1>2 DEF Visible

\* createRecentItem names somebody else.
LEMMA NamesOther ==
    ASSUME TypeOK, OthersOnly, NEW u \in Users, NEW c \in calls[u], c.kind = "create",
           NEW o \in Missing(u, c.members)
    PROVE  WithUser(u, o, c.users) # o
  <1>1. o \in Users /\ o \in c.members /\ \A id \in Visible(u) : id.userId # o
    <2>1. c \in Call
      BY DEF TypeOK
    <2>2. c.members \in SUBSET Users
      BY <2>1, CreateCallIsTyped
    <2> QED BY <2>2 DEF Missing
  <1>2. CASE c.users = <<>>
    BY <1>1, <1>2, RoomAssumption DEF WithUser
  <1>3. ASSUME NEW v \in Others(u), c.users = <<u, v>>, c.members = {u, v}
        PROVE  WithUser(u, o, c.users) # o
    <2>1. u # v /\ (o = u \/ o = v)
      BY <1>1, <1>3 DEF Others
    <2>2. c.users # <<>> /\ Len(c.users) = 2 /\ c.users[1] = u /\ c.users[2] = v
      BY <1>3
    <2> QED BY <2>1, <2>2 DEF WithUser
  <1>4. ASSUME NEW id \in Id, c.users = <<u>>, id.userId = u, Has(u, id)
        PROVE  WithUser(u, o, c.users) # o
    <2>1. o # u
      BY <1>1, <1>4, HasIsVisible
    <2>2. c.users # <<>> /\ c.users[1] = u
      BY <1>4
    <2> QED BY <2>1, <2>2 DEF WithUser
  <1>5. Passes(u, c)
    BY DEF OthersOnly
  <1> QED BY <1>2, <1>3, <1>4, <1>5 DEF Passes

\* Nothing a client has gets lost.
LEMMA HasStays ==
    ASSUME BoardInv, [Next]_vars, OthersOnly, NEW v \in Users, NEW id, Has(v, id)
    PROVE  Has(v, id)'
  <1>1. TypeOK
    BY DEF BoardInv, CounterInv
  <1>2. ASSUME NEW u \in Users, NEW batch \in SUBSET Write, pending' = Queue(u, batch),
               UNCHANGED docs
        PROVE  Has(v, id)'
    <2>1. QueuedWrites(v) \subseteq QueuedWrites(v)'
      BY <1>1, <1>2, Appended DEF QueuedWrites
    <2> QED BY <1>2, <2>1 DEF Has
  <1>3. ASSUME UNCHANGED <<docs, pending>>
        PROVE  Has(v, id)'
    BY <1>3 DEF Has, QueuedWrites
  <1>4. ASSUME NEW u \in Users, Serve(u)
        PROVE  Has(v, id)'
    <2>1. PICK w \in Write, s \in {0, 1} :
             Apply(w) /\ Taken(pending[u], pending'[u], w, s)
      BY <1>1, <1>4, ServeShape
    <2>2. w.op # "delete"
      BY <2>1 DEF Taken, OthersOnly, QueuedWrites
    <2>3. /\ DOMAIN docs \subseteq DOMAIN docs'
          /\ w.op = "set" => w.id \in DOMAIN docs'
      BY <1>1, <1>4, <2>1, <2>2, Applying DEF BoardInv
    <2>4. CASE id \in DOMAIN docs
      BY <2>3, <2>4 DEF Has
    <2>5. ASSUME NEW x \in QueuedWrites(v), x.op = "set", x.id = id
          PROVE  Has(v, id)'
      <3>1. CASE x = w
        BY <2>3, <2>5, <3>1 DEF Has
      <3>2. CASE x # w /\ v = u
        <4>1. PICK i \in DOMAIN pending[u] : x \in pending[u][i]
          BY <2>5, <3>2 DEF QueuedWrites
        <4>2. i - s \in DOMAIN pending'[u] /\ x \in pending'[u][i - s]
          BY <2>1, <3>2, <4>1 DEF Taken
        <4>3. x \in QueuedWrites(v)'
          BY <3>2, <4>2 DEF QueuedWrites
        <4> QED BY <2>5, <4>3 DEF Has
      <3>3. CASE v # u
        <4>1. pending'[v] = pending[v]
          BY <1>1, <1>4, <3>3, ServeShape
        <4>2. x \in QueuedWrites(v)'
          BY <2>5, <4>1 DEF QueuedWrites
        <4> QED BY <2>5, <4>2 DEF Has
      <3> QED BY <3>1, <3>2, <3>3
    <2> QED BY <2>4, <2>5 DEF Has
  <1>5. ASSUME NEW u \in Users, Operation(u)
        PROVE  Has(v, id)'
    <2>1. ASSUME NEW row \in Rows(u), DeleteRow(u, row)
          PROVE  Has(v, id)'
      <3>1. {Delete(row)} \in SUBSET Write
        BY <1>1, VisibleType DEF Rows, Delete, Write
      <3> QED BY <1>2, <2>1, <3>1 DEF DeleteRow
    <2> QED BY <1>3, <1>5, <2>1 DEF Operation, Start, Send, Back, Block, Kill, OpenRow, Mute
  <1>6. ASSUME NEW u \in Users, Callback(u)
        PROVE  Has(v, id)'
    <2>1. QueuesFor(u) /\ UNCHANGED docs
      BY <1>1, <1>6, CallbackAdds DEF Callback
    <2> QED BY <1>2, <2>1 DEF QueuesFor
  <1>7. ASSUME NEW u \in Users, NEW c \in calls[u], Fail(u, c)
        PROVE  Has(v, id)'
    BY <1>3, <1>7 DEF Fail
  <1>8. CASE UNCHANGED vars
    BY <1>3, <1>8 DEF vars
  <1> QED BY <1>4, <1>5, <1>6, <1>7, <1>8 DEF Next

LEMMA PartnerNext == PartnerInv /\ [Next]_vars => PartnerInv'
  <1> SUFFICES ASSUME PartnerInv, [Next]_vars
               PROVE  PartnerInv'
    OBVIOUS
  <1>1. BoardInv /\ BoardInv' /\ TypeOK
    BY BoardInvNext DEF PartnerInv, BoardInv, CounterInv
  <1>2. AddsCalls /\ AddsWrites /\ ServesQueued /\ UNCHANGED room
    BY <1>1, NextServes, NextAdds
  <1> SUFFICES ASSUME Untouched'
               PROVE  OthersOnly'
    BY <1>1 DEF PartnerInv
  <1>3. Untouched /\ OthersOnly
    BY <1>1, UntouchedBefore DEF PartnerInv
  <1>4. ASSUME NEW id \in DOMAIN docs'
        PROVE  docs'[id].withUser # id.userId
    BY <1>2, <1>3 DEF ServesQueued, OthersOnly
  <1>5. ASSUME NEW u \in Users, NEW w \in QueuedWrites(u)'
        PROVE  w.op # "delete" /\ (w.op = "set" => w.doc.withUser # w.id.userId)
    <2>1. CASE w \in QueuedWrites(u)
      BY <1>3, <2>1 DEF OthersOnly
    <2>2. CASE NewWrite(u, w)
      <3>1. w.op # "delete"
        BY <1>3, <2>2 DEF NewWrite, OthersOnly, Untouched
      <3>2. ASSUME w.op = "set" PROVE w.doc.withUser # w.id.userId
        <4>0. PICK c \in calls[u] :
                 c.kind = "create" /\ \E o \in Missing(u, c.members) : w = NewRecent(u, o, c)
          BY <2>2, <3>2 DEF NewWrite
        <4>1. PICK o \in Missing(u, c.members) : w = NewRecent(u, o, c)
          BY <4>0
        <4>2. WithUser(u, o, c.users) # o
          BY <1>1, <1>3, <4>0, NamesOther
        <4>3. w.id.userId = o /\ w.doc.withUser = WithUser(u, o, c.users)
          BY <4>1 DEF NewRecent, SetData
        <4> QED BY <4>2, <4>3
      <3> QED BY <3>1, <3>2
    <2> QED BY <1>2, <2>1, <2>2 DEF AddsWrites
  <1>6. ASSUME NEW u \in Users, NEW c \in calls'[u]
        PROVE  c.kind # "erase" /\ (c.kind = "create" => Passes(u, c)')
    <2>1. CASE c \in calls[u]
      <3>1. c.kind # "erase" /\ (c.kind = "create" => Passes(u, c))
        BY <1>3, <2>1 DEF OthersOnly
      <3>2. \A id : Has(u, id) => Has(u, id)'
        BY <1>1, <1>3, HasStays
      <3> QED BY <3>1, <3>2 DEF Passes
    <2>2. CASE NewCall(u, c)
      <3>1. c.kind # "erase"
        BY <2>2 DEF NewCall, Untouched
      <3>2. ASSUME NEW id \in Rows(u), c.users = IF room = "private" THEN <<u>> ELSE <<>>
            PROVE  Passes(u, c)'
        <4>1. id \in Visible(u) /\ id.userId = u /\ id \in Id
          BY <1>1, VisibleType DEF Rows
        <4>2. Has(u, id)
          BY <4>1 DEF Visible, Has, QueuedSets, QueuedWrites
        <4>3. Has(u, id)'
          BY <1>1, <1>3, <4>2, HasStays
        <4> QED BY <3>2, <4>1, <4>3 DEF Passes
      <3> QED BY <2>2, <3>1, <3>2 DEF NewCall, StartsPrivate, StartsGroup, Restarts, Passes
    <2> QED BY <1>2, <2>1, <2>2 DEF AddsCalls
  <1> QED BY <1>4, <1>5, <1>6 DEF OthersOnly

\* While nobody deletes or blocks, no recent of a private room is a chat with
\* oneself, though restartRecentChat passes nobody but the current user as
\* users to createRecent: its answer always holds the row that was tapped.
THEOREM PartnerNamed == Spec => []PartnerIsTheOther
  <1>1. Init => PartnerInv
    <2> SUFFICES ASSUME Init PROVE PartnerInv
      OBVIOUS
    <2>1. DOMAIN docs = {}
      BY DEF Init
    <2> QED BY <2>1, BoardInvInit, InitQueues DEF PartnerInv, OthersOnly
  <1>2. PartnerInv => PartnerIsTheOther
    <2>1. BoardInv => used["delete"] \in Nat /\ used["block"] \in Nat
      BY DEF BoardInv, CounterInv, TypeOK, Operations
    <2> QED BY <2>1 DEF PartnerInv, OthersOnly, Untouched, PartnerIsTheOther
  <1> QED BY <1>1, <1>2, PartnerNext, PTL DEF Spec

----------------------------------------------------------------------------
(* A burst of messages: the invariant.                                      *)
(*                                                                          *)
(* updateRecentItem adds one to the counter it reads, which is that of the  *)
(* client's newest queued write to the document. That this write is its own *)
(* last message's takes two facts more: a batch has one message for each    *)
(* document, and a client resets no counters but its own.                   *)

Says(w, id) == w.op = "message" /\ w.id = id

\* Between the entries j and k of q there is no message for id.
NoneBetween(q, j, k, id) ==
    \A i \in DOMAIN q : \A x \in q[i] : Says(x, id) => i <= j \/ k <= i

\* BurstCountedExactly, of the queue q of client u.
Counted(q, u) ==
    \A j, k \in DOMAIN q : \A v \in q[j], w \in q[k] :
        /\ v.op = "message" /\ Says(w, v.id) /\ v.id.userId # u
        /\ j < k /\ NoneBetween(q, j, k, v.id)
        => w.counter = v.counter + 1

OneEach(q) ==
    \A j \in DOMAIN q : \A v, w \in q[j] : v.op = "message" /\ Says(w, v.id) => v = w

ResetsOwn(q, u) ==
    \A j \in DOMAIN q : \A w \in q[j] : w.op = "counter" => w.id.userId = u

BurstInv ==
    /\ TypeOK
    /\ \A u \in Users : /\ Counted(pending[u], u)
                        /\ OneEach(pending[u])
                        /\ ResetsOwn(pending[u], u)

LEMMA BurstInvSuffices == BurstInv => BurstCountedExactly
  <1> SUFFICES ASSUME BurstInv, NEW u \in Users, NEW j \in DOMAIN pending[u],
                      NEW k \in DOMAIN pending[u], NEW v \in pending[u][j], NEW w \in pending[u][k],
                      v.op = "message", w.op = "message", v.id = w.id, v.id.userId # u, j < k,
                      \A e \in Queued(u, {"message"}, v.id) : e[1] <= j \/ k <= e[1]
               PROVE  w.counter = v.counter + 1
    BY DEF BurstCountedExactly
  <1>1. ASSUME NEW i \in DOMAIN pending[u], NEW x \in pending[u][i], Says(x, v.id)
        PROVE  i <= j \/ k <= i
    <2>1. <<i, x>> \in Queued(u, {"message"}, v.id)
      BY <1>1 DEF Queued, Says
    <2> QED BY <2>1
  <1>2. NoneBetween(pending[u], j, k, v.id)
    BY <1>1 DEF NoneBetween
  <1> QED BY <1>2 DEF BurstInv, Counted, Says

----------------------------------------------------------------------------
(* What a client reads in its own queue.                                    *)

\* The counter of a message it has queued last.
LEMMA LastIsSeen ==
    ASSUME BurstInv, NEW u \in Users, NEW j \in DOMAIN pending[u], NEW v \in pending[u][j],
           v.op = "message", v.id.userId # u,
           \A i \in DOMAIN pending[u] : \A x \in pending[u][i] : Says(x, v.id) => i <= j
    PROVE  CounterSeen(u, v.id) = v.counter
  <1> DEFINE ops == {"message", "counter"}
             S == Queued(u, ops, v.id)
  <1>1. TypeOK
    BY DEF BurstInv
  <1>2. DOMAIN pending[u] \subseteq Nat
    BY <1>1 DEF TypeOK
  <1>3. ASSUME NEW e \in S
        PROVE  /\ e[1] \in DOMAIN pending[u] /\ e[2] \in pending[u][e[1]]
               /\ Says(e[2], v.id) /\ e[1] <= j
    <2>1. /\ e[1] \in DOMAIN pending[u] /\ e[2] \in pending[u][e[1]]
          /\ e[2].op \in ops /\ e[2].id = v.id
      BY <1>1, <1>3, QueuedIsWrite
    <2>2. e[2].op # "counter"
      BY <2>1 DEF BurstInv, ResetsOwn
    <2> QED BY <2>1, <2>2 DEF Says
  <1>4. <<j, v>> \in S
    BY DEF Queued
  <1>5. <<j, v>> \in Newest(S)
    BY <1>3, <1>4 DEF Newest
  <1>6. ASSUME NEW e \in Newest(S)
        PROVE  e[2] = v
    <2>1. e \in S /\ j <= e[1]
      <3>1. <<j, v>>[1] = j
        OBVIOUS
      <3> QED BY <1>4, <3>1 DEF Newest
    <2>2. e[1] = j
      BY <1>2, <1>3, <2>1
    <2> QED BY <1>3, <2>1, <2>2 DEF BurstInv, OneEach
  <1>7. Last(u, ops, v.id) = v
    BY <1>5, <1>6 DEF Last
  <1> QED BY <1>5, <1>7 DEF CounterSeen

----------------------------------------------------------------------------
(* The steps.                                                               *)

\* A batch without messages, or with one for each document that counts on.
CountsOn(u, w) == w.op = "message" => w.counter = CounterSeen(u, w.id) + IF w.id.userId # u THEN 1 ELSE 0

LEMMA QueueCounts ==
    ASSUME BurstInv, TypeOK', NEW u \in Users, NEW batch \in SUBSET Write, pending' = Queue(u, batch),
           \A w \in batch : CountsOn(u, w) /\ (w.op = "counter" => w.id.userId = u),
           \A v, w \in batch : v.op = "message" /\ Says(w, v.id) => v = w
    PROVE  BurstInv'
  <1> SUFFICES ASSUME NEW x \in Users
               PROVE  /\ Counted(pending'[x], x)
                      /\ OneEach(pending'[x])
                      /\ ResetsOwn(pending'[x], x)
    BY DEF BurstInv
  <1> DEFINE q == pending[x]
             r == pending'[x]
  <1>1. TypeOK
    BY DEF BurstInv
  <1>2. /\ \A j \in DOMAIN r :
              \/ j \in DOMAIN q /\ r[j] = q[j]
              \/ /\ x = u /\ r[j] = batch
                 /\ j = Len(q) + 1 /\ \A i \in DOMAIN q : i < j
        /\ \A j \in DOMAIN q : j \in DOMAIN r /\ r[j] = q[j]
        /\ DOMAIN r \subseteq Nat
    BY <1>1, Appended
  <1>3. Counted(q, x) /\ OneEach(q) /\ ResetsOwn(q, x)
    BY DEF BurstInv
  <1>4. OneEach(r) /\ ResetsOwn(r, x)
    BY <1>2, <1>3 DEF OneEach, ResetsOwn
  <1>5. Counted(r, x)
    <2> SUFFICES ASSUME NEW j \in DOMAIN r, NEW k \in DOMAIN r, NEW v \in r[j], NEW w \in r[k],
                        v.op = "message", Says(w, v.id), v.id.userId # x,
                        j < k, NoneBetween(r, j, k, v.id)
                 PROVE  w.counter = v.counter + 1
      BY DEF Counted
    <2>1. CASE k \in DOMAIN q /\ r[k] = q[k]
      <3>1. j \in DOMAIN q /\ r[j] = q[j]
        BY <1>2, <2>1
      <3>2. NoneBetween(q, j, k, v.id)
        BY <1>2 DEF NoneBetween
      <3> QED BY <1>3, <2>1, <3>1, <3>2 DEF Counted
    <2>2. CASE x = u /\ r[k] = batch /\ k = Len(q) + 1 /\ \A i \in DOMAIN q : i < k
      <3>1. j \in DOMAIN q /\ r[j] = q[j]
        BY <1>2, <2>2
      <3>2. \A i \in DOMAIN q : \A y \in q[i] : Says(y, v.id) => i <= j
        <4> SUFFICES ASSUME NEW i \in DOMAIN q, NEW y \in q[i], Says(y, v.id)
                     PROVE  i <= j
          OBVIOUS
        <4>1. i \in DOMAIN r /\ y \in r[i] /\ i < k /\ i \in Nat /\ k \in Nat
          BY <1>2, <2>2
        <4>2. i <= j \/ k <= i
          BY <4>1 DEF NoneBetween
        <4> QED BY <4>1, <4>2
      <3>3. CounterSeen(u, v.id) = v.counter
        BY <2>2, <3>1, <3>2, LastIsSeen DEF q
      <3> QED BY <2>2, <3>3 DEF CountsOn, Says
    <2> QED BY <1>2, <2>1, <2>2
  <1> QED BY <1>4, <1>5

LEMMA ServeCounts ==
    ASSUME BurstInv, TypeOK', NEW u \in Users, Serve(u)
    PROVE  BurstInv'
  <1>1. TypeOK
    BY DEF BurstInv
  <1>2. PICK w \in Write, s \in {0, 1} : Taken(pending[u], pending'[u], w, s)
    BY <1>1, ServeShape
  <1>3. \A x \in Users \ {u} : pending'[x] = pending[x]
    BY <1>1, ServeShape
  <1> DEFINE q == pending[u]
             r == pending'[u]
  <1>4. Counted(q, u) /\ OneEach(q) /\ ResetsOwn(q, u)
    BY DEF BurstInv
  <1>5. /\ DOMAIN q \subseteq Nat \ {0} /\ DOMAIN r \subseteq Nat \ {0} /\ s \in {0, 1}
        /\ \A j \in DOMAIN r : j + s \in DOMAIN q /\ r[j] \subseteq q[j + s]
        /\ \A i \in DOMAIN q : \A x \in q[i] :
              i # 1 \/ x # w => i - s \in DOMAIN r /\ x \in r[i - s]
    BY <1>2 DEF Taken
  <1> HIDE DEF q, r
  <1>6. OneEach(r) /\ ResetsOwn(r, u)
    BY <1>4, <1>5 DEF OneEach, ResetsOwn
  <1>7. Counted(r, u)
    <2> SUFFICES ASSUME NEW j \in DOMAIN r, NEW k \in DOMAIN r, NEW v \in r[j], NEW x \in r[k],
                        v.op = "message", Says(x, v.id), v.id.userId # u,
                        j < k, NoneBetween(r, j, k, v.id)
                 PROVE  x.counter = v.counter + 1
      BY DEF Counted
    <2>1. /\ j + s \in DOMAIN q /\ v \in q[j + s] /\ k + s \in DOMAIN q /\ x \in q[k + s]
          /\ j \in Nat \ {0} /\ k \in Nat \ {0} /\ j + s < k + s
      BY <1>5
    <2>2. NoneBetween(q, j + s, k + s, v.id)
      <3> SUFFICES ASSUME NEW i \in DOMAIN q, NEW y \in q[i], Says(y, v.id)
                   PROVE  i <= j + s \/ k + s <= i
        BY DEF NoneBetween
      <3>1. CASE i = 1
        BY <1>5, <2>1, <3>1
      <3>2. CASE i # 1
        <4>1. i - s \in DOMAIN r /\ y \in r[i - s]
          BY <1>5, <3>2
        <4>2. i - s <= j \/ k <= i - s
          BY <4>1 DEF NoneBetween
        <4> QED BY <1>5, <2>1, <4>1, <4>2
      <3> QED BY <3>1, <3>2
    <2> QED BY <1>4, <2>1, <2>2 DEF Counted
  <1> QED BY <1>3, <1>6, <1>7 DEF BurstInv, r

LEMMA BurstNext == BurstInv /\ [Next]_vars => BurstInv'
  <1> SUFFICES ASSUME BurstInv, [Next]_vars
               PROVE  BurstInv'
    OBVIOUS
  <1>1. TypeOK /\ TypeOK'
    BY NextType DEF BurstInv
  <1>2. ASSUME UNCHANGED pending
        PROVE  BurstInv'
    BY <1>1, <1>2 DEF BurstInv
  <1>3. ASSUME NEW u \in Users, NEW batch \in SUBSET Write, pending' = Queue(u, batch),
               \A w \in batch : w.op # "message" /\ (w.op = "counter" => w.id.userId = u)
        PROVE  BurstInv'
    BY <1>1, <1>3, QueueCounts DEF CountsOn
  <1>4. ASSUME NEW u \in Users, NEW id \in Rows(u), DeleteRow(u, id)
        PROVE  BurstInv'
    <2>1. {Delete(id)} \in SUBSET Write /\ Delete(id).op = "delete"
      BY <1>1, VisibleType DEF Rows, Delete, Write
    <2> QED BY <1>3, <1>4, <2>1 DEF DeleteRow
  <1>5. ASSUME NEW u \in Users, Operation(u)
        PROVE  BurstInv'
    BY <1>2, <1>4, <1>5 DEF Operation, Start, Send, Back, Block, Kill, OpenRow, Mute
  <1>6. ASSUME NEW u \in Users, NEW c \in calls[u], Create(u, c)
        PROVE  BurstInv'
    <2> DEFINE batch == {NewRecent(u, o, c) : o \in Missing(u, c.members)}
    <2>1. c \in Call /\ c.kind = "create"
      BY <1>1, <1>6 DEF TypeOK, Create
    <2>2. batch \in SUBSET Write
      BY <1>1, <2>1, NewRecentType
    <2>3. \A w \in batch : w.op = "set"
      BY DEF NewRecent, SetData
    <2>4. pending' = Queue(u, batch)
      BY <1>6 DEF Create
    <2> HIDE DEF batch
    <2> QED BY <1>3, <2>2, <2>3, <2>4
  <1>7. ASSUME NEW u \in Users, NEW c \in calls[u], Update(u, c)
        PROVE  BurstInv'
    <2> DEFINE batch == {UpdateRecentItem(u, id, c.message) : id \in Visible(u)}
    <2>1. ASSUME NEW id \in Visible(u)
          PROVE  LET w == UpdateRecentItem(u, id, c.message)
                 IN  w \in Write /\ w.op = "message" /\ w.id = id /\ CountsOn(u, w)
      <3> DEFINE n == CounterSeen(u, id) + IF id.userId # u THEN 1 ELSE 0
                 w == UpdateRecentItem(u, id, c.message)
      <3>1. id \in Id /\ n \in Nat
        BY <1>1, VisibleType, CounterSeenType
      <3>2. c.message \in Nat
        <4>1. c \in Call /\ c.kind = "update"
          BY <1>1, <1>7 DEF TypeOK, Update
        <4> QED BY <4>1 DEF Call
      <3>3. w = [op |-> "message", id |-> id, lastMessage |-> c.message, counter |-> n]
        BY DEF UpdateRecentItem, UpdateMessage
      <3>4. w.op = "message" /\ w.id = id /\ CountsOn(u, w)
        BY <3>3 DEF CountsOn
      <3> HIDE DEF n, w
      <3>5. w \in Write
        BY <3>1, <3>2, <3>3 DEF Write
      <3> QED BY <3>4, <3>5 DEF w
    <2>2. pending' = Queue(u, batch)
      BY <1>7 DEF Update
    <2>3. /\ batch \in SUBSET Write
          /\ \A w \in batch : CountsOn(u, w) /\ w.op = "message"
      BY <2>1
    <2>4. ASSUME NEW v \in batch, NEW w \in batch, Says(w, v.id)
          PROVE  v = w
      BY <2>1, <2>4 DEF Says
    <2> HIDE DEF batch
    <2> QED BY <1>1, <2>2, <2>3, <2>4, QueueCounts
  <1>8. ASSUME NEW u \in Users, NEW c \in calls[u], Clear(u, c)
        PROVE  BurstInv'
    <2> DEFINE batch == {UpdateCounter(id, 0) : id \in {i \in Visible(u) : i.userId = u}}
    <2>1. batch \in SUBSET Write
      BY <1>1, VisibleType DEF UpdateCounter, Write
    <2>2. \A w \in batch : w.op = "counter" /\ w.id.userId = u
      BY DEF UpdateCounter
    <2>3. pending' = Queue(u, batch)
      BY <1>8 DEF Clear
    <2> HIDE DEF batch
    <2> QED BY <1>3, <2>1, <2>2, <2>3
  <1>9. ASSUME NEW u \in Users, NEW c \in calls[u], Push(u, c)
        PROVE  BurstInv'
    <2> DEFINE batch == {UpdatePush(id, c.list) : id \in Visible(u)}
    <2>1. c.list \in SUBSET Users
      <3>1. c \in Call /\ c.kind = "push"
        BY <1>1, <1>9 DEF TypeOK, Push
      <3> QED BY <3>1 DEF Call
    <2>2. batch \in SUBSET Write
      BY <1>1, <2>1, VisibleType DEF UpdatePush, Write
    <2>3. \A w \in batch : w.op = "push"
      BY DEF UpdatePush
    <2>4. pending' = Queue(u, batch)
      BY <1>9 DEF Push
    <2> HIDE DEF batch
    <2> QED BY <1>3, <2>2, <2>3, <2>4
  <1>10. ASSUME NEW u \in Users, NEW c \in calls[u], Erase(u, c)
         PROVE  BurstInv'
    <2> DEFINE batch == {Delete(id) : id \in Visible(u)}
    <2>1. batch \in SUBSET Write
      BY <1>1, VisibleType DEF Delete, Write
    <2>2. \A w \in batch : w.op = "delete"
      BY DEF Delete
    <2>3. pending' = Queue(u, batch)
      BY <1>10 DEF Erase
    <2> HIDE DEF batch
    <2> QED BY <1>3, <2>1, <2>2, <2>3
  <1>11. ASSUME NEW u \in Users, NEW c \in calls[u], Fail(u, c)
         PROVE  BurstInv'
    BY <1>2, <1>11 DEF Fail
  <1>12. ASSUME NEW u \in Users, Serve(u)
         PROVE  BurstInv'
    BY <1>1, <1>12, ServeCounts
  <1>13. CASE UNCHANGED vars
    BY <1>2, <1>13 DEF vars
  <1> QED BY <1>5, <1>6, <1>7, <1>8, <1>9, <1>10, <1>11, <1>12, <1>13
          DEF Next, Callback

\* A burst of messages from one client, sent before the server has applied any
\* of them, counts each: updateRecentItem reads its own last write, whatever
\* else its client queued in between and however much the server has taken.
THEOREM BurstsCounted == Spec => []BurstCountedExactly
  <1>1. Init => BurstInv
    <2> SUFFICES ASSUME Init PROVE BurstInv
      OBVIOUS
    <2>1. \A u \in Users : pending[u] = <<>>
      BY DEF Init
    <2>2. ASSUME NEW u \in Users
          PROVE  DOMAIN pending[u] = {}
      <3>1. pending[u] = <<>>
        BY <2>1
      <3> QED BY <3>1
    <2> QED BY <2>2, InitType DEF BurstInv, Counted, OneEach, ResetsOwn
  <1> QED BY <1>1, BurstNext, BurstInvSuffices, PTL DEF Spec

----------------------------------------------------------------------------
(* The agreement of the recents: the invariant.                             *)
(*                                                                          *)
(* While writes wait, the documents may differ. What agrees is what the     *)
(* sender's client sees: a document's newest message in its queue, else the *)
(* one at the server. Each updateRecents queues a message for all that the  *)
(* client sees; what comes up afterwards comes up empty. Two facts are      *)
(* needed besides: nobody else has a message queued, and no message waits   *)
(* for a document that another client has still to put up.                  *)

\* Under the queue q, document id shows message m or none.
Shows(q, id, m) ==
    /\ \A j \in DOMAIN q : \A w \in q[j] :
          Says(w, id) /\ (\A i \in DOMAIN q : \A x \in q[i] : Says(x, id) => i <= j)
              => w.lastMessage = m
    /\ (\A i \in DOMAIN q : \A x \in q[i] : ~Says(x, id)) /\ id \in DOMAIN docs
          => docs[id].lastMessage \in {0, m}

AgreedOn(u, m) == \A id \in Visible(u) : Shows(pending[u], id, m)

NoMessage(v) == \A w \in QueuedWrites(v) : w.op # "message"

\* Nobody but u has sent.
SentAlone(u) == announced[u] = 0

MessagesKnown ==
    \A u \in Users : \A w \in QueuedWrites(u) :
        w.op = "message" => w.id.creator = u \/ w.id \in DOMAIN docs \cup retired

AgreeInv ==
    /\ BoardInv
    /\ MessagesKnown
    /\ \A u \in Users : SentAlone(u) =>
          /\ \A v \in Others(u) : NoMessage(v)
          /\ \E m \in Nat : AgreedOn(u, m)

LEMMA AgreeInvSuffices == AgreeInv => AgreeOnLastMessage
  <1> SUFFICES ASSUME AgreeInv, Quiet, NEW u \in Users, announced[u] = 0
               PROVE  \A i, j \in DOMAIN docs :
                         docs[i].lastMessage = docs[j].lastMessage
                         \/ 0 \in {docs[i].lastMessage, docs[j].lastMessage}
    BY DEF AgreeOnLastMessage
  <1>1. PICK m \in Nat : AgreedOn(u, m)
    BY DEF AgreeInv, SentAlone
  <1>2. pending[u] = <<>>
    BY DEF Quiet
  <1>3. DOMAIN pending[u] = {}
    BY <1>2
  <1>4. ASSUME NEW id \in DOMAIN docs
        PROVE  docs[id].lastMessage \in {0, m}
    <2>1. Queued(u, {"delete"}, id) = {}
      BY <1>3 DEF Queued
    <2>2. id \in Visible(u)
      BY <2>1 DEF Visible
    <2> QED BY <1>1, <1>3, <2>2 DEF AgreedOn, Shows
  <1> QED BY <1>4

----------------------------------------------------------------------------
(* What a client sees.                                                      *)

\* In terms of the entries of its queue.
Puts(q, id) == \E j \in DOMAIN q : \E w \in q[j] : w.op = "set" /\ w.id = id
Deletes(q, id) == \E j \in DOMAIN q : \E w \in q[j] : w.op = "delete" /\ w.id = id

LEMMA VisibleByQueue ==
    ASSUME NEW u \in Users, NEW id
    PROVE  id \in Visible(u) <=>
               /\ id \in DOMAIN docs \/ Puts(pending[u], id)
               /\ ~Deletes(pending[u], id)
  <1>1. Queued(u, {"delete"}, id) = {} <=> ~Deletes(pending[u], id)
    <2>1. ASSUME NEW e \in Queued(u, {"delete"}, id)
          PROVE  Deletes(pending[u], id)
      BY <2>1 DEF Queued, Deletes
    <2>2. ASSUME NEW j \in DOMAIN pending[u], NEW w \in pending[u][j], w.op = "delete", w.id = id
          PROVE  <<j, w>> \in Queued(u, {"delete"}, id)
      BY <2>2 DEF Queued
    <2> QED BY <2>1, <2>2 DEF Deletes
  <1>2. (\E w \in QueuedSets(u) : w.id = id) <=> Puts(pending[u], id)
    BY DEF QueuedSets, Puts
  <1> QED BY <1>1, <1>2 DEF Visible

\* The same of the next state.
LEMMA VisibleByQueueNext ==
    ASSUME NEW u \in Users, NEW id
    PROVE  id \in Visible(u)' <=>
               /\ id \in DOMAIN docs' \/ Puts(pending'[u], id)
               /\ ~Deletes(pending'[u], id)
  <1>1. Queued(u, {"delete"}, id)' = {} <=> ~Deletes(pending'[u], id)
    <2>1. ASSUME NEW e \in Queued(u, {"delete"}, id)'
          PROVE  Deletes(pending'[u], id)
      BY <2>1 DEF Queued, Deletes
    <2>2. ASSUME NEW j \in DOMAIN pending'[u], NEW w \in pending'[u][j], w.op = "delete", w.id = id
          PROVE  <<j, w>> \in Queued(u, {"delete"}, id)'
      BY <2>2 DEF Queued
    <2> QED BY <2>1, <2>2 DEF Deletes
  <1>2. (\E w \in QueuedSets(u)' : w.id = id) <=> Puts(pending'[u], id)
    BY DEF QueuedSets, Puts
  <1> QED BY <1>1, <1>2 DEF Visible

----------------------------------------------------------------------------
(* The callbacks.                                                           *)

\* A batch without messages, whose sets draw their ids.
LEMMA QueueAgrees ==
    ASSUME AgreeInv, BoardInv', UNCHANGED <<docs, retired, announced>>,
           NEW u \in Users, NEW batch \in SUBSET Write, pending' = Queue(u, batch),
           \A w \in batch : w.op # "message" /\ (w.op = "set" => ~Drawn(w.id))
    PROVE  AgreeInv'
  <1>1. TypeOK /\ BoardInv
    BY DEF AgreeInv, BoardInv, CounterInv
  <1>2. ASSUME NEW v \in Users, NEW w \in QueuedWrites(v)', w.op = "message"
        PROVE  w \in QueuedWrites(v)
    BY <1>1, <1>2, QueueAdds
  <1>3. MessagesKnown'
    BY <1>2 DEF AgreeInv, MessagesKnown
  <1>4. ASSUME NEW x \in Users, NEW m \in Nat, AgreedOn(x, m), NEW id \in Visible(x)'
        PROVE  Shows(pending[x], id, m)' 
    <2> DEFINE q == pending[x]
               r == pending'[x]
    <2>1. /\ \A j \in DOMAIN r :
                \/ j \in DOMAIN q /\ r[j] = q[j]
                \/ x = u /\ r[j] = batch
          /\ \A j \in DOMAIN q : j \in DOMAIN r /\ r[j] = q[j]
      BY <1>1, Appended
    <2>2. id \in DOMAIN docs' \/ Puts(r, id)
      BY VisibleByQueueNext
    <2>3. ~Deletes(r, id)
      BY VisibleByQueueNext
    <2>4. id \in Visible(x) <=> (id \in DOMAIN docs \/ Puts(q, id)) /\ ~Deletes(q, id)
      BY VisibleByQueue
    <2>5. \A j \in DOMAIN q, w \in Write : w \in q[j] => w \in QueuedWrites(x)
      BY DEF QueuedWrites
    <2>6. \A j \in DOMAIN q : q[j] \subseteq Write
      BY <1>1 DEF TypeOK, Batch
    <2> HIDE DEF q, r
    <2>7. ~Deletes(q, id)
      BY <2>1, <2>3 DEF Deletes
    <2>8. \A j \in DOMAIN r : \A w \in r[j] : Says(w, id) => j \in DOMAIN q /\ w \in q[j]
      BY <2>1 DEF Says
    <2>9. CASE id \in DOMAIN docs \/ Puts(q, id)
      <3>1. Shows(q, id, m)
        BY <1>4, <2>4, <2>7, <2>9 DEF AgreedOn, q
      <3>2. \A j \in DOMAIN q : \A w \in q[j] : j \in DOMAIN r /\ w \in r[j]
        BY <2>1
      <3>3. ASSUME NEW j \in DOMAIN r, NEW w \in r[j], Says(w, id),
                   \A i \in DOMAIN r : \A y \in r[i] : Says(y, id) => i <= j
            PROVE  w.lastMessage = m
        <4>1. j \in DOMAIN q /\ w \in q[j]
          BY <2>8, <3>3
        <4>2. \A i \in DOMAIN q : \A y \in q[i] : Says(y, id) => i <= j
          BY <3>2, <3>3
        <4> QED BY <3>1, <3>3, <4>1, <4>2 DEF Shows
      <3>4. ASSUME \A i \in DOMAIN r : \A y \in r[i] : ~Says(y, id), id \in DOMAIN docs
            PROVE  docs[id].lastMessage \in {0, m}
        <4>1. \A i \in DOMAIN q : \A y \in q[i] : ~Says(y, id)
          BY <3>2, <3>4
        <4> QED BY <3>1, <3>4, <4>1 DEF Shows
      <3> QED BY <3>3, <3>4 DEF Shows, r
    <2>10. CASE id \notin DOMAIN docs /\ ~Puts(q, id)
      <3>1. PICK j \in DOMAIN r : \E w \in r[j] : w.op = "set" /\ w.id = id
        BY <2>2, <2>10 DEF Puts
      <3>2. ~(j \in DOMAIN q /\ r[j] = q[j])
        BY <2>10, <3>1 DEF Puts
      <3>3. ~Drawn(id)
        BY <2>1, <3>1, <3>2
      <3>4. \A i \in DOMAIN q : \A y \in q[i] : ~Says(y, id)
        BY <1>1, <2>5, <2>6, <3>3 DEF Says, BoardInv, FreshIds
      <3>5. \A i \in DOMAIN r : \A y \in r[i] : ~Says(y, id)
        BY <2>8, <3>4
      <3> QED BY <2>10, <3>5 DEF Shows, r
    <2> QED BY <2>9, <2>10
  <1>5. ASSUME NEW x \in Users, SentAlone(x)'
        PROVE  (\A v \in Others(x) : NoMessage(v)') /\ \E m \in Nat : AgreedOn(x, m)'
    <2>1. SentAlone(x)
      BY <1>5 DEF SentAlone
    <2>2. ASSUME NEW v \in Others(x) PROVE NoMessage(v)'
      BY <1>2, <2>1, <2>2 DEF AgreeInv, NoMessage, Others
    <2>3. PICK m \in Nat : AgreedOn(x, m)
      BY <2>1 DEF AgreeInv
    <2>4. AgreedOn(x, m)'
      BY <1>4, <2>3 DEF AgreedOn
    <2> QED BY <2>2, <2>4
  <1> QED BY <1>3, <1>5 DEF AgreeInv, Others

\* updateRecents: a message for all that the client sees.
LEMMA UpdateAgrees ==
    ASSUME AgreeInv, BoardInv', NEW u \in Users, NEW c \in calls[u], Update(u, c)
    PROVE  AgreeInv'
  <1> DEFINE batch == {UpdateRecentItem(u, id, c.message) : id \in Visible(u)}
             m == c.message
  <1>1. TypeOK /\ TypeOK' /\ BoardInv /\ c \in Call
    BY DEF AgreeInv, BoardInv, CounterInv, TypeOK
  <1>2. /\ c.kind = "update" /\ pending' = Queue(u, batch) /\ UNCHANGED <<docs, retired>>
        /\ announced' = [v \in Users |-> announced[v] + IF v # u THEN 1 ELSE 0]
    BY DEF Update
  <1>3. m \in Nat
    BY <1>1, <1>2 DEF Call
  <1>4. ASSUME NEW w \in batch
        PROVE  /\ w \in Write /\ w.op = "message" /\ w.lastMessage = m
               /\ w.id \in Visible(u)
    <2>1. PICK id \in Visible(u) : w = UpdateRecentItem(u, id, m)
      OBVIOUS
    <2>2. id \in Id /\ CounterSeen(u, id) \in Nat
      BY <1>1, <2>1, VisibleType, CounterSeenType
    <2>3. w \in Write
      BY <1>3, <2>1, <2>2 DEF UpdateRecentItem, UpdateMessage, Write
    <2> QED BY <2>1, <2>3 DEF UpdateRecentItem, UpdateMessage
  <1>5. ASSUME NEW id \in Visible(u)
        PROVE  \E w \in batch : Says(w, id)
    <2>1. UpdateRecentItem(u, id, m) \in batch
      OBVIOUS
    <2> QED BY <2>1 DEF UpdateRecentItem, UpdateMessage, Says
  <1>6. batch \in SUBSET Write
    BY <1>4
  <1> HIDE DEF batch, m
  <1>7. ASSUME NEW v \in Users, NEW w \in QueuedWrites(v)'
        PROVE  w \in QueuedWrites(v) \/ (v = u /\ w \in batch)
    BY <1>1, <1>2, <1>6, <1>7, QueueAdds
  <1>8. ASSUME NEW id \in Visible(u), id \notin DOMAIN docs
        PROVE  id.creator = u
    <2>1. PICK w \in QueuedSets(u) : w.id = id
      BY <1>8 DEF Visible
    <2>2. w \in QueuedWrites(u) /\ w.op = "set"
      BY DEF QueuedSets, QueuedWrites
    <2> QED BY <1>1, <2>1, <2>2 DEF BoardInv, SetsAreNew, EmptyRow
  <1>9. MessagesKnown'
    <2> SUFFICES ASSUME NEW v \in Users, NEW w \in QueuedWrites(v)', w.op = "message"
                 PROVE  w.id.creator = v \/ w.id \in DOMAIN docs \cup retired
      BY <1>2 DEF MessagesKnown
    <2>1. CASE w \in QueuedWrites(v)
      BY <2>1 DEF AgreeInv, MessagesKnown
    <2>2. CASE v = u /\ w \in batch
      BY <1>4, <1>8, <2>2
    <2> QED BY <1>7, <2>1, <2>2
  <1>10. ASSUME NEW x \in Users, SentAlone(x)'
         PROVE  x = u /\ SentAlone(x)
    <2>1. announced[x] \in Nat /\ announced'[x] = announced[x] + IF x # u THEN 1 ELSE 0
      BY <1>1, <1>2 DEF TypeOK
    <2> QED BY <1>10, <2>1 DEF SentAlone
  <1>11. AgreedOn(u, m)'
    <2> DEFINE q == pending[u]
               r == pending'[u]
    <2> SUFFICES ASSUME NEW id \in Visible(u)'
                 PROVE  Shows(pending[u], id, m)'
      BY DEF AgreedOn
    <2>1. /\ \A j \in DOMAIN r :
                \/ j \in DOMAIN q /\ r[j] = q[j]
                \/ r[j] = batch /\ j = Len(q) + 1 /\ \A i \in DOMAIN q : i < j
          /\ \A j \in DOMAIN q : j \in DOMAIN r /\ r[j] = q[j]
          /\ DOMAIN r \subseteq Nat
      BY <1>1, <1>2, <1>6, Appended
    <2>2. (id \in DOMAIN docs' \/ Puts(r, id)) /\ ~Deletes(r, id)
      BY VisibleByQueueNext
    <2>3. id \in Visible(u) <=> (id \in DOMAIN docs \/ Puts(q, id)) /\ ~Deletes(q, id)
      BY VisibleByQueue
    <2>4. pending[u] \in Seq(Batch)
      BY <1>1 DEF TypeOK
    <2>5. batch # {} => Len(q) + 1 \in DOMAIN r /\ r[Len(q) + 1] = batch
      <3>1. CASE batch # {}
        <4>1. batch \in Batch
          BY <1>6, <3>1 DEF Batch
        <4>2. pending'[u] = Append(pending[u], batch)
          BY <1>1, <1>2, <3>1 DEF Queue, TypeOK
        <4> QED BY <2>4, <4>1, <4>2
      <3> QED BY <3>1
    <2> HIDE DEF q, r
    <2>6. Puts(r, id) => Puts(q, id)
      <3> SUFFICES ASSUME NEW j \in DOMAIN r, NEW w \in r[j], w.op = "set", w.id = id
                   PROVE  Puts(q, id)
        BY DEF Puts
      <3>1. w \notin batch
        BY <1>4
      <3> QED BY <2>1, <3>1 DEF Puts
    <2>7. ~Deletes(q, id)
      BY <2>1, <2>2 DEF Deletes
    <2>8. id \in Visible(u)
      BY <1>2, <2>2, <2>3, <2>6, <2>7
    <2>9. PICK b \in batch : Says(b, id)
      BY <1>5, <2>8
    <2>10. Len(q) + 1 \in DOMAIN r /\ b \in r[Len(q) + 1]
      BY <2>5, <2>9
    <2>11. ASSUME NEW j \in DOMAIN r, NEW w \in r[j], Says(w, id),
                  \A i \in DOMAIN r : \A y \in r[i] : Says(y, id) => i <= j
           PROVE  w.lastMessage = m
      <3>1. Len(q) + 1 <= j
        BY <2>9, <2>10, <2>11
      <3>2. ~(j \in DOMAIN q /\ r[j] = q[j])
        <4>1. ASSUME j \in DOMAIN q PROVE FALSE
          <5>1. j < Len(q) + 1
            BY <2>4, <4>1 DEF q
          <5>2. j \in Nat /\ Len(q) + 1 \in Nat
            BY <2>1, <2>10
          <5> QED BY <3>1, <5>1, <5>2
        <4> QED BY <4>1
      <3>3. w \in batch
        BY <2>1, <3>2
      <3> QED BY <1>4, <3>3
    <2>12. ~(\A i \in DOMAIN r : \A y \in r[i] : ~Says(y, id))
      BY <2>9, <2>10
    <2> QED BY <2>11, <2>12 DEF Shows, r
  <1>12. ASSUME NEW x \in Users, SentAlone(x)'
         PROVE  (\A v \in Others(x) : NoMessage(v)') /\ \E n \in Nat : AgreedOn(x, n)'
    <2>1. x = u /\ SentAlone(x)
      BY <1>10, <1>12
    <2>2. ASSUME NEW v \in Others(x) PROVE NoMessage(v)'
      <3>1. v \in Users /\ v # u /\ NoMessage(v)
        BY <2>1, <2>2 DEF AgreeInv, Others
      <3> QED BY <1>7, <3>1 DEF NoMessage
    <2> QED BY <1>3, <1>11, <2>1, <2>2
  <1> QED BY <1>9, <1>12 DEF AgreeInv, Others

----------------------------------------------------------------------------
(* The server.                                                              *)

\* What a document at the server shows after the write w.
LEMMA ShownAfter ==
    ASSUME TypeOK, NEW w \in Write, Apply(w), NEW id \in DOMAIN docs'
    PROVE  \/ w.op = "set" /\ w.id = id /\ docs'[id] = w.doc
           \/ /\ id \in DOMAIN docs
              /\ docs'[id].lastMessage = IF Says(w, id) THEN w.lastMessage ELSE docs[id].lastMessage
  <1>1. CASE ApplySet(w)
    BY <1>1 DEF ApplySet, Says
  <1>2. CASE ApplyPatch(w)
    <2>1. /\ id \in DOMAIN docs /\ w.op \in {"message", "counter", "push"}
          /\ docs'[id] = IF id = w.id THEN Patched(docs[id], w) ELSE docs[id]
      BY <1>2 DEF ApplyPatch, Patches
    <2>2. docs[id] \in Recent
      BY <2>1 DEF TypeOK
    <2>3. Patched(docs[id], w).lastMessage =
             IF w.op = "message" THEN w.lastMessage ELSE docs[id].lastMessage
      <3>1. CASE w.op = "message"
        BY <2>2, <3>1 DEF Patched, Recent
      <3>2. CASE w.op = "counter"
        BY <2>2, <3>2 DEF Patched, Recent
      <3>3. CASE w.op = "push"
        BY <2>2, <3>3 DEF Patched, Recent
      <3> QED BY <2>1, <3>1, <3>2, <3>3
    <2> QED BY <2>1, <2>3 DEF Says
  <1>3. CASE RejectPatch(w)
    BY <1>3 DEF RejectPatch, Says
  <1>4. CASE ApplyDelete(w)
    BY <1>4 DEF ApplyDelete, Says
  <1> QED BY <1>1, <1>2, <1>3, <1>4 DEF Apply

\* A write of the sender's own: the message it carries is the one agreed on.
LEMMA ServeOwn ==
    ASSUME AgreeInv, TypeOK', NEW u \in Users, Serve(u), NEW m \in Nat, AgreedOn(u, m)
    PROVE  AgreedOn(u, m)'
  <1> DEFINE q == pending[u]
             r == pending'[u]
  <1> SUFFICES ASSUME NEW id \in Visible(u)'
               PROVE  Shows(pending[u], id, m)'
    BY DEF AgreedOn
  <1>1. TypeOK /\ BoardInv
    BY DEF AgreeInv, BoardInv, CounterInv
  <1>2. PICK w \in Write, s \in {0, 1} : Apply(w) /\ Taken(q, r, w, s)
    BY <1>1, ServeShape
  <1>3. (id \in DOMAIN docs' \/ Puts(r, id)) /\ ~Deletes(r, id)
    BY VisibleByQueueNext
  <1>4. id \in Visible(u) <=> (id \in DOMAIN docs \/ Puts(q, id)) /\ ~Deletes(q, id)
    BY VisibleByQueue
  <1>5. w.op = "set" => w.doc.lastMessage = 0
    <2>1. w \in QueuedWrites(u)
      BY <1>2 DEF Taken, QueuedWrites
    <2> QED BY <1>1, <2>1 DEF BoardInv, SetsAreNew, EmptyRow
  <1>6. SetThenDelete(q)
    BY <1>1 DEF BoardInv, InOrderOfDeletion
  <1>7. w.op = "delete" => DOMAIN docs' = DOMAIN docs \ {w.id}
    BY <1>1, <1>2, Applying DEF BoardInv
  <1>8. \A x \in Write : x.op = "delete" => x = Delete(x.id)
    BY DEF Write, Delete
  <1>9. /\ DOMAIN q \subseteq Nat \ {0} /\ DOMAIN r \subseteq Nat \ {0} /\ s \in {0, 1}
        /\ 1 \in DOMAIN q /\ w \in q[1]
        /\ \A j \in DOMAIN r : j + s \in DOMAIN q /\ r[j] \subseteq q[j + s]
        /\ \A i \in DOMAIN q : \A x \in q[i] :
              i # 1 \/ x # w => i - s \in DOMAIN r /\ x \in r[i - s]
    BY <1>2 DEF Taken
  <1>10. \A id2 \in DOMAIN docs' :
            \/ w.op = "set" /\ w.id = id2 /\ docs'[id2] = w.doc
            \/ /\ id2 \in DOMAIN docs
               /\ docs'[id2].lastMessage = IF Says(w, id2) THEN w.lastMessage ELSE docs[id2].lastMessage
    BY <1>1, <1>2, ShownAfter
  <1>11. AgreedOn(u, m) /\ w \in Write
    BY <1>2
  <1> HIDE DEF q, r
  <1>12. Puts(r, id) => Puts(q, id)
    BY <1>9 DEF Puts
  <1>13. id \in DOMAIN docs \/ Puts(q, id)
    <2>1. CASE Puts(r, id)
      BY <1>12, <2>1
    <2>2. CASE id \in DOMAIN docs'
      BY <1>9, <1>10, <2>2 DEF Puts
    <2> QED BY <1>3, <2>1, <2>2
  <1>14. ~Deletes(q, id)
    <2> SUFFICES ASSUME NEW i \in DOMAIN q, NEW x \in q[i], x.op = "delete", x.id = id
                 PROVE  FALSE
      BY DEF Deletes
    <2>1. i = 1 /\ x = w
      BY <1>3, <1>9 DEF Deletes
    <2>2. w = Delete(id) /\ id \notin DOMAIN docs'
      BY <1>7, <1>8, <1>11, <2>1
    <2>3. PICK j \in DOMAIN r : \E y \in r[j] : y.op = "set" /\ y.id = id
      BY <1>3, <2>2 DEF Puts
    <2>4. j + s \in DOMAIN q /\ \E y \in q[j + s] : y.op = "set" /\ y.id = id
      BY <1>9, <2>3
    <2>5. j + s < 1
      BY <1>6, <1>9, <2>2, <2>4 DEF SetThenDelete, DeletesAt
    <2>6. j \in Nat \ {0} /\ s \in Nat
      BY <1>9
    <2> QED BY <2>5, <2>6
  <1>15. Shows(q, id, m)
    BY <1>4, <1>11, <1>13, <1>14 DEF AgreedOn, q
  <1>16. ASSUME NEW j \in DOMAIN r, NEW y \in r[j], Says(y, id),
                \A i \in DOMAIN r : \A x \in r[i] : Says(x, id) => i <= j
         PROVE  y.lastMessage = m
    <2>1. j + s \in DOMAIN q /\ y \in q[j + s]
      BY <1>9
    <2>2. ASSUME NEW i \in DOMAIN q, NEW x \in q[i], Says(x, id)
          PROVE  i <= j + s
      <3>1. j \in Nat \ {0} /\ i \in Nat \ {0} /\ s \in {0, 1}
        BY <1>9
      <3>2. CASE i = 1
        BY <3>1, <3>2
      <3>3. CASE i # 1
        <4>1. i - s \in DOMAIN r /\ x \in r[i - s]
          BY <1>9, <3>3
        <4>2. i - s <= j
          BY <1>16, <2>2, <4>1
        <4> QED BY <3>1, <4>2
      <3> QED BY <3>2, <3>3
    <2> QED BY <1>15, <1>16, <2>1, <2>2 DEF Shows
  <1>17. ASSUME \A i \in DOMAIN r : \A x \in r[i] : ~Says(x, id), id \in DOMAIN docs'
         PROVE  docs'[id].lastMessage \in {0, m}
    <2>1. ASSUME NEW i \in DOMAIN q, NEW x \in q[i], Says(x, id)
          PROVE  i = 1 /\ x = w
      BY <1>9, <1>17, <2>1
    <2>2. CASE w.op = "set" /\ w.id = id /\ docs'[id] = w.doc
      BY <1>5, <2>2
    <2>3. CASE /\ id \in DOMAIN docs
               /\ docs'[id].lastMessage = IF Says(w, id) THEN w.lastMessage ELSE docs[id].lastMessage
      <3>1. CASE Says(w, id)
        <4>1. \A i \in DOMAIN q : \A x \in q[i] : Says(x, id) => i <= 1
          BY <2>1
        <4>2. w.lastMessage = m
          BY <1>9, <1>15, <3>1, <4>1 DEF Shows
        <4> QED BY <2>3, <3>1, <4>2
      <3>2. CASE ~Says(w, id)
        <4>1. \A i \in DOMAIN q : \A x \in q[i] : ~Says(x, id)
          BY <2>1, <3>2
        <4> QED BY <1>15, <2>3, <3>2, <4>1 DEF Shows
      <3> QED BY <3>1, <3>2
    <2> QED BY <1>10, <1>17, <2>2, <2>3
  <1> QED BY <1>16, <1>17 DEF Shows, r

\* A write of somebody else's, who has not sent: what it puts up is empty, and
\* the sender has no message queued for it.
LEMMA ServeOther ==
    ASSUME AgreeInv, TypeOK', NEW u \in Users, Serve(u), NoMessage(u),
           NEW x \in Others(u), NEW m \in Nat, AgreedOn(x, m)
    PROVE  AgreedOn(x, m)'
  <1> SUFFICES ASSUME NEW id \in Visible(x)'
               PROVE  Shows(pending[x], id, m)'
    BY DEF AgreedOn
  <1> DEFINE q == pending[x]
  <1>1. TypeOK /\ BoardInv /\ x \in Users /\ x # u
    BY DEF AgreeInv, BoardInv, CounterInv, Others
  <1>2. PICK w \in Write, s \in {0, 1} : Apply(w) /\ Taken(pending[u], pending'[u], w, s)
    BY <1>1, ServeShape
  <1>3. pending'[x] = q
    BY <1>1, ServeShape
  <1>4. w \in QueuedWrites(u)
    BY <1>2 DEF Taken, QueuedWrites
  <1>5. ~Says(w, id)
    BY <1>4 DEF NoMessage, Says
  <1>6. (id \in DOMAIN docs' \/ Puts(q, id)) /\ ~Deletes(q, id)
    BY <1>1, <1>3, VisibleByQueueNext
  <1>7. id \in Visible(x) <=> (id \in DOMAIN docs \/ Puts(q, id)) /\ ~Deletes(q, id)
    BY <1>1, VisibleByQueue
  <1>8. w.op = "set" => w.doc.lastMessage = 0 /\ w.id.creator = u /\ w.id \notin DOMAIN docs \cup retired
    BY <1>1, <1>4 DEF BoardInv, SetsAreNew, EmptyRow
  <1>9. id \in DOMAIN docs' =>
           \/ w.op = "set" /\ w.id = id /\ docs'[id] = w.doc
           \/ id \in DOMAIN docs /\ docs'[id].lastMessage = docs[id].lastMessage
    BY <1>1, <1>2, <1>5, ShownAfter
  <1>10. \A j \in DOMAIN q : \A y \in q[j] :
            Says(y, id) => id.creator = x \/ id \in DOMAIN docs \cup retired
    BY <1>1 DEF AgreeInv, MessagesKnown, QueuedWrites, Says
  <1>11. CASE id \in DOMAIN docs \/ Puts(q, id)
    <2>1. Shows(q, id, m)
      BY <1>6, <1>7, <1>11 DEF AgreedOn
    <2>2. ASSUME \A i \in DOMAIN q : \A y \in q[i] : ~Says(y, id), id \in DOMAIN docs'
          PROVE  docs'[id].lastMessage \in {0, m}
      BY <1>8, <1>9, <2>1, <2>2 DEF Shows
    <2> HIDE DEF q
    <2> QED BY <1>3, <2>1, <2>2 DEF Shows
  <1>12. CASE id \notin DOMAIN docs /\ ~Puts(q, id)
    <2>1. w.op = "set" /\ w.id = id /\ docs'[id] = w.doc
      BY <1>6, <1>9, <1>12
    <2>2. \A j \in DOMAIN q : \A y \in q[j] : ~Says(y, id)
      BY <1>1, <1>8, <1>10, <2>1
    <2>3. docs'[id].lastMessage = 0
      BY <1>8, <2>1
    <2> HIDE DEF q
    <2> QED BY <1>3, <2>2, <2>3 DEF Shows
  <1> QED BY <1>11, <1>12

LEMMA ServeAgrees ==
    ASSUME AgreeInv, BoardInv', NEW u \in Users, Serve(u)
    PROVE  AgreeInv'
  <1>1. TypeOK /\ TypeOK' /\ BoardInv
    BY DEF AgreeInv, BoardInv, CounterInv
  <1>2. ASSUME NEW v \in Users, NEW w \in QueuedWrites(v)'
        PROVE  w \in QueuedWrites(v)
    BY <1>1, <1>2, ServeTakes
  <1>3. DOMAIN docs \cup retired \subseteq DOMAIN docs' \cup retired'
    BY DEF Serve
  <1>4. MessagesKnown'
    BY <1>2, <1>3 DEF AgreeInv, MessagesKnown
  <1>5. ASSUME NEW x \in Users, SentAlone(x)'
        PROVE  (\A v \in Others(x) : NoMessage(v)') /\ \E n \in Nat : AgreedOn(x, n)'
    <2>1. SentAlone(x)
      BY <1>5 DEF SentAlone, Serve
    <2>2. \A v \in Others(x) : NoMessage(v)
      BY <2>1 DEF AgreeInv
    <2>3. PICK m \in Nat : AgreedOn(x, m)
      BY <2>1 DEF AgreeInv
    <2>4. AgreedOn(x, m)'
      <3>1. CASE x = u
        BY <1>1, <2>3, <3>1, ServeOwn
      <3>2. CASE x # u
        <4>1. u \in Others(x) /\ x \in Others(u)
          BY <3>2 DEF Others
        <4> QED BY <1>1, <2>2, <2>3, <4>1, ServeOther
      <3> QED BY <3>1, <3>2
    <2>5. ASSUME NEW v \in Others(x) PROVE NoMessage(v)'
      BY <1>2, <2>2, <2>5 DEF NoMessage, Others
    <2> QED BY <2>4, <2>5
  <1> QED BY <1>4, <1>5 DEF AgreeInv, Others

----------------------------------------------------------------------------
LEMMA AgreeNext == AgreeInv /\ [Next]_vars => AgreeInv'
  <1> SUFFICES ASSUME AgreeInv, [Next]_vars
               PROVE  AgreeInv'
    OBVIOUS
  <1>1. TypeOK /\ BoardInv /\ BoardInv'
    BY BoardInvNext DEF AgreeInv, BoardInv, CounterInv
  <1>2. ASSUME UNCHANGED <<docs, pending, retired, announced>>
        PROVE  AgreeInv'
    <2>1. \A u \in Users, m \in Nat : AgreedOn(u, m) => AgreedOn(u, m)'
      BY <1>2, VisibleByQueue, VisibleByQueueNext DEF AgreedOn, Shows
    <2>2. MessagesKnown' /\ \A u \in Users : (SentAlone(u)' => SentAlone(u))
                                             /\ (NoMessage(u) => NoMessage(u)')
      BY <1>2 DEF AgreeInv, MessagesKnown, NoMessage, SentAlone, QueuedWrites
    <2> QED BY <1>1, <2>1, <2>2 DEF AgreeInv, Others
  <1>3. ASSUME NEW u \in Users, NEW batch \in SUBSET Write, pending' = Queue(u, batch),
               UNCHANGED <<docs, retired, announced>>,
               \A w \in batch : w.op # "message" /\ w.op # "set"
        PROVE  AgreeInv'
    BY <1>1, <1>3, QueueAgrees
  <1>4. ASSUME NEW u \in Users, NEW id \in Rows(u), DeleteRow(u, id)
        PROVE  AgreeInv'
    <2>1. {Delete(id)} \in SUBSET Write /\ Delete(id).op = "delete"
      BY <1>1, VisibleType DEF Rows, Delete, Write
    <2> QED BY <1>3, <1>4, <2>1 DEF DeleteRow
  <1>5. ASSUME NEW u \in Users, Operation(u)
        PROVE  AgreeInv'
    BY <1>2, <1>4, <1>5 DEF Operation, Start, Send, Back, Block, Kill, OpenRow, Mute
  <1>6. ASSUME NEW u \in Users, NEW c \in calls[u], Create(u, c)
        PROVE  AgreeInv'
    <2> DEFINE batch == {NewRecent(u, o, c) : o \in Missing(u, c.members)}
    <2>1. c.kind = "create"
      BY <1>6 DEF Create
    <2>2. ASSUME NEW o \in Missing(u, c.members)
          PROVE  LET w == NewRecent(u, o, c)
                 IN  w \in Write /\ w.op = "set" /\ ~Drawn(w.id)
      BY <1>1, <2>1, NewIsNew
    <2>3. \A w \in batch : w \in Write /\ w.op = "set" /\ ~Drawn(w.id)
      BY <2>2
    <2>4. pending' = Queue(u, batch) /\ UNCHANGED <<docs, retired, announced>>
      BY <1>6 DEF Create
    <2> HIDE DEF batch
    <2> QED BY <1>1, <2>3, <2>4, QueueAgrees
  <1>7. ASSUME NEW u \in Users, NEW c \in calls[u], Update(u, c)
        PROVE  AgreeInv'
    BY <1>1, <1>7, UpdateAgrees
  <1>8. ASSUME NEW u \in Users, NEW c \in calls[u], Clear(u, c)
        PROVE  AgreeInv'
    <2>1. \A id \in Visible(u) : UpdateCounter(id, 0) \in Write /\ UpdateCounter(id, 0).op = "counter"
      BY <1>1, VisibleType DEF UpdateCounter, Write
    <2> QED BY <1>3, <1>8, <2>1 DEF Clear
  <1>9. ASSUME NEW u \in Users, NEW c \in calls[u], Push(u, c)
        PROVE  AgreeInv'
    <2>1. c.list \in SUBSET Users
      <3>1. c \in Call /\ c.kind = "push"
        BY <1>1, <1>9 DEF TypeOK, Push
      <3> QED BY <3>1 DEF Call
    <2>2. \A id \in Visible(u) : UpdatePush(id, c.list) \in Write /\ UpdatePush(id, c.list).op = "push"
      BY <1>1, <2>1, VisibleType DEF UpdatePush, Write
    <2> QED BY <1>3, <1>9, <2>2 DEF Push
  <1>10. ASSUME NEW u \in Users, NEW c \in calls[u], Erase(u, c)
         PROVE  AgreeInv'
    <2>1. \A id \in Visible(u) : Delete(id) \in Write /\ Delete(id).op = "delete"
      BY <1>1, VisibleType DEF Delete, Write
    <2> QED BY <1>3, <1>10, <2>1 DEF Erase
  <1>11. ASSUME NEW u \in Users, NEW c \in calls[u], Fail(u, c)
         PROVE  AgreeInv'
    BY <1>2, <1>11 DEF Fail
  <1>12. ASSUME NEW u \in Users, Serve(u)
         PROVE  AgreeInv'
    BY <1>1, <1>12, ServeAgrees
  <1>13. CASE UNCHANGED vars
    BY <1>2, <1>13 DEF vars
  <1> QED BY <1>5, <1>6, <1>7, <1>8, <1>9, <1>10, <1>11, <1>12, <1>13 DEF Next, Callback

\* As long as at most one user has sent, all recents at the server show the same
\* message once nothing waits, those apart that show none yet: whoever starts,
\* restarts, mutes, deletes or blocks meanwhile, and however the queues of the
\* clients interleave.
THEOREM LastMessageAgrees == Spec => []AgreeOnLastMessage
  <1>1. Init => AgreeInv
    <2> SUFFICES ASSUME Init PROVE AgreeInv
      OBVIOUS
    <2>1. BoardInv
      BY BoardInvInit
    <2>2. ASSUME NEW u \in Users
          PROVE  QueuedWrites(u) = {} /\ Visible(u) = {}
      <3>1. pending[u] = <<>> /\ DOMAIN docs = {}
        BY DEF Init
      <3>2. DOMAIN pending[u] = {}
        BY <3>1
      <3> QED BY <3>1, <3>2 DEF QueuedWrites, Visible, QueuedSets
    <2>3. \A u \in Users : AgreedOn(u, 0)
      BY <2>2 DEF AgreedOn
    <2> QED BY <2>1, <2>2, <2>3 DEF AgreeInv, MessagesKnown, NoMessage, Others
  <1> QED BY <1>1, AgreeNext, AgreeInvSuffices, PTL DEF Spec
=============================================================================
