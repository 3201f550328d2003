---------------------------- MODULE MessagesProofs ----------------------------
(* The safety properties of Messages, for every set of users, number of      *)
(* messages and screens, time zones and faults.                              *)
EXTENDS Messages, TLAPS

--------------------------------------------------------------------------------
(* Types.                                                                      *)

Message == [sender : Users, kind : AllKinds, date : Nat]

Mails == [op : {"set", "read", "delete"}, to : Users, msg : Nat]

ChatScreen ==
    [phase : {"none", "loading", "listening", "closed"}, open : BOOLEAN,
     covered : BOOLEAN, push : SUBSET Users, from : Nat, listened : SUBSET Msg, earlier : SUBSET Msg,
     history : {"none", "asked", "loaded"}, rows : [Msg -> Nat], asRead : SUBSET Msg]

TypeOK ==
    /\ time \in Nat
    /\ scenario \in Scenarios
    /\ log \in Seq(Message) /\ Len(log) <= MaxMessages
    /\ box = [u \in Users |-> box[u]]
    /\ \A u \in Users : DOMAIN box[u] \subseteq Composed
    /\ pending \in [Users -> Seq(SUBSET Mails)]
    /\ \A u \in Users : \A w \in Writes(u) : w.msg \in Composed
    /\ ahead \in [Users -> Nat]
    /\ uploads \in [Users -> SUBSET Nat]
    /\ receipts \in [Users -> SUBSET (Users \X Msg)]
    /\ screen \in [Screen -> ChatScreen]
    /\ deleted \in [Users -> SUBSET Msg] /\ outlived \in [Users -> SUBSET Msg]
    /\ seen \in [Users -> SUBSET Msg] /\ unseen \in [Users -> SUBSET Msg]
    /\ lost \in Nat
    /\ repeated \subseteq Msg

LEMMA Constants ==
    /\ MaxMessages \in Nat /\ MaxScreens \in Nat
    /\ \A c \in Scenarios : /\ c.zone \in [Users -> Nat]
                            /\ c.push \subseteq SUBSET Users
                            /\ c.messages \in 0..MaxMessages
  BY BoundAssumption, ScenarioAssumption

\* What is composed is numbered.
LEMMA ComposedMsg ==
    ASSUME TypeOK
    PROVE  /\ Composed = 1..Len(log) /\ Len(log) \in Nat /\ Composed \subseteq Msg
           /\ \A m \in Composed : Date(m) \in Nat /\ Sender(m) \in Users
  <1>1. Composed = 1..Len(log) /\ Len(log) \in Nat
    BY DEF TypeOK, Composed
  <1>2. \A m \in Composed : log[m] \in Message
    BY <1>1 DEF TypeOK
  <1>3. Composed \subseteq Msg
    <2>1. Len(log) <= MaxMessages
      BY DEF TypeOK
    <2> QED BY <1>1, <2>1, Constants DEF Msg
  <1> QED BY <1>1, <1>2, <1>3 DEF Message, Date, Sender

LEMMA ScreenOfUser ==
    ASSUME NEW s \in Screen
    PROVE  UserOf(s) \in Users
  BY DEF Screen, UserOf

LEMMA VisibleIsComposed ==
    ASSUME TypeOK, NEW u \in Users, NEW v \in Users
    PROVE  Visible(u, v) \subseteq Composed /\ Visible(u, v) \subseteq Msg
  <1>1. Visible(u, v) \subseteq Composed
    BY DEF TypeOK, Visible
  <1> QED BY <1>1, ComposedMsg

\* The log only grows at its end.
LogGrows == \/ UNCHANGED log
            \/ \E d \in Message : log' = Append(log, d) /\ Len(log) < MaxMessages

LEMMA LogStays ==
    ASSUME TypeOK, LogGrows
    PROVE  /\ log' \in Seq(Message) /\ Len(log') <= MaxMessages
           /\ Composed \subseteq Composed'
           /\ \A m \in Composed : log'[m] = log[m]
           /\ log' # log => Composed' = Composed \cup {NewId} /\ NewId \notin Composed
  <1>1. log \in Seq(Message) /\ Len(log) \in Nat /\ MaxMessages \in Nat /\ Len(log) <= MaxMessages
    BY Constants DEF TypeOK
  <1>2. CASE UNCHANGED log
    BY <1>1, <1>2 DEF Composed
  <1>3. ASSUME NEW d \in Message, log' = Append(log, d), Len(log) < MaxMessages
        PROVE  /\ log' \in Seq(Message) /\ Len(log') = Len(log) + 1
               /\ DOMAIN log = 1..Len(log) /\ DOMAIN log' = 1..(Len(log) + 1)
               /\ \A m \in 1..Len(log) : log'[m] = log[m]
    BY <1>1, <1>3
  <1>4. ASSUME NEW d \in Message, log' = Append(log, d), Len(log) < MaxMessages
        PROVE  /\ Composed' = Composed \cup {NewId} /\ NewId \notin Composed
               /\ \A m \in Composed : log'[m] = log[m]
    <2>1. Composed = 1..Len(log) /\ Composed' = 1..(Len(log) + 1)
      BY <1>3, <1>4 DEF Composed
    <2> QED BY <1>1, <1>3, <1>4, <2>1 DEF NewId
  <1>5. ASSUME NEW d \in Message, log' = Append(log, d), Len(log) < MaxMessages
        PROVE  log' \in Seq(Message) /\ Len(log') <= MaxMessages
    BY <1>1, <1>3, <1>5
  <1> QED BY <1>1, <1>2, <1>4, <1>5 DEF LogGrows

LEMMA ComposeGrows ==
    ASSUME TypeOK, NEW u \in Users, NEW kind \in AllKinds, NEW date \in Nat,
           Compose(u, kind, date)
    PROVE  LogGrows /\ log' # log
  <1>1. [sender |-> u, kind |-> kind, date |-> date] \in Message
    BY DEF Message
  <1>2. Len(log) < MaxMessages
    BY Constants DEF TypeOK, Compose
  <1>3. log' = Append(log, [sender |-> u, kind |-> kind, date |-> date])
    BY DEF Compose
  <1>4. log \in Seq(Message) /\ Len(log) \in Nat
    BY DEF TypeOK
  <1>5. log' # log
    BY <1>1, <1>3, <1>4
  <1> QED BY <1>1, <1>2, <1>3, <1>5 DEF LogGrows

--------------------------------------------------------------------------------
(* Queues and mailboxes.                                                       *)

\* In the queue of v after the step, entry j is an old one, or u's new batch.
LEMMA Appended ==
    ASSUME TypeOK, NEW u \in Users, NEW batch \in SUBSET Mails, Queue(u, batch), NEW v \in Users
    PROVE  /\ \A j \in DOMAIN pending'[v] :
                 \/ j \in DOMAIN pending[v] /\ pending'[v][j] = pending[v][j]
                 \/ /\ v = u /\ pending'[v][j] = batch /\ j = Len(pending[v]) + 1
                    /\ \A i \in DOMAIN pending[v] : i < j
           /\ \A j \in DOMAIN pending[v] :
                 j \in DOMAIN pending'[v] /\ pending'[v][j] = pending[v][j]
           /\ v = u /\ batch # {} => \E j \in DOMAIN pending'[v] :
                 pending'[v][j] = batch /\ \A i \in DOMAIN pending[v] : i < j
           /\ DOMAIN pending'[v] \subseteq Nat
           /\ pending' \in [Users -> Seq(SUBSET Mails)]
  <1>1. pending[v] \in Seq(SUBSET Mails) /\ pending \in [Users -> Seq(SUBSET Mails)]
    BY DEF TypeOK
  <1>2. pending' \in [Users -> Seq(SUBSET Mails)]
    BY <1>1 DEF Queue
  <1>3. CASE batch = {} \/ v # u
    <2>1. pending'[v] = pending[v]
      BY <1>1, <1>3 DEF Queue
    <2> QED BY <1>1, <1>2, <1>3, <2>1
  <1>4. CASE batch # {} /\ v = u
    <2>1. pending'[v] = Append(pending[v], batch)
      BY <1>1, <1>4 DEF Queue
    <2>2. /\ DOMAIN pending[v] = 1..Len(pending[v]) /\ Len(pending[v]) \in Nat
          /\ DOMAIN pending'[v] = 1..(Len(pending[v]) + 1)
          /\ \A j \in 1..Len(pending[v]) : pending'[v][j] = pending[v][j]
          /\ pending'[v][Len(pending[v]) + 1] = batch
      BY <1>1, <2>1
    <2> QED BY <1>2, <1>4, <2>2
  <1> QED BY <1>3, <1>4

LEMMA QueueAdds ==
    ASSUME TypeOK, NEW u \in Users, NEW batch \in SUBSET Mails, Queue(u, batch), NEW v \in Users
    PROVE  /\ Writes(v) \subseteq Writes(v)'
           /\ Writes(v)' \subseteq Writes(v) \cup (IF v = u THEN batch ELSE {})
           /\ v = u => batch \subseteq Writes(v)'
  BY Appended DEF Writes

\* Write w is taken from the first batch of q, which is then r: entry j of r is
\* entry j + s of q, without w, and s is 1 if w was the last of its batch.
Shifted(q, r, w, s) ==
    /\ DOMAIN q \subseteq Nat \ {0} /\ DOMAIN r \subseteq Nat \ {0}
    /\ s \in {0, 1}
    /\ 1 \in DOMAIN q /\ w \in q[1]
    /\ \A j \in DOMAIN r : j + s \in DOMAIN q /\ r[j] \subseteq q[j + s]
    /\ \A i \in DOMAIN q : \A x \in q[i] :
          i # 1 \/ x # w => i - s \in DOMAIN r /\ x \in r[i - s]
    /\ \A j \in DOMAIN r : j + s = 1 => w \notin r[j]

LEMMA Shifting ==
    ASSUME NEW q \in Seq(SUBSET Mails), q # <<>>, NEW w, w \in Head(q), NEW r,
           r = IF Head(q) = {w} THEN Tail(q) ELSE <<Head(q) \ {w}>> \o Tail(q)
    PROVE  /\ r \in Seq(SUBSET Mails)
           /\ \E s \in {0, 1} : Shifted(q, r, w, s)
  <1>1. /\ Head(q) = q[1] /\ Head(q) \in SUBSET Mails /\ Tail(q) \in Seq(SUBSET Mails)
        /\ DOMAIN q = 1..Len(q) /\ Len(q) \in Nat /\ Len(q) >= 1
        /\ Len(Tail(q)) = Len(q) - 1
        /\ \A i \in 1..Len(q) - 1 : Tail(q)[i] = q[i + 1]
    OBVIOUS
  <1>2. CASE Head(q) = {w}
    <2>1. r = Tail(q) /\ DOMAIN r = 1..Len(q) - 1
      BY <1>1, <1>2
    <2>2. Shifted(q, r, w, 1)
      BY <1>1, <1>2, <2>1 DEF Shifted
    <2> QED BY <1>1, <2>1, <2>2
  <1>3. CASE Head(q) # {w}
    <2> DEFINE h == Head(q) \ {w}
               t == Tail(q)
    <2>1. r = <<h>> \o t /\ t \in Seq(SUBSET Mails) /\ h \subseteq q[1] /\ w \notin h /\ h \in SUBSET Mails
      BY <1>1, <1>3
    <2>2. Len(t) = Len(q) - 1 /\ \A i \in 1..Len(q) - 1 : t[i] = q[i + 1]
      BY <1>1
    <2>3. \A x \in q[1] : x # w => x \in h
      BY <1>1
    <2> HIDE DEF h, t
    <2>4. /\ Len(<<h>> \o t) = Len(t) + 1
          /\ DOMAIN (<<h>> \o t) = 1..(Len(t) + 1)
          /\ (<<h>> \o t)[1] = h
          /\ \A i \in 2..Len(t) + 1 : (<<h>> \o t)[i] = t[i - 1]
          /\ <<h>> \o t \in Seq(SUBSET Mails)
      BY <2>1
    <2>5. DOMAIN r = DOMAIN q /\ r[1] = h
      <3>1. Len(t) + 1 = Len(q)
        BY <1>1, <2>2
      <3>2. DOMAIN r = 1..(Len(t) + 1) /\ r[1] = h
        BY <2>1, <2>4
      <3> QED BY <1>1, <3>1, <3>2
    <2>6. ASSUME NEW i \in DOMAIN q, i # 1
          PROVE  r[i] = q[i]
      <3>1. i - 1 \in 1..Len(q) - 1 /\ i \in 2..Len(t) + 1 /\ (i - 1) + 1 = i
        BY <1>1, <2>2, <2>6
      <3>2. r[i] = t[i - 1] /\ t[i - 1] = q[(i - 1) + 1]
        BY <2>1, <2>2, <2>4, <3>1
      <3> QED BY <3>1, <3>2
    <2>7. ASSUME NEW j \in DOMAIN r
          PROVE  /\ j + 0 \in DOMAIN q /\ r[j] \subseteq q[j + 0]
                 /\ j + 0 = 1 => w \notin r[j]
      <3>1. j + 0 = j /\ j \in DOMAIN q
        BY <1>1, <2>5
      <3> QED BY <2>1, <2>5, <2>6, <3>1
    <2>8. ASSUME NEW i \in DOMAIN q, NEW x \in q[i], i # 1 \/ x # w
          PROVE  i - 0 \in DOMAIN r /\ x \in r[i - 0]
      <3>1. i - 0 = i /\ i \in DOMAIN r
        BY <1>1, <2>5
      <3> QED BY <2>3, <2>5, <2>6, <2>8, <3>1
    <2>9. 1 \in DOMAIN q /\ w \in q[1] /\ DOMAIN q \subseteq Nat \ {0}
      BY <1>1
    <2>10. Shifted(q, r, w, 0)
      BY <2>5, <2>7, <2>8, <2>9 DEF Shifted
    <2> QED BY <2>1, <2>4, <2>10
  <1> QED BY <1>2, <1>3

LEMMA AppliedMail ==
    ASSUME NEW mail, NEW w \in Mails
    PROVE  /\ w.op = "set" => DOMAIN Applied(mail, w) = DOMAIN mail \cup {w.msg}
           /\ w.op = "read" => DOMAIN Applied(mail, w) = DOMAIN mail
           /\ w.op = "delete" => DOMAIN Applied(mail, w) = DOMAIN mail \ {w.msg}
           /\ \A m : m # w.msg => /\ m \in DOMAIN Applied(mail, w) <=> m \in DOMAIN mail
                                  /\ m \in DOMAIN mail => Applied(mail, w)[m] = mail[m]
           /\ \A m \in DOMAIN Applied(mail, w) :
                 Applied(mail, w)[m] = "read" =>
                    (m \in DOMAIN mail /\ mail[m] = "read") \/ (w.op = "read" /\ w.msg = m)
           /\ \A m \in DOMAIN Applied(mail, w) :
                 m \in DOMAIN mail /\ mail[m] = "read" /\ w.op # "set" => Applied(mail, w)[m] = "read"
  <1> DEFINE a == Applied(mail, w)
  <1>1. CASE w.op = "set"
    <2>1. /\ DOMAIN a = DOMAIN mail \cup {w.msg}
          /\ \A m \in DOMAIN mail \cup {w.msg} : a[m] = IF m = w.msg THEN "delivered" ELSE mail[m]
      BY <1>1 DEF Applied
    <2> HIDE DEF a
    <2> QED BY <1>1, <2>1 DEF a
  <1>2. CASE w.op = "read"
    <2>1. /\ DOMAIN a = DOMAIN mail
          /\ \A m \in DOMAIN mail : a[m] = IF m = w.msg THEN "read" ELSE mail[m]
      BY <1>2 DEF Applied
    <2> HIDE DEF a
    <2> QED BY <1>2, <2>1 DEF a
  <1>3. CASE w.op = "delete"
    <2>1. /\ DOMAIN a = DOMAIN mail \ {w.msg}
          /\ \A m \in DOMAIN mail \ {w.msg} : a[m] = mail[m]
      BY <1>3 DEF Applied
    <2> HIDE DEF a
    <2> QED BY <1>3, <2>1 DEF a
  <1>4. w.op \in {"set", "read", "delete"}
    BY DEF Mails
  <1> QED BY <1>1, <1>2, <1>3, <1>4

\* The server takes a write, and nothing else happens.
ServesWrite(u, w) ==
    /\ \A v \in Users : box'[v] = IF v = w.to THEN Applied(box[v], w) ELSE box[v]
    /\ \A v \in Users \ {u} : pending'[v] = pending[v]
    /\ \A v \in Users : Writes(v)' \subseteq Writes(v)
    /\ w \in Writes(u)

LEMMA Serving ==
    ASSUME TypeOK, NEW u \in Users, Serve(u)
    PROVE  /\ \E w \in Mails : \E s \in {0, 1} :
                 ServesWrite(u, w) /\ Shifted(pending[u], pending'[u], w, s)
           /\ pending' \in [Users -> Seq(SUBSET Mails)]
           /\ box' = [v \in Users |-> box'[v]]
  <1> DEFINE q == pending[u]
             r == pending'[u]
  <1>1. q \in Seq(SUBSET Mails) /\ q # <<>> /\ pending \in [Users -> Seq(SUBSET Mails)]
    BY DEF Serve, TypeOK
  <1>2. PICK w :
           /\ w \in Head(q)
           /\ box' = [box EXCEPT ![w.to] = Applied(@, w)]
           /\ pending' = [pending EXCEPT ![u] =
                IF Head(@) = {w} THEN Tail(@) ELSE <<Head(@) \ {w}>> \o Tail(@)]
    BY DEF Serve
  <1>3. r = IF Head(q) = {w} THEN Tail(q) ELSE <<Head(q) \ {w}>> \o Tail(q)
    BY <1>1, <1>2
  <1>4. Head(q) \in SUBSET Mails /\ w \in Mails
    <2> HIDE DEF q
    <2> QED BY <1>1, <1>2 DEF q
  <1>5. r \in Seq(SUBSET Mails) /\ \E s \in {0, 1} : Shifted(q, r, w, s)
    <2> HIDE DEF q, r
    <2> QED BY <1>1, <1>2, <1>3, Shifting
  <1>6. PICK s \in {0, 1} : Shifted(q, r, w, s)
    BY <1>5
  <1>7. \A v \in Users \ {u} : pending'[v] = pending[v]
    BY <1>1, <1>2
  <1>8. pending' \in [Users -> Seq(SUBSET Mails)]
    BY <1>1, <1>2, <1>5
  <1>9. box' = [v \in Users |-> box'[v]] /\ \A v \in Users : box'[v] = IF v = w.to THEN Applied(box[v], w) ELSE box[v]
    <2>1. box = [v \in Users |-> box[v]] /\ w.to \in Users
      BY <1>4 DEF TypeOK, Mails
    <2> QED BY <1>2, <2>1
  <1>10. \A v \in Users : Writes(v)' \subseteq Writes(v)
    <2>1. Writes(u)' \subseteq Writes(u)
      BY <1>6 DEF Writes, Shifted
    <2> QED BY <1>7, <2>1 DEF Writes
  <1>11. w \in Writes(u)
    BY <1>6 DEF Writes, Shifted
  <1> QED BY <1>4, <1>6, <1>7, <1>8, <1>9, <1>10, <1>11 DEF ServesWrite

\* What the server does with a batch whose answer is lost concerns repeated
\* messages only.
LEMMA TakenUnanswered ==
    ASSUME TypeOK, NEW u \in Users, TakeUnanswered(u)
    PROVE  /\ box' = [v \in Users |-> box'[v]]
           /\ repeated \subseteq repeated' /\ repeated' \subseteq repeated \cup Composed
           /\ \A v \in Users : DOMAIN box'[v] \subseteq Composed
           /\ \A v \in Users : \A m : m \notin repeated' =>
                 /\ m \in DOMAIN box'[v] <=> m \in DOMAIN box[v]
                 /\ m \in DOMAIN box[v] => box'[v][m] = box[v][m]
           /\ \A v \in Users : \A m \in DOMAIN box'[v] : box'[v][m] = "read" =>
                 \/ m \in DOMAIN box[v] /\ box[v][m] = "read"
                 \/ \E w \in Writes(u) : w.op = "read" /\ w.msg = m
  <1> DEFINE batch == pending[u][ahead[u] + 1]
  <1>1. batch \in SUBSET Mails /\ batch \subseteq Writes(u)
    <2>1. pending[u] \in Seq(SUBSET Mails) /\ ahead[u] \in Nat /\ ahead[u] < Len(pending[u])
      BY DEF TypeOK, TakeUnanswered
    <2>2. ahead[u] + 1 \in DOMAIN pending[u]
      BY <2>1
    <2> QED BY <2>1, <2>2 DEF Writes
  <1>2. box' = Delivered(batch) /\ repeated' = repeated \cup {w.msg : w \in batch}
    BY DEF TakeUnanswered
  <1>3. \A w \in batch : w.msg \in Composed
    BY <1>1 DEF TypeOK
  <1> HIDE DEF batch
  <1>4. ASSUME NEW v \in Users
        PROVE  \/ box'[v] = box[v]
               \/ \E w \in batch : box'[v] = Applied(box[v], w)
    <2> DEFINE mine == {w \in batch : w.to = v}
    <2>1. box'[v] = IF mine = {} THEN box[v] ELSE Applied(box[v], CHOOSE w \in mine : TRUE)
      BY <1>2 DEF Delivered
    <2>2. mine # {} => (CHOOSE w \in mine : TRUE) \in batch
      OBVIOUS
    <2> QED BY <2>1, <2>2
  <1>5. \A v \in Users : DOMAIN box[v] \subseteq Composed
    BY DEF TypeOK
  <1>6. ASSUME NEW v \in Users, NEW w \in batch, box'[v] = Applied(box[v], w)
        PROVE  /\ DOMAIN box'[v] \subseteq DOMAIN box[v] \cup {w.msg}
               /\ \A m : m # w.msg => /\ m \in DOMAIN box'[v] <=> m \in DOMAIN box[v]
                                      /\ m \in DOMAIN box[v] => box'[v][m] = box[v][m]
               /\ \A m \in DOMAIN box'[v] : box'[v][m] = "read" =>
                    (m \in DOMAIN box[v] /\ box[v][m] = "read") \/ (w.op = "read" /\ w.msg = m)
    <2>1. w \in Mails
      BY <1>1
    <2>2. /\ w.op = "set" => DOMAIN box'[v] = DOMAIN box[v] \cup {w.msg}
          /\ w.op = "read" => DOMAIN box'[v] = DOMAIN box[v]
          /\ w.op = "delete" => DOMAIN box'[v] = DOMAIN box[v] \ {w.msg}
          /\ \A m : m # w.msg => /\ m \in DOMAIN box'[v] <=> m \in DOMAIN box[v]
                                 /\ m \in DOMAIN box[v] => box'[v][m] = box[v][m]
          /\ \A m \in DOMAIN box'[v] : box'[v][m] = "read" =>
                (m \in DOMAIN box[v] /\ box[v][m] = "read") \/ (w.op = "read" /\ w.msg = m)
      <3> DEFINE a == Applied(box[v], w)
      <3>1. /\ w.op = "set" => DOMAIN a = DOMAIN box[v] \cup {w.msg}
            /\ w.op = "read" => DOMAIN a = DOMAIN box[v]
            /\ w.op = "delete" => DOMAIN a = DOMAIN box[v] \ {w.msg}
            /\ \A m : m # w.msg => /\ m \in DOMAIN a <=> m \in DOMAIN box[v]
                                   /\ m \in DOMAIN box[v] => a[m] = box[v][m]
            /\ \A m \in DOMAIN a : a[m] = "read" =>
                  (m \in DOMAIN box[v] /\ box[v][m] = "read") \/ (w.op = "read" /\ w.msg = m)
        BY <2>1, AppliedMail
      <3>2. box'[v] = a
        BY <1>6
      <3> HIDE DEF a
      <3> QED BY <3>1, <3>2
    <2>3. w.op \in {"set", "read", "delete"}
      BY <2>1 DEF Mails
    <2> QED BY <2>2, <2>3
  <1>7. box' = [v \in Users |-> box'[v]]
    BY <1>2 DEF Delivered
  <1>8. ASSUME NEW v \in Users
        PROVE  /\ DOMAIN box'[v] \subseteq Composed
               /\ \A m : m \notin repeated' =>
                 /\ m \in DOMAIN box'[v] <=> m \in DOMAIN box[v]
                 /\ m \in DOMAIN box[v] => box'[v][m] = box[v][m]
               /\ \A m \in DOMAIN box'[v] : box'[v][m] = "read" =>
                 \/ m \in DOMAIN box[v] /\ box[v][m] = "read"
                 \/ \E w \in Writes(u) : w.op = "read" /\ w.msg = m
    <2>1. CASE box'[v] = box[v]
      BY <1>5, <2>1
    <2>2. ASSUME NEW w \in batch, box'[v] = Applied(box[v], w)
          PROVE  /\ DOMAIN box'[v] \subseteq Composed
                 /\ \A m : m \notin repeated' =>
                   /\ m \in DOMAIN box'[v] <=> m \in DOMAIN box[v]
                   /\ m \in DOMAIN box[v] => box'[v][m] = box[v][m]
                 /\ \A m \in DOMAIN box'[v] : box'[v][m] = "read" =>
                   \/ m \in DOMAIN box[v] /\ box[v][m] = "read"
                   \/ \E x \in Writes(u) : x.op = "read" /\ x.msg = m
      BY <1>1, <1>2, <1>3, <1>5, <1>6, <2>2
    <2> QED BY <1>4, <2>1, <2>2
  <1> QED BY <1>2, <1>3, <1>7, <1>8

--------------------------------------------------------------------------------
(* The inductive invariants.                                                   *)

\* The rows of a screen on the stack, o being what other screens of its user
\* deleted while it was loaded here: each other message is on display once, or
\* it is one of the earlier ones; what is newer than the last one loaded came
\* from the listener, which remembers it; while older messages are being asked
\* for, the rows are no older than the one left out.
RowsOK(r, o) ==
    /\ r.phase \in {"loading", "listening"}
    /\ r.phase = "loading" => Held(r) = {} /\ r.history = "none"
    /\ Held(r) \cup r.listened \subseteq Composed
    /\ \A m \in Msg \ o : r.rows[m] <= 1
    /\ \A m \in r.earlier : r.rows[m] = 0 /\ Date(m) <= r.from
    /\ \A m \in Held(r) \ o : Date(m) > r.from => m \in r.listened
    /\ r.history = "asked" =>
          /\ r.earlier # {}
          /\ \A e \in r.earlier : \A m \in Held(r) \ r.earlier : Date(m) >= Date(e)

RowsInv == \A s \in Screen : screen[s].open => RowsOK(screen[s], outlived[UserOf(s)])

\* The copies of the messages: each is written by the message's sender, once;
\* it is in a mailbox or it waits, unless the write was repeated.
CopiesInv ==
    /\ \A u \in Users : \A w \in Writes(u) :
          /\ w.op = "set" => Sender(w.msg) = u
          /\ w.op = "delete" => w.to = u
    /\ \A u \in Users : \A i, j \in DOMAIN pending[u] : \A w \in pending[u][i] \cap pending[u][j] :
          w.op = "set" => i = j
    /\ \A u, v \in Users : \A m \in DOMAIN box[v] \ repeated : Set(v, m) \notin Writes(u)
    /\ \A u \in Users : deleted[u] \subseteq Composed
    /\ repeated \subseteq Composed

\* A message that was deleted: nobody else is going to write it, and whatever
\* is left of it will be removed.
DeletedInv ==
    \A v \in Users : \A m \in deleted[v] \ repeated :
        /\ \A u \in Users \ {v} : Set(v, m) \notin Writes(u)
        /\ \A i \in DOMAIN pending[v] : Set(v, m) \in pending[v][i] =>
              \E j \in DOMAIN pending[v] : i < j /\ Remove(v, m) \in pending[v][j]
        /\ m \in DOMAIN box[v] => Remove(v, m) \in Writes(v)

\* A message on a screen has not been deleted, but from another one of the same
\* user, and is not going to be written.
HeldInv ==
    \A s \in Screen : screen[s].open =>
        \A m \in Held(screen[s]) \ repeated :
            /\ m \notin deleted[UserOf(s)] \ outlived[UserOf(s)]
            /\ \A u \in Users \ {UserOf(s)} : Set(UserOf(s), m) \notin Writes(u)

\* Marked read, about to be, or asked for: a screen of another user than the
\* sender has taken the message in.
SeenInv ==
    /\ \A u \in Users : \A m \in DOMAIN box[u] : box[u][m] = "read" => TakenIn(m)
    /\ \A u \in Users : \A w \in Writes(u) : w.op = "read" => TakenIn(w.msg)
    /\ \A u \in Users : \A r \in receipts[u] : r[2] \in Composed /\ TakenIn(r[2])

--------------------------------------------------------------------------------
(* What is sent, queued and shown has its type.                                *)

LEMMA NowTyped ==
    ASSUME TypeOK, NEW u \in Users
    PROVE  Now(u) \in Nat
  <1>1. scenario.zone[u] \in Nat
    BY Constants DEF TypeOK
  <1> QED BY <1>1 DEF TypeOK, Now

\* The writes of a message sent, and of one receipt or deletion.
LEMMA SentWrites ==
    ASSUME TypeOK
    PROVE  {Set(v, NewId) : v \in Users} \in SUBSET Mails
  BY ComposedMsg DEF Mails, Set, NewId

LEMMA OneWrite ==
    ASSUME NEW v \in Users, NEW m \in Msg
    PROVE  {MarkRead(v, m)} \in SUBSET Mails /\ {Remove(v, m)} \in SUBSET Mails
  BY Constants DEF Mails, MarkRead, Remove, Msg

\* What is on display of S is counted, and asked for.
LEMMA Displayed ==
    ASSUME TypeOK, NEW s \in Screen, NEW S, S \subseteq Msg, Display(s, S)
    PROVE  /\ Rows(s, S) \in [Msg -> Nat]
           /\ receipts' \in [Users -> SUBSET (Users \X Msg)]
           /\ seen' \in [Users -> SUBSET Msg] /\ unseen' \in [Users -> SUBSET Msg]
           /\ ReadIn(UserOf(s), S) \subseteq Msg
           /\ Incoming(UserOf(s), S) \subseteq S
  <1>1. UserOf(s) \in Users /\ screen[s] \in ChatScreen
    BY ScreenOfUser DEF TypeOK
  <1>2. Rows(s, S) \in [Msg -> Nat]
    BY <1>1 DEF Rows, ChatScreen
  <1>3. Incoming(UserOf(s), S) \subseteq S /\ ReadIn(UserOf(s), S) \subseteq Msg
    BY DEF Incoming, ReadIn
  <1>4. screen[s].push \X Incoming(UserOf(s), S) \subseteq Users \X Msg
    BY <1>1, <1>3 DEF ChatScreen
  <1>5. receipts' \in [Users -> SUBSET (Users \X Msg)]
    BY <1>1, <1>4 DEF Display, TypeOK
  <1>6. seen' \in [Users -> SUBSET Msg] /\ unseen' \in [Users -> SUBSET Msg]
    <2> DEFINE u == UserOf(s)
    <2>1. seen \in [Users -> SUBSET Msg] /\ unseen \in [Users -> SUBSET Msg]
      BY DEF TypeOK
    <2>2. \/ seen' = [seen EXCEPT ![u] = @ \cup S] /\ unseen' = unseen
          \/ unseen' = [unseen EXCEPT ![u] = @ \cup S] /\ seen' = seen
      BY DEF Display
    <2> QED BY <1>1, <2>1, <2>2
  <1> QED BY <1>2, <1>3, <1>5, <1>6

LEMMA NoScreenTyped == NoScreen \in ChatScreen
  BY DEF NoScreen, ChatScreen

\* The screens of a step that keeps everything else.
LEMMA OneScreen ==
    ASSUME TypeOK, NEW s \in Screen, NEW r \in ChatScreen, screen' = [screen EXCEPT ![s] = r]
    PROVE  /\ screen' \in [Screen -> ChatScreen]
           /\ screen'[s] = r
           /\ \A t \in Screen \ {s} : screen'[t] = screen[t]
  BY DEF TypeOK

LEMMA SendTypes ==
    ASSUME TypeOK, NEW u \in Users, NEW kind \in AllKinds, NEW date \in Nat,
           Compose(u, kind, date), SendToAll(u)
    PROVE  /\ log' \in Seq(Message) /\ Len(log') <= MaxMessages
           /\ Composed \subseteq Composed'
           /\ pending' \in [Users -> Seq(SUBSET Mails)]
           /\ \A v \in Users : \A w \in Writes(v)' : w.msg \in Composed'
  <1>1. LogGrows /\ log' # log
    BY ComposeGrows
  <1>2. /\ log' \in Seq(Message) /\ Len(log') <= MaxMessages
        /\ Composed \subseteq Composed' /\ Composed' = Composed \cup {NewId}
    BY <1>1, LogStays
  <1> DEFINE batch == {Set(v, NewId) : v \in Users}
  <1>3. batch \in SUBSET Mails /\ Queue(u, batch)
    BY SentWrites DEF SendToAll, Members
  <1>4. \A w \in batch : w.msg = NewId
    BY DEF Set
  <1> HIDE DEF batch
  <1>5. pending' \in [Users -> Seq(SUBSET Mails)]
    BY <1>3, Appended
  <1>6. \A v \in Users : Writes(v)' \subseteq Writes(v) \cup batch
    <2>1. ASSUME NEW v \in Users
          PROVE  Writes(v)' \subseteq Writes(v) \cup (IF v = u THEN batch ELSE {})
      BY <1>3, QueueAdds
    <2> QED BY <2>1
  <1>7. ASSUME NEW v \in Users, NEW w \in Writes(v)'
        PROVE  w.msg \in Composed'
    <2>1. w \in Writes(v) \/ w \in batch
      BY <1>6
    <2> QED BY <1>2, <1>4, <2>1 DEF TypeOK
  <1> QED BY <1>2, <1>5, <1>7

\* The same for the write of a receipt or a deletion, the log as it was.
LEMMA WriteTypes ==
    ASSUME TypeOK, NEW u \in Users, NEW batch \in SUBSET Mails, Queue(u, batch),
           \A w \in batch : w.msg \in Composed, UNCHANGED log
    PROVE  /\ pending' \in [Users -> Seq(SUBSET Mails)]
           /\ \A v \in Users : \A w \in Writes(v)' : w.msg \in Composed'
  <1>1. pending' \in [Users -> Seq(SUBSET Mails)]
    BY Appended
  <1>2. ASSUME NEW v \in Users, NEW w \in Writes(v)'
        PROVE  w.msg \in Composed
    <2>1. Writes(v)' \subseteq Writes(v) \cup (IF v = u THEN batch ELSE {})
      BY QueueAdds
    <2> QED BY <1>2, <2>1 DEF TypeOK
  <1>3. Composed' = Composed
    BY DEF Composed
  <1> QED BY <1>1, <1>2, <1>3

--------------------------------------------------------------------------------
(* The steps of a screen.                                                      *)

\* Screen s becomes r: what that may disturb.
Goes(s, r) ==
    /\ UNCHANGED <<time, log, box, pending, ahead, uploads, deleted, outlived, repeated, scenario>>
    /\ lost' \in Nat /\ lost' >= lost
    /\ r \in ChatScreen
    /\ screen' = [screen EXCEPT ![s] = r]
    /\ receipts' \in [Users -> SUBSET (Users \X Msg)]
    /\ seen' \in [Users -> SUBSET Msg] /\ unseen' \in [Users -> SUBSET Msg]
    /\ r.open =>
          /\ RowsOK(r, outlived[UserOf(s)])
          /\ Held(r) \subseteq Visible(UserOf(s), UserOf(s)) \cup
                (IF screen[s].open THEN Held(screen[s]) ELSE {})

\* What is taken in, and which receipts are asked for.
Shows ==
    /\ \A u \in Users : seen[u] \subseteq seen'[u] /\ unseen[u] \subseteq unseen'[u]
    /\ \A u \in Users : \A x \in receipts'[u] \ receipts[u] :
          x[2] \in Composed /\ u # Sender(x[2]) /\ x[2] \in seen'[u] \cup unseen'[u]

LEMMA OpenBecomes ==
    ASSUME TypeOK, NEW s \in Screen, Open(s)
    PROVE  \E r : Goes(s, r) /\ Shows
  <1>1. PICK push \in scenario.push :
           Becomes(s, [NoScreen EXCEPT !.phase = "loading", !.open = TRUE, !.push = push])
    BY DEF Open
  <1> DEFINE r == [NoScreen EXCEPT !.phase = "loading", !.open = TRUE, !.push = push]
  <1>2. push \in SUBSET Users
    BY <1>1, Constants DEF TypeOK
  <1>3. r \in ChatScreen
    BY <1>2 DEF NoScreen, ChatScreen
  <1>4. /\ r.phase = "loading" /\ r.history = "none" /\ r.earlier = {} /\ r.listened = {}
        /\ r.rows = [m \in Msg |-> 0] /\ r.from = 0
    BY DEF NoScreen
  <1> HIDE DEF r
  <1>5. Held(r) = {}
    BY <1>4 DEF Held
  <1>6. RowsOK(r, outlived[UserOf(s)])
    BY <1>4, <1>5 DEF RowsOK
  <1>8. /\ UNCHANGED <<time, log, box, pending, ahead, uploads, deleted, outlived, repeated, scenario>>
        /\ UNCHANGED <<lost, receipts, seen, unseen>>
    BY DEF Open, server, removed, shown, bounded
  <1>9. screen' = [screen EXCEPT ![s] = r]
    BY <1>1 DEF r, Becomes
  <1>10. lost \in Nat /\ lost >= lost /\ receipts \in [Users -> SUBSET (Users \X Msg)] /\ seen \in [Users -> SUBSET Msg] /\ unseen \in [Users -> SUBSET Msg]
    BY DEF TypeOK
  <1>11. Goes(s, r)
    BY <1>3, <1>5, <1>6, <1>8, <1>9, <1>10 DEF Goes
  <1>12. Shows
    BY <1>8 DEF Shows
  <1> QED BY <1>11, <1>12

\* What Display does is what Shows asks.
LEMMA DisplayShows ==
    ASSUME TypeOK, NEW s \in Screen, NEW S, S \subseteq Composed, Display(s, S)
    PROVE  Shows
  <1> DEFINE u == UserOf(s)
             new == screen[s].push \X Incoming(u, S)
  <1>1. u \in Users
    BY ScreenOfUser
  <1>2. receipts' = [receipts EXCEPT ![u] = @ \cup new]
    BY DEF Display
  <1>3. \A x \in new : x[2] \in S /\ Sender(x[2]) # u
    BY DEF Incoming
  <1> HIDE DEF new
  <1>4. \A v \in Users : receipts'[v] \ receipts[v] \subseteq IF v = u THEN new ELSE {}
    BY <1>1, <1>2 DEF TypeOK
  <1>5. /\ \A v \in Users : seen[v] \subseteq seen'[v] /\ unseen[v] \subseteq unseen'[v]
        /\ S \subseteq seen'[u] \cup unseen'[u]
    <2>1. CASE InView(s)
      BY <1>1, <2>1 DEF Display, TypeOK
    <2>2. CASE ~InView(s)
      BY <1>1, <2>2 DEF Display, TypeOK
    <2> QED BY <2>1, <2>2
  <1>6. ASSUME NEW v \in Users, NEW x \in receipts'[v] \ receipts[v]
        PROVE  x[2] \in Composed /\ v # Sender(x[2]) /\ x[2] \in seen'[v] \cup unseen'[v]
    <2>1. v = u /\ x \in new
      BY <1>4, <1>6
    <2> QED BY <1>3, <1>5, <2>1
  <1> QED BY <1>5, <1>6 DEF Shows

LEMMA NewestSubset ==
    ASSUME NEW S, NEW n, NEW N \in Newest(S, n)
    PROVE  N \subseteq S /\ \A x \in N, y \in S \ N : Date(x) >= Date(y)
  BY DEF Newest

LEMMA LatestIs ==
    ASSUME TypeOK, NEW L, L \subseteq Composed, NEW d \in Latest(L)
    PROVE  d \in Nat /\ \A m \in L : d >= Date(m)
  <1>1. CASE L = {}
    BY <1>1 DEF Latest
  <1>2. CASE L # {}
    BY <1>2, ComposedMsg DEF Latest
  <1> QED BY <1>1, <1>2

LEMMA LoadedBecomes ==
    ASSUME TypeOK, RowsInv, NEW s \in Screen, Loaded(s)
    PROVE  \E r : Goes(s, r) /\ Shows
  <1> DEFINE u == UserOf(s)
  <1>1. u \in Users /\ screen[s] \in ChatScreen /\ screen[s].phase = "loading"
    BY ScreenOfUser DEF TypeOK, Loaded
  <1>2. PICK L : \E S \in Newest(L, Page) :
              /\ L \in Newest(Visible(u, u), Limit)
              /\ Display(s, S)
              /\ \E newest \in Latest(L) :
                    Becomes(s,
                        [screen[s] EXCEPT !.phase = "listening",
                                          !.rows = Rows(s, S),
                                          !.asRead = ReadIn(u, S),
                                          !.from = newest,
                                          !.earlier = L \ S,
                                          !.history = IF L \ S = {} THEN "none" ELSE "asked"])
    BY DEF Loaded
  <1>3. PICK S : /\ S \in Newest(L, Page)
                 /\ L \in Newest(Visible(u, u), Limit)
                 /\ Display(s, S)
                 /\ \E newest \in Latest(L) :
                    Becomes(s,
                        [screen[s] EXCEPT !.phase = "listening",
                                          !.rows = Rows(s, S),
                                          !.asRead = ReadIn(u, S),
                                          !.from = newest,
                                          !.earlier = L \ S,
                                          !.history = IF L \ S = {} THEN "none" ELSE "asked"])
    BY <1>2
  <1>4. PICK newest :
          /\ newest \in Latest(L)
          /\ Becomes(s,
                        [screen[s] EXCEPT !.phase = "listening",
                                          !.rows = Rows(s, S),
                                          !.asRead = ReadIn(u, S),
                                          !.from = newest,
                                          !.earlier = L \ S,
                                          !.history = IF L \ S = {} THEN "none" ELSE "asked"])
    BY <1>3
  <1> DEFINE r == [screen[s] EXCEPT !.phase = "listening",
                                    !.rows = Rows(s, S),
                                    !.asRead = ReadIn(u, S),
                                    !.from = newest,
                                    !.earlier = L \ S,
                                    !.history = IF L \ S = {} THEN "none" ELSE "asked"]
  <1>5. /\ Visible(u, u) \subseteq Composed /\ Visible(u, u) \subseteq Msg
        /\ L \subseteq Visible(u, u) /\ S \subseteq L
        /\ \A x \in S, y \in L \ S : Date(x) >= Date(y)
    BY <1>1, <1>3, VisibleIsComposed, NewestSubset
  <1>6. newest \in Nat /\ \A m \in L : newest >= Date(m)
    BY <1>4, <1>5, LatestIs
  <1>7. /\ Rows(s, S) \in [Msg -> Nat] /\ ReadIn(u, S) \subseteq Msg
        /\ receipts' \in [Users -> SUBSET (Users \X Msg)]
        /\ seen' \in [Users -> SUBSET Msg] /\ unseen' \in [Users -> SUBSET Msg]
    BY <1>3, <1>5, Displayed
  <1>8. L \ S \subseteq Msg
    BY <1>5
  <1> HIDE DEF u
  <1>9. r \in ChatScreen
    BY <1>1, <1>6, <1>7, <1>8 DEF ChatScreen
  <1>10. /\ r.phase = "listening" /\ r.open = screen[s].open /\ r.rows = Rows(s, S)
         /\ r.from = newest /\ r.earlier = L \ S /\ r.listened = screen[s].listened
         /\ r.history = IF L \ S = {} THEN "none" ELSE "asked"
    BY <1>1 DEF ChatScreen
  <1>11. screen' = [screen EXCEPT ![s] = r]
    BY <1>4 DEF Becomes
  <1> HIDE DEF r
  <1>12. ASSUME screen[s].open
         PROVE  RowsOK(r, outlived[UserOf(s)]) /\ Held(r) \subseteq L
    <2>1. RowsOK(screen[s], outlived[UserOf(s)])
      BY <1>12 DEF RowsInv
    <2>2. \A m \in Msg : screen[s].rows[m] = 0
      BY <1>1, <2>1 DEF RowsOK, Held, ChatScreen
    <2>3. \A m \in Msg : r.rows[m] = IF m \in S THEN 1 ELSE 0
      BY <1>10, <2>2 DEF Rows
    <2>4. Held(r) = L /\ Held(r) \ r.earlier = S
      BY <1>5, <1>10, <2>3 DEF Held
    <2>5. screen[s].listened \subseteq Composed
      BY <2>1 DEF RowsOK
    <2>6. \A m \in r.earlier : r.rows[m] = 0 /\ Date(m) <= r.from
      BY <1>5, <1>6, <1>10, <2>3, ComposedMsg
    <2>7. \A m \in Held(r) : ~(Date(m) > r.from)
      BY <1>5, <1>6, <1>10, <2>4, ComposedMsg
    <2>8. r.history = "asked" =>
          /\ r.earlier # {}
          /\ \A e \in r.earlier : \A m \in Held(r) \ r.earlier : Date(m) >= Date(e)
      BY <1>5, <1>10, <2>4
    <2>9. Held(r) \cup r.listened \subseteq Composed
      BY <1>5, <1>10, <2>4, <2>5
    <2>10. \A m \in Msg : r.rows[m] <= 1
      BY <2>3
    <2> QED BY <1>10, <2>4, <2>6, <2>7, <2>8, <2>9, <2>10 DEF RowsOK
  <1>13. /\ UNCHANGED <<time, log, box, pending, ahead, uploads, deleted, outlived, repeated, scenario>>
         /\ UNCHANGED lost /\ lost \in Nat /\ lost >= lost
    BY DEF Loaded, server, removed, shown, bounded, TypeOK
  <1>14. Goes(s, r)
    BY <1>5, <1>7, <1>9, <1>10, <1>11, <1>12, <1>13 DEF Goes, u
  <1>15. Shows
    BY <1>3, <1>5, DisplayShows
  <1> QED BY <1>14, <1>15

\* A step that only touches s, and shows nothing.
LEMMA QuietShows ==
    ASSUME UNCHANGED receipts,
           \A u \in Users : seen[u] \subseteq seen'[u] /\ unseen[u] \subseteq unseen'[u]
    PROVE  Shows
  BY DEF Shows

LEMMA LoadFailedBecomes ==
    ASSUME TypeOK, RowsInv, NEW s \in Screen, LoadFailed(s)
    PROVE  \E r : Goes(s, r) /\ Shows
  <1> DEFINE r == [screen[s] EXCEPT !.phase = "listening"]
  <1>1. screen[s] \in ChatScreen /\ screen[s].phase = "loading"
    BY DEF TypeOK, LoadFailed
  <1>2. /\ r \in ChatScreen /\ r.phase = "listening" /\ r.open = screen[s].open
        /\ r.rows = screen[s].rows /\ r.from = screen[s].from /\ r.earlier = screen[s].earlier
        /\ r.listened = screen[s].listened /\ r.history = screen[s].history
    BY <1>1 DEF ChatScreen
  <1>3. screen' = [screen EXCEPT ![s] = r]
    BY DEF LoadFailed, Becomes
  <1> HIDE DEF r
  <1>4. Held(r) = Held(screen[s])
    BY <1>2 DEF Held
  <1>5. screen[s].open => RowsOK(r, outlived[UserOf(s)])
    BY <1>1, <1>2, <1>4 DEF RowsInv, RowsOK
  <1>6. /\ UNCHANGED <<time, log, box, pending, ahead, uploads, deleted, outlived, repeated, scenario>>
        /\ UNCHANGED <<receipts, seen, unseen>> /\ lost \in Nat /\ lost' = lost + 1
        /\ receipts \in [Users -> SUBSET (Users \X Msg)] /\ seen \in [Users -> SUBSET Msg] /\ unseen \in [Users -> SUBSET Msg]
    BY DEF LoadFailed, Fails, server, TypeOK, removed, shown
  <1>7. Goes(s, r)
    BY <1>2, <1>3, <1>4, <1>5, <1>6 DEF Goes
  <1>8. Shows
    BY <1>2, <1>6, QuietShows
  <1> QED BY <1>7, <1>8

LEMMA HistoryLoadedBecomes ==
    ASSUME TypeOK, RowsInv, NEW s \in Screen, HistoryLoaded(s)
    PROVE  \E r : Goes(s, r) /\ Shows
  <1> DEFINE u == UserOf(s)
             old == screen[s]
             E == old.earlier \cup {m \in Visible(u, u) : \A e \in old.earlier : Date(m) < Date(e)}
             r == [old EXCEPT !.history = "loaded", !.earlier = E]
  <1>1. u \in Users /\ old \in ChatScreen /\ old.history = "asked"
    BY ScreenOfUser DEF TypeOK, HistoryLoaded
  <1>2. Visible(u, u) \subseteq Composed /\ Visible(u, u) \subseteq Msg
    BY <1>1, VisibleIsComposed
  <1>3. /\ r \in ChatScreen /\ r.phase = old.phase /\ r.open = old.open
        /\ r.rows = old.rows /\ r.from = old.from /\ r.earlier = E
        /\ r.listened = old.listened /\ r.history = "loaded"
    BY <1>1, <1>2 DEF ChatScreen
  <1>4. screen' = [screen EXCEPT ![s] = r]
    BY DEF HistoryLoaded, Becomes
  <1> HIDE DEF r
  <1>5. ASSUME old.open
        PROVE  RowsOK(r, outlived[u]) /\ Held(r) \subseteq Visible(u, u) \cup Held(old)
    <2>1. RowsOK(old, outlived[u])
      BY <1>5 DEF RowsInv
    <2>2. PICK e \in old.earlier : e \in Composed /\ Date(e) <= old.from /\ \A m \in Held(old) \ old.earlier : Date(m) >= Date(e)
      BY <1>1, <2>1 DEF RowsOK, Held
    <2>3. Held(r) = Held(old) \cup E /\ Held(r) \subseteq Visible(u, u) \cup Held(old)
      BY <1>3 DEF Held
    <2>4. ASSUME NEW m \in E \ old.earlier
          PROVE  r.rows[m] = 0 /\ Date(m) <= r.from
      <3>1. Date(m) < Date(e) /\ m \in Composed /\ m \in Msg
        BY <1>2, <2>2, <2>4
      <3>2. Date(m) \in Nat /\ Date(e) \in Nat /\ old.from \in Nat
        BY <1>1, <2>2, <3>1, ComposedMsg DEF ChatScreen
      <3>3. m \notin Held(old)
        BY <2>2, <2>4, <3>1, <3>2
      <3>4. old.rows[m] \in Nat
        BY <1>1, <3>1 DEF ChatScreen
      <3> QED BY <1>3, <2>2, <3>1, <3>2, <3>3, <3>4 DEF Held
    <2>5. \A m \in r.earlier : r.rows[m] = 0 /\ Date(m) <= r.from
      BY <1>3, <2>1, <2>4 DEF RowsOK
    <2>6. \A m \in Held(r) \ outlived[u] : Date(m) > r.from => m \in r.listened
      <3>1. ASSUME NEW m \in Held(r) \ outlived[u], Date(m) > r.from
            PROVE  m \in r.listened
        <4>1. CASE m \in Held(old)
          BY <1>3, <2>1, <3>1, <4>1 DEF RowsOK
        <4>2. CASE m \in E \ old.earlier
          BY <1>1, <1>2, <1>3, <2>4, <3>1, <4>2, ComposedMsg DEF ChatScreen
        <4> QED BY <2>3, <4>1, <4>2 DEF Held
      <3> QED BY <3>1
    <2>7. Held(r) \cup r.listened \subseteq Composed
      BY <1>2, <1>3, <2>1, <2>3 DEF RowsOK
    <2>8. r.phase \in {"loading", "listening"} /\ r.phase # "loading" /\ \A m \in Msg \ outlived[u] : r.rows[m] <= 1
      BY <1>1, <1>3, <2>1 DEF RowsOK
    <2>9. r.history # "asked"
      BY <1>3
    <2> QED BY <2>3, <2>5, <2>6, <2>7, <2>8, <2>9 DEF RowsOK
  <1>6. /\ UNCHANGED <<time, log, box, pending, ahead, uploads, deleted, outlived, repeated, scenario>>
        /\ UNCHANGED <<receipts, seen, unseen, lost>> /\ lost \in Nat /\ lost >= lost
        /\ receipts \in [Users -> SUBSET (Users \X Msg)] /\ seen \in [Users -> SUBSET Msg] /\ unseen \in [Users -> SUBSET Msg]
    BY DEF HistoryLoaded, removed, shown, bounded, server, TypeOK
  <1>7. Goes(s, r)
    BY <1>3, <1>4, <1>5, <1>6 DEF Goes
  <1>8. Shows
    BY <1>3, <1>6, QuietShows
  <1> QED BY <1>7, <1>8

LEMMA LoadMoreBecomes ==
    ASSUME TypeOK, RowsInv, NEW s \in Screen, LoadMore(s)
    PROVE  \E r : Goes(s, r) /\ Shows
  <1> DEFINE u == UserOf(s)
             old == screen[s]
  <1>1. u \in Users /\ old \in ChatScreen /\ old.open /\ old.history = "loaded"
    BY ScreenOfUser DEF TypeOK, LoadMore, InView
  <1>2. PICK S :
          /\ S \in Newest(old.earlier, Page + 1)
          /\ Becomes(s, [screen[s] EXCEPT !.rows = Rows(s, S),
                                          !.asRead = @ \cup ReadIn(UserOf(s), S),
                                          !.earlier = @ \ S])
          /\ seen' = [seen EXCEPT ![UserOf(s)] = @ \cup S]
    BY DEF LoadMore
  <1> DEFINE r == [old EXCEPT !.rows = Rows(s, S),
                              !.asRead = @ \cup ReadIn(UserOf(s), S),
                              !.earlier = @ \ S]
  <1>3. S \subseteq old.earlier /\ S \subseteq Msg
    BY <1>1, <1>2, NewestSubset DEF ChatScreen
  <1>4. Rows(s, S) \in [Msg -> Nat] /\ ReadIn(u, S) \subseteq Msg
    BY <1>1, <1>3 DEF Rows, ReadIn, ChatScreen
  <1>5. /\ r \in ChatScreen /\ r.phase = old.phase /\ r.open = old.open
        /\ r.rows = Rows(s, S) /\ r.from = old.from /\ r.earlier = old.earlier \ S
        /\ r.listened = old.listened /\ r.history = "loaded"
    BY <1>1, <1>4 DEF ChatScreen
  <1>6. screen' = [screen EXCEPT ![s] = r]
    BY <1>2 DEF Becomes
  <1> HIDE DEF r
  <1>7. RowsOK(old, outlived[u])
    BY <1>1 DEF RowsInv
  <1>8. \A m \in Msg : r.rows[m] = IF m \in S THEN 1 ELSE old.rows[m]
    <2>1. \A m \in S : old.rows[m] = 0
      BY <1>3, <1>7 DEF RowsOK
    <2>2. \A m \in Msg : old.rows[m] \in Nat
      BY <1>1 DEF ChatScreen
    <2> QED BY <1>3, <1>5, <2>1, <2>2 DEF Rows
  <1>9. Held(r) = Held(old)
    <2>1. Held(r) = {m \in Msg : m \in S \/ old.rows[m] > 0} \cup (old.earlier \ S)
      BY <1>5, <1>8 DEF Held
    <2> QED BY <1>3, <2>1 DEF Held
  <1>10. \A m \in r.earlier : r.rows[m] = 0 /\ Date(m) <= r.from
    BY <1>1, <1>5, <1>7, <1>8 DEF RowsOK, ChatScreen
  <1>11. \A m \in Msg \ outlived[u] : r.rows[m] <= 1
    <2>1. \A m \in S : old.rows[m] = 0
      BY <1>3, <1>7 DEF RowsOK
    <2> QED BY <1>7, <1>8 DEF RowsOK
  <1>12. r.phase # "loading"
    BY <1>1, <1>5, <1>7 DEF RowsOK
  <1>13. RowsOK(r, outlived[u])
    BY <1>5, <1>7, <1>9, <1>10, <1>11, <1>12 DEF RowsOK
  <1>14. /\ UNCHANGED <<time, log, box, pending, ahead, uploads, deleted, outlived, repeated, scenario>>
         /\ UNCHANGED <<receipts, lost, unseen>> /\ lost \in Nat /\ lost >= lost
         /\ receipts \in [Users -> SUBSET (Users \X Msg)]
    BY DEF LoadMore, removed, bounded, server, TypeOK
  <1>15. /\ seen' \in [Users -> SUBSET Msg] /\ unseen' \in [Users -> SUBSET Msg]
         /\ \A v \in Users : seen[v] \subseteq seen'[v] /\ unseen[v] \subseteq unseen'[v]
    BY <1>1, <1>2, <1>3, <1>14 DEF TypeOK
  <1>16. Goes(s, r)
    BY <1>1, <1>5, <1>6, <1>9, <1>13, <1>14, <1>15 DEF Goes
  <1>17. Shows
    BY <1>14, <1>15, QuietShows
  <1> QED BY <1>16, <1>17

LEMMA NewChatsBecomes ==
    ASSUME TypeOK, RowsInv, NEW s \in Screen, NewChats(s)
    PROVE  \E r : Goes(s, r) /\ Shows
  <1> DEFINE u == UserOf(s)
             old == screen[s]
             S == Added(s)
             r == [old EXCEPT !.rows = Rows(s, S),
                              !.asRead = @ \cup ReadIn(UserOf(s), S),
                              !.listened = @ \cup S]
  <1>1. u \in Users /\ old \in ChatScreen /\ old.phase = "listening" /\ Display(s, S)
    BY ScreenOfUser DEF TypeOK, NewChats
  <1>2. screen' = [screen EXCEPT ![s] = r]
    BY DEF NewChats, Becomes
  <1>3. /\ S \subseteq Visible(u, u) /\ S \subseteq Composed /\ S \subseteq Msg
        /\ \A m \in S : Date(m) > old.from /\ m \notin old.listened
    BY <1>1, VisibleIsComposed DEF Added
  <1>4. /\ Rows(s, S) \in [Msg -> Nat] /\ ReadIn(u, S) \subseteq Msg
        /\ receipts' \in [Users -> SUBSET (Users \X Msg)]
        /\ seen' \in [Users -> SUBSET Msg] /\ unseen' \in [Users -> SUBSET Msg]
    BY <1>1, <1>3, Displayed
  <1>5. /\ r \in ChatScreen /\ r.phase = "listening" /\ r.open = old.open
        /\ r.rows = Rows(s, S) /\ r.from = old.from /\ r.earlier = old.earlier
        /\ r.listened = old.listened \cup S /\ r.history = old.history
    BY <1>1, <1>3, <1>4 DEF ChatScreen
  <1> HIDE DEF r, S
  <1>6. ASSUME old.open
        PROVE  RowsOK(r, outlived[u]) /\ Held(r) \subseteq Visible(u, u) \cup Held(old)
    <2>1. RowsOK(old, outlived[u])
      BY <1>6 DEF RowsInv
    <2>2. ASSUME NEW m \in S
          PROVE  m \notin outlived[u] => old.rows[m] = 0
      <3>1. m \notin outlived[u] => m \notin Held(old)
        BY <1>3, <2>1, <2>2 DEF RowsOK
      <3>2. old.rows[m] \in Nat
        BY <1>1, <1>3, <2>2 DEF ChatScreen
      <3> QED BY <1>3, <2>2, <3>1, <3>2 DEF Held
    <2>3. \A m \in Msg : old.rows[m] \in Nat
      BY <1>1 DEF ChatScreen
    <2>4. \A m \in Msg : r.rows[m] = old.rows[m] + IF m \in S THEN 1 ELSE 0
      BY <1>5 DEF Rows
    <2>5. Held(r) = Held(old) \cup S
      BY <1>3, <1>5, <2>3, <2>4 DEF Held
    <2>6. \A m \in r.earlier : r.rows[m] = 0 /\ Date(m) <= r.from
      <3>1. \A m \in r.earlier : m \in Msg /\ m \in Composed /\ m \notin S
        <4>1. \A m \in r.earlier : m \in Msg /\ m \in Composed /\ Date(m) <= old.from
          BY <1>1, <1>5, <2>1 DEF RowsOK, Held, ChatScreen
        <4>2. old.from \in Nat
          BY <1>1 DEF ChatScreen
        <4> QED BY <1>3, <4>1, <4>2, ComposedMsg
      <3> QED BY <1>5, <2>1, <2>3, <2>4, <3>1 DEF RowsOK
    <2>7. \A m \in Held(r) \ outlived[u] : Date(m) > r.from => m \in r.listened
      BY <1>5, <2>1, <2>5 DEF RowsOK
    <2>8. ASSUME r.history = "asked", NEW e \in r.earlier, NEW m \in Held(r) \ r.earlier
          PROVE  Date(m) >= Date(e)
      <3>1. CASE m \in Held(old)
        BY <1>5, <2>1, <2>8, <3>1 DEF RowsOK
      <3>2. CASE m \in S
        <4>1. e \in Composed /\ Date(e) <= old.from
          BY <1>5, <2>1, <2>8 DEF RowsOK, Held
        <4>2. Date(e) \in Nat /\ Date(m) \in Nat /\ old.from \in Nat
          BY <1>1, <1>3, <3>2, <4>1, ComposedMsg DEF ChatScreen
        <4> QED BY <1>3, <3>2, <4>1, <4>2
      <3> QED BY <2>5, <2>8, <3>1, <3>2
    <2>9. Held(r) \cup r.listened \subseteq Composed
      BY <1>3, <1>5, <2>1, <2>5 DEF RowsOK
    <2>10. \A m \in Msg \ outlived[u] : r.rows[m] <= 1
      BY <2>1, <2>2, <2>3, <2>4 DEF RowsOK
    <2>11. r.history = "asked" => r.earlier # {}
      BY <1>5, <2>1 DEF RowsOK
    <2> QED BY <1>3, <1>5, <2>5, <2>6, <2>7, <2>8, <2>9, <2>10, <2>11 DEF RowsOK
  <1>7. /\ UNCHANGED <<time, log, box, pending, ahead, uploads, deleted, outlived, repeated, scenario>>
        /\ UNCHANGED lost /\ lost \in Nat /\ lost >= lost
    BY DEF NewChats, removed, shown, bounded, server, TypeOK
  <1>8. Goes(s, r)
    BY <1>2, <1>4, <1>5, <1>6, <1>7 DEF Goes
  <1>9. Shows
    BY <1>1, <1>3, DisplayShows
  <1> QED BY <1>8, <1>9

LEMMA UpdatedBecomes ==
    ASSUME TypeOK, RowsInv, NEW s \in Screen, Updated(s)
    PROVE  \E r : Goes(s, r) /\ Shows
  <1> DEFINE r == screen[s]
  <1>1. r \in ChatScreen /\ r.open
    BY DEF TypeOK, Updated
  <1>2. screen' = [screen EXCEPT ![s] = r]
    <2>1. screen' = [screen EXCEPT ![s] = [screen[s] EXCEPT !.asRead = screen[s].asRead]]
      BY DEF Updated, Becomes, UpdateMessage
    <2>2. [screen[s] EXCEPT !.asRead = screen[s].asRead] = screen[s]
      BY <1>1 DEF ChatScreen
    <2> QED BY <2>1, <2>2
  <1>3. RowsOK(r, outlived[UserOf(s)])
    BY <1>1 DEF RowsInv
  <1>4. /\ UNCHANGED <<time, log, box, pending, ahead, uploads, deleted, outlived, repeated, scenario>>
        /\ UNCHANGED <<receipts, seen, unseen, lost>> /\ lost \in Nat /\ lost >= lost
        /\ receipts \in [Users -> SUBSET (Users \X Msg)] /\ seen \in [Users -> SUBSET Msg] /\ unseen \in [Users -> SUBSET Msg]
    BY DEF Updated, removed, shown, bounded, server, TypeOK
  <1>5. Goes(s, r)
    BY <1>1, <1>2, <1>3, <1>4 DEF Goes
  <1>6. Shows
    BY <1>4, QuietShows
  <1> QED BY <1>5, <1>6

LEMMA BackBecomes ==
    ASSUME TypeOK, RowsInv, NEW s \in Screen, Back(s)
    PROVE  \E r : Goes(s, r) /\ Shows
  <1> DEFINE r == IF screen[s].phase = "loading" THEN [screen[s] EXCEPT !.open = FALSE]
                  ELSE [NoScreen EXCEPT !.phase = "closed"]
  <1>1. screen[s] \in ChatScreen /\ screen[s].open
    BY DEF TypeOK, Back, InView
  <1>2. r \in ChatScreen /\ ~r.open
    <2>1. [screen[s] EXCEPT !.open = FALSE] \in ChatScreen /\ ~[screen[s] EXCEPT !.open = FALSE].open
      BY <1>1 DEF ChatScreen
    <2>2. [NoScreen EXCEPT !.phase = "closed"] \in ChatScreen /\ ~[NoScreen EXCEPT !.phase = "closed"].open
      BY DEF ChatScreen, NoScreen
    <2> QED BY <2>1, <2>2
  <1>3. screen' = [screen EXCEPT ![s] = r]
    BY DEF Back, Becomes
  <1> HIDE DEF r
  <1>4. /\ UNCHANGED <<time, log, box, pending, ahead, uploads, deleted, outlived, repeated, scenario>>
        /\ UNCHANGED <<receipts, seen, unseen, lost>> /\ lost \in Nat /\ lost >= lost
        /\ receipts \in [Users -> SUBSET (Users \X Msg)] /\ seen \in [Users -> SUBSET Msg] /\ unseen \in [Users -> SUBSET Msg]
    BY DEF Back, removed, shown, bounded, server, TypeOK
  <1>5. Goes(s, r)
    BY <1>2, <1>3, <1>4 DEF Goes
  <1>6. Shows
    BY <1>4, QuietShows
  <1> QED BY <1>5, <1>6

\* A screen is covered, or in view again.
LEMMA CoverBecomes ==
    ASSUME TypeOK, RowsInv, NEW s \in Screen, NEW b \in BOOLEAN, screen[s].open,
           Becomes(s, [screen[s] EXCEPT !.covered = b]),
           UNCHANGED <<time, log, server, uploads, receipts, removed, unseen, bounded>>,
           seen' \in [Users -> SUBSET Msg], \A u \in Users : seen[u] \subseteq seen'[u]
    PROVE  \E r : Goes(s, r) /\ Shows
  <1> DEFINE r == [screen[s] EXCEPT !.covered = b]
  <1>1. screen[s] \in ChatScreen
    BY DEF TypeOK
  <1>2. /\ r \in ChatScreen /\ r.phase = screen[s].phase /\ r.open = screen[s].open
        /\ r.rows = screen[s].rows /\ r.from = screen[s].from /\ r.earlier = screen[s].earlier
        /\ r.listened = screen[s].listened /\ r.history = screen[s].history
    BY <1>1 DEF ChatScreen
  <1>3. screen' = [screen EXCEPT ![s] = r]
    BY DEF Becomes
  <1> HIDE DEF r
  <1>4. Held(r) = Held(screen[s])
    BY <1>2 DEF Held
  <1>5. RowsOK(r, outlived[UserOf(s)])
    BY <1>2, <1>4 DEF RowsInv, RowsOK
  <1>6. /\ UNCHANGED <<time, log, box, pending, ahead, uploads, deleted, outlived, repeated, scenario>>
        /\ UNCHANGED <<receipts, unseen, lost>> /\ lost \in Nat /\ lost >= lost
        /\ receipts \in [Users -> SUBSET (Users \X Msg)] /\ unseen \in [Users -> SUBSET Msg]
    BY DEF removed, shown, bounded, server, removed, TypeOK
  <1>7. Goes(s, r)
    BY <1>2, <1>3, <1>4, <1>5, <1>6 DEF Goes
  <1>8. Shows
    BY <1>6, QuietShows
  <1> QED BY <1>7, <1>8

LEMMA CoversBecome ==
    ASSUME TypeOK, RowsInv, NEW s \in Screen, Cover(s) \/ Uncover(s)
    PROVE  \E r : Goes(s, r) /\ Shows
  <1>1. UserOf(s) \in Users /\ seen \in [Users -> SUBSET Msg]
    BY ScreenOfUser DEF TypeOK
  <1>2. CASE Cover(s)
    <2>1. /\ screen[s].open /\ Becomes(s, [screen[s] EXCEPT !.covered = TRUE])
          /\ UNCHANGED <<time, log, server, uploads, receipts, removed, unseen, bounded>>
          /\ UNCHANGED seen
      BY <1>2 DEF Cover, InView, shown
    <2>2. \A u \in Users : seen[u] \subseteq seen'[u]
      BY <2>1
    <2> QED BY <1>1, <2>1, <2>2, CoverBecomes
  <1>3. CASE Uncover(s)
    <2>1. /\ screen[s].open /\ Becomes(s, [screen[s] EXCEPT !.covered = FALSE])
          /\ UNCHANGED <<time, log, server, uploads, receipts, removed, unseen, bounded>>
          /\ seen' = [seen EXCEPT ![UserOf(s)] = @ \cup {m \in Msg : screen[s].rows[m] > 0}]
      BY <1>3 DEF Uncover
    <2>2. seen' \in [Users -> SUBSET Msg] /\ \A u \in Users : seen[u] \subseteq seen'[u]
      BY <1>1, <2>1
    <2> QED BY <2>1, <2>2, CoverBecomes
  <1> QED BY <1>2, <1>3

--------------------------------------------------------------------------------
(* The steps, by what they do.                                                 *)

ScreenStep(s) ==
    \/ Open(s) \/ Loaded(s) \/ LoadFailed(s) \/ HistoryLoaded(s)
    \/ LoadMore(s) \/ NewChats(s) \/ Updated(s) \/ Back(s) \/ Cover(s) \/ Uncover(s)

SendStep(u) == SendText(u) \/ \E date \in uploads[u] : Uploaded(u, date)

QuietStep(u) ==
    \/ StartUpload(u) \/ SendLocation(u)
    \/ \E date \in uploads[u] : UploadFailed(u, date)
    \/ \E r \in receipts[u] : ReceiptFailed(u, r[1], r[2])
    \/ Reconnect(u)

LEMMA StepKinds ==
    ASSUME Next
    PROVE  \/ \E s \in Screen : ScreenStep(s)
           \/ \E s \in Screen : \E m \in Msg : Delete(s, m)
           \/ \E u \in Users : \/ SendStep(u) \/ QuietStep(u)
                               \/ \E r \in receipts[u] : Receipt(u, r[1], r[2])
                               \/ Kill(u) \/ Serve(u) \/ TakeUnanswered(u)
           \/ Tick
  <1>1. ASSUME NEW u \in Users, UserAction(u)
        PROVE  \/ SendStep(u) \/ QuietStep(u)
               \/ \E s \in Screen : ScreenStep(s) \/ \E m \in Msg : Delete(s, m)
    <2>1. CASE SendText(u) \/ StartUpload(u) \/ SendLocation(u)
      BY <2>1 DEF SendStep, QuietStep
    <2>2. ASSUME NEW k \in 1..MaxScreens, NEW s, s = <<u, k>>,
                 \/ Open(s) \/ LoadMore(s) \/ Back(s) \/ Cover(s) \/ Uncover(s)
                 \/ \E m \in Msg : Delete(s, m)
          PROVE  s \in Screen /\ (ScreenStep(s) \/ \E m \in Msg : Delete(s, m))
      BY <2>2 DEF Screen, ScreenStep
    <2> QED BY <1>1, <2>1, <2>2 DEF UserAction
  <1>2. ASSUME NEW u \in Users, Failure(u)
        PROVE  \/ Kill(u) \/ TakeUnanswered(u) \/ QuietStep(u)
               \/ \E s \in Screen : ScreenStep(s)
    <2>1. ASSUME NEW k \in 1..MaxScreens, LoadFailed(<<u, k>>)
          PROVE  \E s \in Screen : ScreenStep(s)
      <3>1. <<u, k>> \in Screen
        BY <2>1 DEF Screen
      <3> QED BY <2>1, <3>1 DEF ScreenStep
    <2>2. CASE Kill(u) \/ TakeUnanswered(u)
      BY <2>2
    <2>3. CASE \E date \in uploads[u] : UploadFailed(u, date)
      BY <2>3 DEF QuietStep
    <2>4. CASE \E r \in receipts[u] : ReceiptFailed(u, r[1], r[2])
      BY <2>4 DEF QuietStep
    <2> QED BY <1>2, <2>1, <2>2, <2>3, <2>4 DEF Failure
  <1>3. ASSUME NEW s \in Screen, ScreenEvent(s)
        PROVE  ScreenStep(s)
    BY <1>3 DEF ScreenEvent, ScreenStep
  <1>4. ASSUME NEW u \in Users, \/ \E date \in uploads[u] : Uploaded(u, date)
                                \/ Reconnect(u)
        PROVE  SendStep(u) \/ QuietStep(u)
    BY <1>4 DEF SendStep, QuietStep
  <1> QED BY <1>1, <1>2, <1>3, <1>4 DEF Next

\* Each of them, by the variables it changes.
LEMMA ScreenSteps ==
    ASSUME TypeOK, RowsInv, NEW s \in Screen, ScreenStep(s)
    PROVE  \E r : Goes(s, r) /\ Shows
  BY OpenBecomes, LoadedBecomes, LoadFailedBecomes, HistoryLoadedBecomes, LoadMoreBecomes,
     NewChatsBecomes, UpdatedBecomes, BackBecomes, CoversBecome DEF ScreenStep

Sends(u) ==
    /\ \E kind \in AllKinds : \E date \in Nat : Compose(u, kind, date)
    /\ SendToAll(u)
    /\ UNCHANGED <<time, box, ahead, receipts, screen, deleted, outlived, seen, unseen, lost, repeated, scenario>>
    /\ uploads' \in [Users -> SUBSET Nat]

LEMMA SendSteps ==
    ASSUME TypeOK, NEW u \in Users, SendStep(u)
    PROVE  Sends(u)
  <1>1. CASE SendText(u)
    <2>1. Compose(u, "text", Now(u)) /\ Now(u) \in Nat
      BY <1>1, NowTyped DEF SendText
    <2> QED BY <1>1, <2>1 DEF SendText, Sends, AllKinds, removed, shown, bounded, TypeOK
  <1>2. ASSUME NEW date \in uploads[u], Uploaded(u, date)
        PROVE  Sends(u)
    <2>1. uploads[u] \in SUBSET Nat /\ date \in Nat
      BY DEF TypeOK
    <2>2. Compose(u, "media", date) /\ uploads' \in [Users -> SUBSET Nat]
      BY <1>2, <2>1 DEF Uploaded, TypeOK
    <2> QED BY <1>2, <2>1, <2>2 DEF Uploaded, Sends, AllKinds, removed, shown, bounded
  <1> QED BY <1>1, <1>2 DEF SendStep

Quiet ==
    /\ LogGrows
    /\ UNCHANGED <<box, pending, screen, deleted, outlived, seen, unseen, repeated, scenario>>
    /\ time' \in Nat /\ ahead' \in [Users -> Nat] /\ uploads' \in [Users -> SUBSET Nat]
    /\ receipts' \in [Users -> SUBSET (Users \X Msg)]
    /\ \A u \in Users : receipts'[u] \subseteq receipts[u]
    /\ lost' \in Nat /\ lost' >= lost

LEMMA QuietSteps ==
    ASSUME TypeOK, \/ \E u \in Users : QuietStep(u)
                   \/ Tick
    PROVE  Quiet
  <1>1. /\ time \in Nat /\ ahead \in [Users -> Nat] /\ uploads \in [Users -> SUBSET Nat]
        /\ receipts \in [Users -> SUBSET (Users \X Msg)]
        /\ lost \in Nat /\ lost >= lost /\ lost + 1 \in Nat /\ lost + 1 >= lost
    BY DEF TypeOK
  <1>2. CASE Tick
    BY <1>1, <1>2 DEF Tick, Quiet, LogGrows, server, removed, shown, bounded
  <1>3. ASSUME NEW u \in Users, StartUpload(u)
        PROVE  Quiet
    BY <1>1, <1>3, NowTyped DEF StartUpload, Quiet, LogGrows, server, removed, shown, bounded
  <1>4. ASSUME NEW u \in Users, SendLocation(u)
        PROVE  Quiet
    <2>1. Compose(u, "location", Now(u)) /\ Now(u) \in Nat
      BY <1>4, NowTyped DEF SendLocation
    <2>2. LogGrows
      BY <2>1, ComposeGrows DEF AllKinds
    <2> QED BY <1>1, <1>4, <2>2 DEF SendLocation, Quiet, server, removed, shown, bounded
  <1>5. ASSUME NEW u \in Users, NEW date, UploadFailed(u, date)
        PROVE  Quiet
    BY <1>1, <1>5 DEF UploadFailed, Fails, Quiet, LogGrows, server, removed, shown
  <1>6. ASSUME NEW u \in Users, NEW v, NEW m, ReceiptFailed(u, v, m)
        PROVE  Quiet
    <2>1. receipts' = [receipts EXCEPT ![u] = receipts[u] \ {<<v, m>>}]
      BY <1>6 DEF ReceiptFailed
    <2>2. receipts' \in [Users -> SUBSET (Users \X Msg)] /\ \A x \in Users : receipts'[x] \subseteq receipts[x]
      BY <1>1, <2>1
    <2> QED BY <1>1, <1>6, <2>2 DEF ReceiptFailed, Fails, Quiet, LogGrows, server, removed, shown
  <1>7. ASSUME NEW u \in Users, Reconnect(u)
        PROVE  Quiet
    <2>1. ahead' \in [Users -> Nat]
      BY <1>1, <1>7 DEF Reconnect
    <2> QED BY <1>1, <1>7, <2>1 DEF Reconnect, Quiet, LogGrows, removed, shown, bounded
  <1> QED BY <1>2, <1>3, <1>4, <1>5, <1>6, <1>7 DEF QuietStep

\* A receipt is done with: a copy that is there is marked.
Receipts(u, r) ==
    /\ r \in receipts[u] /\ r[1] \in Users /\ r[2] \in Msg
    /\ \E batch \in SUBSET {MarkRead(r[1], r[2])} :
          Queue(u, batch) /\ (batch # {} => r[2] \in Composed)
    /\ UNCHANGED <<time, log, box, ahead, uploads, screen, deleted, outlived, seen, unseen, lost, repeated, scenario>>
    /\ receipts' \in [Users -> SUBSET (Users \X Msg)]
    /\ \A v \in Users : receipts'[v] \subseteq receipts[v]

LEMMA ReceiptSteps ==
    ASSUME TypeOK, NEW u \in Users, NEW r \in receipts[u], Receipt(u, r[1], r[2])
    PROVE  Receipts(u, r)
  <1>1. r \in Users \X Msg /\ r[1] \in Users /\ r[2] \in Msg
    BY DEF TypeOK
  <1>2. Visible(u, r[1]) \subseteq Composed
    BY <1>1, VisibleIsComposed
  <1>3. \E batch \in SUBSET {MarkRead(r[1], r[2])} :
          Queue(u, batch) /\ (batch # {} => r[2] \in Composed)
    <2>1. CASE r[2] \in Visible(u, r[1])
      BY <1>2, <2>1 DEF Receipt
    <2>2. CASE r[2] \notin Visible(u, r[1])
      BY <2>2 DEF Receipt
    <2> QED BY <2>1, <2>2
  <1>4. receipts' = [receipts EXCEPT ![u] = receipts[u] \ {<<r[1], r[2]>>}]
    BY DEF Receipt
  <1>5. /\ receipts' \in [Users -> SUBSET (Users \X Msg)]
        /\ \A v \in Users : receipts'[v] \subseteq receipts[v]
    BY <1>4 DEF TypeOK
  <1> QED BY <1>1, <1>3, <1>5 DEF Receipt, Receipts, removed, shown, bounded

\* A deletion: the row is gone, and the user's own copy will be; a screen that
\* still has the message loaded has outlived it.
Deletes(s, m) ==
    /\ screen[s].open /\ screen[s].rows[m] > 0 /\ m \in Composed
    /\ UNCHANGED <<time, log, box, ahead, uploads, receipts, seen, unseen, lost, repeated, scenario>>
    /\ Queue(UserOf(s), {Remove(UserOf(s), m)})
    /\ deleted' = [deleted EXCEPT ![UserOf(s)] = @ \cup {m}]
    /\ outlived' \in [Users -> SUBSET Msg]
    /\ \A u \in Users : outlived[u] \subseteq outlived'[u]
    /\ screen' \in [Screen -> ChatScreen]
    /\ \A t \in Screen : screen'[t].open =>
          /\ screen[t].open
          /\ RowsOK(screen'[t], outlived'[UserOf(t)])
          /\ Held(screen'[t]) \subseteq Held(screen[t])
          /\ UserOf(t) = UserOf(s) /\ m \in Held(screen'[t]) => m \in outlived'[UserOf(t)]

\* A screen with c rows of m, and m no longer among what the listener remembers.
Less(old, r, m, c) ==
    r = [old EXCEPT !.rows = [old.rows EXCEPT ![m] = c], !.listened = old.listened \ {m}]

LEMMA LessOf ==
    ASSUME NEW old \in ChatScreen, NEW m \in Msg, NEW c \in Nat, NEW r, Less(old, r, m, c)
    PROVE  r \in ChatScreen /\ r.open = old.open
  <1> DEFINE rows == [old.rows EXCEPT ![m] = c]
             listened == old.listened \ {m}
  <1>1. rows \in [Msg -> Nat] /\ listened \in SUBSET Msg
    BY DEF ChatScreen
  <1>2. r = [old EXCEPT !.rows = rows, !.listened = listened]
    BY DEF Less
  <1> HIDE DEF rows, listened
  <1> QED BY <1>1, <1>2 DEF ChatScreen

\* A screen without m among the listener's and with n rows of it, no more than
\* there were, is in order if m is exempt, or no longer on it.
LEMMA DeletedFrom ==
    ASSUME TypeOK, NEW old \in ChatScreen, NEW o, NEW p, o \subseteq p, RowsOK(old, o), NEW m \in Msg,
           NEW c \in Nat, c <= old.rows[m], NEW r,
           Less(old, r, m, c), m \in p \/ (c = 0 /\ m \notin old.earlier)
    PROVE  /\ r \in ChatScreen /\ r.open = old.open /\ RowsOK(r, p) /\ Held(r) \subseteq Held(old)
           /\ m \in p \/ m \notin Held(r)
  <1> DEFINE rows == [old.rows EXCEPT ![m] = c]
             listened == old.listened \ {m}
  <1>1. rows \in [Msg -> Nat] /\ listened \in SUBSET Msg /\ old.rows \in [Msg -> Nat]
    BY DEF ChatScreen
  <1>2. r = [old EXCEPT !.rows = rows, !.listened = listened]
    BY DEF Less
  <1>13. \A n \in Msg : rows[n] = IF n = m THEN c ELSE old.rows[n]
    BY <1>1
  <1>14. listened \subseteq old.listened /\ \A n \in old.listened : n # m => n \in listened
    OBVIOUS
  <1> HIDE DEF rows, listened
  <1>4. /\ r \in ChatScreen
        /\ r.phase = old.phase /\ r.open = old.open /\ r.from = old.from
        /\ r.earlier = old.earlier /\ r.listened = listened /\ r.history = old.history
        /\ r.rows = rows
    BY <1>1, <1>2 DEF ChatScreen
  <1>3. r.phase = old.phase /\ r.open = old.open /\ r.from = old.from
        /\ r.earlier = old.earlier /\ r.listened = listened /\ r.history = old.history
        /\ r.rows = rows
    BY <1>4
  <1>5. \A n \in Msg : r.rows[n] \in Nat /\ r.rows[n] <= old.rows[n] /\ (n # m => r.rows[n] = old.rows[n])
    BY <1>1, <1>3, <1>13
  <1>6. Held(r) \subseteq Held(old)
    BY <1>1, <1>3, <1>5 DEF Held
  <1>7. \A n \in Msg \ p : r.rows[n] <= 1
    BY <1>1, <1>5 DEF RowsOK
  <1>8. \A n \in r.earlier : r.rows[n] = 0 /\ Date(n) <= r.from
    <2>1. r.earlier \subseteq Msg
      BY <1>4 DEF ChatScreen
    <2> QED BY <1>1, <1>3, <1>5, <2>1 DEF RowsOK
  <1>15. m \in p \/ m \notin Held(r)
    <2>1. c = 0 => ~(r.rows[m] > 0)
      BY <1>3, <1>13
    <2> QED BY <1>3, <2>1 DEF Held
  <1>9. \A n \in Held(r) \ p : Date(n) > r.from => n \in r.listened
    BY <1>3, <1>6, <1>14, <1>15 DEF RowsOK
  <1>10. r.history = "asked" =>
          /\ r.earlier # {}
          /\ \A e \in r.earlier : \A n \in Held(r) \ r.earlier : Date(n) >= Date(e)
    BY <1>3, <1>6 DEF RowsOK
  <1>11. Held(r) \cup r.listened \subseteq Composed
    BY <1>3, <1>6, <1>14 DEF RowsOK
  <1>12. /\ r.phase \in {"loading", "listening"}
         /\ r.phase = "loading" => Held(r) = {} /\ r.history = "none"
    BY <1>3, <1>6 DEF RowsOK
  <1>16. RowsOK(r, p)
    BY <1>7, <1>8, <1>9, <1>10, <1>11, <1>12 DEF RowsOK
  <1> QED BY <1>4, <1>6, <1>15, <1>16

LEMMA DeleteSteps ==
    ASSUME TypeOK, RowsInv, NEW s \in Screen, NEW m \in Msg, Delete(s, m)
    PROVE  Deletes(s, m)
  <1> DEFINE u == UserOf(s)
  <1>1. /\ screen[s] \in ChatScreen /\ RowsOK(screen[s], outlived[u]) /\ screen[s].open
        /\ screen[s].rows[m] > 0 /\ screen[s].rows[m] \in Nat /\ u \in Users
    BY ScreenOfUser DEF Delete, RowsInv, TypeOK, ChatScreen, InView
  <1>2. m \in Composed /\ m \notin screen[s].earlier
    BY <1>1 DEF Held, RowsOK
  <1>3. /\ outlived' \in [Users -> SUBSET Msg]
        /\ \A v \in Users : outlived[v] \subseteq outlived'[v]
        /\ \A t \in Screen \ {s} :
              UserOf(t) = u /\ screen[t].open /\ m \in Held(screen[t]) => m \in outlived'[u]
    BY <1>1 DEF Delete, TypeOK
  <1>4. ASSUME NEW t \in Screen, UserOf(t) = u
        PROVE  \E c \in Nat :
                  /\ c <= screen[t].rows[m]
                  /\ Less(screen[t], screen'[t], m, c)
                  /\ screen[t].open => m \in outlived'[u] \/ (c = 0 /\ m \notin screen[t].earlier)
    <2>1. screen'[t] = [screen[t] EXCEPT !.rows[m] = IF t = s THEN @ - 1 ELSE @,
                                         !.listened = @ \ {m}]
      BY <1>4 DEF Delete
    <2>2. screen[t].rows[m] \in Nat
      BY DEF TypeOK, ChatScreen
    <2>3. CASE t = s
      <3> DEFINE c == screen[t].rows[m] - 1
      <3>1. c \in Nat /\ c <= screen[t].rows[m]
        BY <1>1, <2>3
      <3>2. Less(screen[t], screen'[t], m, c)
        BY <2>1, <2>3 DEF Less
      <3>3. m \in outlived[u] \/ screen[s].rows[m] <= 1
        BY <1>1 DEF RowsOK
      <3>4. m \in outlived'[u] \/ (c = 0 /\ m \notin screen[t].earlier)
        BY <1>1, <1>2, <1>3, <2>3, <3>3
      <3> HIDE DEF c
      <3> QED BY <3>1, <3>2, <3>4
    <2>4. CASE t # s
      <3> DEFINE c == screen[t].rows[m]
      <3>1. c \in Nat /\ c <= screen[t].rows[m]
        BY <2>2
      <3>2. Less(screen[t], screen'[t], m, c)
        BY <2>1, <2>4 DEF Less
      <3>3. screen[t].open => m \in outlived'[u] \/ m \notin Held(screen[t])
        BY <1>3, <1>4, <2>4
      <3>4. m \notin Held(screen[t]) => c = 0 /\ m \notin screen[t].earlier
        BY <2>2 DEF Held
      <3> HIDE DEF c
      <3> QED BY <3>1, <3>2, <3>3, <3>4
    <2> QED BY <2>3, <2>4
  <1>5. ASSUME NEW t \in Screen
        PROVE  /\ screen'[t] \in ChatScreen
               /\ screen'[t].open =>
                    /\ screen[t].open
                    /\ RowsOK(screen'[t], outlived'[UserOf(t)])
                    /\ Held(screen'[t]) \subseteq Held(screen[t])
                    /\ UserOf(t) = u /\ m \in Held(screen'[t]) => m \in outlived'[UserOf(t)]
    <2>1. /\ UserOf(t) \in Users /\ outlived[UserOf(t)] \subseteq outlived'[UserOf(t)]
          /\ screen[t] \in ChatScreen
          /\ screen[t].open => RowsOK(screen[t], outlived[UserOf(t)])
      BY <1>3, ScreenOfUser DEF RowsInv, TypeOK
    <2>2. CASE UserOf(t) # u
      <3>1. screen'[t] = screen[t]
        BY <2>2 DEF Delete
      <3>2. screen[t].open => RowsOK(screen[t], outlived'[UserOf(t)])
        BY <2>1 DEF RowsOK
      <3> QED BY <2>1, <2>2, <3>1, <3>2
    <2>3. CASE UserOf(t) = u
      <3>1. PICK c \in Nat :
               /\ c <= screen[t].rows[m]
               /\ Less(screen[t], screen'[t], m, c)
               /\ screen[t].open => m \in outlived'[u] \/ (c = 0 /\ m \notin screen[t].earlier)
        BY <1>4, <2>3
      <3>2. screen'[t] \in ChatScreen /\ screen'[t].open = screen[t].open
        BY <2>1, <3>1, LessOf
      <3>3. ASSUME screen[t].open
            PROVE  /\ RowsOK(screen'[t], outlived'[u])
                   /\ Held(screen'[t]) \subseteq Held(screen[t])
                   /\ m \in Held(screen'[t]) => m \in outlived'[u]
        <4>1. PICK old, r, o, p : /\ old = screen[t] /\ r = screen'[t]
                                  /\ o = outlived[u] /\ p = outlived'[u]
          OBVIOUS
        <4>2. o \subseteq p /\ RowsOK(old, o) /\ old \in ChatScreen
          BY <2>1, <2>3, <3>3, <4>1
        <4>3. /\ c <= old.rows[m] /\ Less(old, r, m, c)
              /\ m \in p \/ (c = 0 /\ m \notin old.earlier)
          BY <3>1, <3>3, <4>1
        <4>4. RowsOK(r, p) /\ Held(r) \subseteq Held(old) /\ (m \in p \/ m \notin Held(r))
          BY <4>2, <4>3, DeletedFrom
        <4> QED BY <4>1, <4>4
      <3> QED BY <2>3, <3>2, <3>3
    <2> QED BY <2>2, <2>3
  <1>6. screen' \in [Screen -> ChatScreen]
    <2>1. screen' = [t \in Screen |-> screen'[t]]
      BY DEF Delete
    <2> QED BY <1>5, <2>1
  <1> QED BY <1>1, <1>2, <1>3, <1>5, <1>6 DEF Delete, Deletes, removed, shown, bounded

\* The app is killed: nothing of it is visible any more.
Kills(u) ==
    /\ UNCHANGED <<time, log, box, pending, ahead, deleted, outlived, seen, unseen, repeated, scenario>>
    /\ lost' \in Nat /\ lost' > 0 /\ lost' >= lost
    /\ uploads' \in [Users -> SUBSET Nat]
    /\ receipts' \in [Users -> SUBSET (Users \X Msg)]
    /\ \A v \in Users : receipts'[v] \subseteq receipts[v]
    /\ screen' \in [Screen -> ChatScreen]
    /\ \A t \in Screen : screen'[t].open => screen'[t] = screen[t]

LEMMA KillSteps ==
    ASSUME TypeOK, NEW u \in Users, Kill(u)
    PROVE  Kills(u)
  <1>1. [NoScreen EXCEPT !.phase = "closed"] \in ChatScreen /\ ~[NoScreen EXCEPT !.phase = "closed"].open
    BY DEF NoScreen, ChatScreen
  <1>2. /\ screen' \in [Screen -> ChatScreen]
        /\ \A t \in Screen : screen'[t].open => screen'[t] = screen[t]
    BY <1>1 DEF Kill, TypeOK
  <1>3. lost' \in Nat /\ lost' > 0 /\ lost' >= lost
    BY DEF Kill, Fails, TypeOK
  <1>4. /\ uploads' \in [Users -> SUBSET Nat]
        /\ receipts' \in [Users -> SUBSET (Users \X Msg)]
        /\ \A v \in Users : receipts'[v] \subseteq receipts[v]
    BY DEF Kill, TypeOK
  <1> QED BY <1>2, <1>3, <1>4 DEF Kill, Kills, server, Fails, removed, shown

--------------------------------------------------------------------------------
(* Types and rows are kept.                                                    *)

LEMMA RowsStay ==
    ASSUME TypeOK, LogGrows, NEW r \in ChatScreen, NEW o, RowsOK(r, o)
    PROVE  RowsOK(r, o)'
  <1>1. /\ Composed \subseteq Composed'
        /\ \A m \in Composed : Date(m)' = Date(m)
    BY LogStays DEF Date
  <1>2. r.earlier \subseteq Held(r) /\ Held(r) \subseteq Composed /\ r.listened \subseteq Composed
    BY DEF RowsOK, Held
  <1>3. Held(r)' = Held(r)
    BY DEF Held
  <1>4. \A m \in r.earlier : r.rows[m] = 0 /\ Date(m)' <= r.from
    BY <1>1, <1>2 DEF RowsOK
  <1>5. \A m \in Held(r) \ o : Date(m)' > r.from => m \in r.listened
    BY <1>1, <1>2 DEF RowsOK
  <1>6. r.history = "asked" =>
          /\ r.earlier # {}
          /\ \A e \in r.earlier : \A m \in Held(r) \ r.earlier : Date(m)' >= Date(e)'
    BY <1>1, <1>2 DEF RowsOK
  <1>7. Held(r) \cup r.listened \subseteq Composed'
    BY <1>1, <1>2
  <1>8. /\ r.phase \in {"loading", "listening"}
        /\ r.phase = "loading" => Held(r) = {} /\ r.history = "none"
        /\ \A m \in Msg \ o : r.rows[m] <= 1
    BY DEF RowsOK
  <1> HIDE DEF Held
  <1> QED BY <1>3, <1>4, <1>5, <1>6, <1>7, <1>8 DEF RowsOK

\* It is enough to say of each screen that is on the stack now that it was good
\* at the step, by the log of before.
LEMMA RowsKept ==
    ASSUME TypeOK, LogGrows, screen' \in [Screen -> ChatScreen],
           \A s \in Screen : screen'[s].open => RowsOK(screen'[s], outlived'[UserOf(s)])
    PROVE  RowsInv'
  <1>1. ASSUME NEW s \in Screen, screen'[s].open
        PROVE  RowsOK(screen[s], outlived[UserOf(s)])'
    <2>1. PICK r \in ChatScreen : r = screen'[s]
      OBVIOUS
    <2>2. PICK o : o = outlived'[UserOf(s)]
      OBVIOUS
    <2>3. RowsOK(r, o)
      BY <1>1, <2>1, <2>2
    <2>4. RowsOK(r, o)'
      BY <2>1, <2>3, RowsStay
    <2> QED BY <2>1, <2>2, <2>4 DEF RowsOK, Held, UserOf
  <1> QED BY <1>1 DEF RowsInv

LEMMA ScreenKeepsRows ==
    ASSUME TypeOK, RowsInv, NEW s \in Screen, NEW r, Goes(s, r)
    PROVE  TypeOK' /\ RowsInv'
  <1>1. LogGrows /\ UNCHANGED <<log, pending>>
    BY DEF LogGrows, Goes
  <1>2. /\ screen' \in [Screen -> ChatScreen]
        /\ screen'[s] = r
        /\ \A t \in Screen \ {s} : screen'[t] = screen[t]
    BY OneScreen DEF Goes
  <1>3. \A u \in Users : Writes(u)' = Writes(u)
    BY <1>1 DEF Writes
  <1>4. Composed' = Composed
    BY <1>1 DEF Composed
  <1>5. TypeOK'
    BY <1>2, <1>3, <1>4 DEF TypeOK, Goes
  <1>6. \A t \in Screen : screen'[t].open => RowsOK(screen'[t], outlived'[UserOf(t)])
    BY <1>2 DEF Goes, RowsInv
  <1>7. RowsInv'
    BY <1>1, <1>2, <1>6, RowsKept
  <1> QED BY <1>5, <1>7

LEMMA ScreensAsTheyWere ==
    ASSUME TypeOK, RowsInv, LogGrows, UNCHANGED <<screen, outlived>>
    PROVE  RowsInv'
  <1>1. screen' \in [Screen -> ChatScreen]
    BY DEF TypeOK
  <1>2. \A s \in Screen : screen'[s].open => RowsOK(screen'[s], outlived'[UserOf(s)])
    BY DEF RowsInv
  <1> QED BY <1>1, <1>2, RowsKept

LEMMA QuietKeepsRows ==
    ASSUME TypeOK, RowsInv, Quiet
    PROVE  TypeOK' /\ RowsInv'
  <1>1. RowsInv'
    BY ScreensAsTheyWere DEF Quiet
  <1>2. /\ log' \in Seq(Message) /\ Len(log') <= MaxMessages
        /\ Composed \subseteq Composed'
    BY LogStays DEF Quiet
  <1>3. \A u \in Users : Writes(u)' = Writes(u)
    BY DEF Writes, Quiet
  <1>4. \A u \in Users : DOMAIN box'[u] \subseteq Composed'
    BY <1>2 DEF TypeOK, Quiet
  <1>5. \A u \in Users : \A w \in Writes(u)' : w.msg \in Composed'
    BY <1>2, <1>3 DEF TypeOK
  <1> QED BY <1>1, <1>2, <1>4, <1>5 DEF TypeOK, Quiet

LEMMA SendKeepsRows ==
    ASSUME TypeOK, RowsInv, NEW u \in Users, Sends(u)
    PROVE  TypeOK' /\ RowsInv'
  <1>1. /\ log' \in Seq(Message) /\ Len(log') <= MaxMessages
        /\ Composed \subseteq Composed'
        /\ pending' \in [Users -> Seq(SUBSET Mails)]
        /\ \A v \in Users : \A w \in Writes(v)' : w.msg \in Composed'
        /\ LogGrows
    BY SendTypes, ComposeGrows DEF Sends
  <1>2. RowsInv'
    BY <1>1, ScreensAsTheyWere DEF Sends
  <1>3. \A v \in Users : DOMAIN box'[v] \subseteq Composed'
    BY <1>1 DEF TypeOK, Sends
  <1> QED BY <1>1, <1>2, <1>3 DEF TypeOK, Sends

LEMMA ReceiptKeepsRows ==
    ASSUME TypeOK, RowsInv, NEW u \in Users, NEW r, Receipts(u, r)
    PROVE  TypeOK' /\ RowsInv'
  <1>1. PICK batch \in SUBSET {MarkRead(r[1], r[2])} :
          Queue(u, batch) /\ (batch # {} => r[2] \in Composed)
    BY DEF Receipts
  <1>2. batch \in SUBSET Mails /\ \A w \in batch : w.msg \in Composed
    BY <1>1, OneWrite DEF Receipts, MarkRead
  <1>3. /\ pending' \in [Users -> Seq(SUBSET Mails)]
        /\ \A v \in Users : \A w \in Writes(v)' : w.msg \in Composed'
    BY <1>1, <1>2, WriteTypes DEF Receipts
  <1>4. RowsInv'
    BY ScreensAsTheyWere DEF Receipts, LogGrows
  <1>5. Composed' = Composed
    BY DEF Composed, Receipts
  <1> QED BY <1>3, <1>4, <1>5 DEF TypeOK, Receipts

LEMMA DeleteKeepsRows ==
    ASSUME TypeOK, RowsInv, NEW s \in Screen, NEW m \in Msg, Deletes(s, m)
    PROVE  TypeOK' /\ RowsInv'
  <1> DEFINE u == UserOf(s)
  <1>1. u \in Users /\ Queue(u, {Remove(u, m)}) /\ m \in Composed
    BY ScreenOfUser DEF Deletes
  <1>2. {Remove(u, m)} \in SUBSET Mails /\ \A w \in {Remove(u, m)} : w.msg \in Composed
    BY <1>1, OneWrite DEF Remove
  <1>3. /\ pending' \in [Users -> Seq(SUBSET Mails)]
        /\ \A v \in Users : \A w \in Writes(v)' : w.msg \in Composed'
    BY <1>1, <1>2, WriteTypes DEF Deletes
  <1>4. deleted' \in [Users -> SUBSET Msg]
    BY <1>1 DEF Deletes, TypeOK
  <1>5. Composed' = Composed
    BY DEF Composed, Deletes
  <1>6. TypeOK'
    BY <1>3, <1>4, <1>5 DEF TypeOK, Deletes
  <1>7. RowsInv'
    BY RowsKept DEF Deletes, LogGrows
  <1> QED BY <1>6, <1>7

LEMMA KillKeepsRows ==
    ASSUME TypeOK, RowsInv, NEW u \in Users, Kills(u)
    PROVE  TypeOK' /\ RowsInv'
  <1>1. Composed' = Composed /\ \A v \in Users : Writes(v)' = Writes(v)
    BY DEF Kills, Composed, Writes
  <1>2. TypeOK'
    BY <1>1 DEF TypeOK, Kills
  <1>3. \A t \in Screen : screen'[t].open => RowsOK(screen'[t], outlived'[UserOf(t)])
    BY DEF Kills, RowsInv
  <1>4. RowsInv'
    BY <1>3, RowsKept DEF Kills, LogGrows
  <1> QED BY <1>2, <1>4

LEMMA ServeKeepsRows ==
    ASSUME TypeOK, RowsInv, NEW u \in Users, Serve(u)
    PROVE  TypeOK' /\ RowsInv'
  <1>1. PICK w \in Mails : ServesWrite(u, w)
    BY Serving
  <1>2. /\ pending' \in [Users -> Seq(SUBSET Mails)]
        /\ box' = [v \in Users |-> box'[v]]
    BY Serving
  <1>3. UNCHANGED <<time, log, ahead, uploads, receipts, screen, deleted, outlived, seen, unseen, lost, repeated, scenario>>
    BY DEF Serve, removed, shown, bounded
  <1>4. Composed' = Composed /\ \A v \in Users : \A x \in Writes(v)' : x.msg \in Composed
    BY <1>1, <1>3 DEF Composed, ServesWrite, TypeOK
  <1>5. ASSUME NEW v \in Users
        PROVE  DOMAIN box'[v] \subseteq Composed
    <2>1. CASE v # w.to
      BY <1>1, <2>1 DEF ServesWrite, TypeOK
    <2>2. CASE v = w.to
      <3> DEFINE a == Applied(box[v], w)
      <3>1. DOMAIN a \subseteq DOMAIN box[v] \cup {w.msg}
        BY AppliedMail
      <3>2. w.msg \in Composed /\ DOMAIN box[v] \subseteq Composed
        BY <1>1 DEF ServesWrite, TypeOK
      <3>3. box'[v] = a
        BY <1>1, <2>2 DEF ServesWrite
      <3> HIDE DEF a
      <3> QED BY <3>1, <3>2, <3>3
    <2> QED BY <2>1, <2>2
  <1>6. TypeOK'
    BY <1>2, <1>3, <1>4, <1>5 DEF TypeOK
  <1>7. RowsInv'
    BY <1>3, ScreensAsTheyWere DEF LogGrows
  <1> QED BY <1>6, <1>7

LEMMA TakeKeepsRows ==
    ASSUME TypeOK, RowsInv, NEW u \in Users, TakeUnanswered(u)
    PROVE  TypeOK' /\ RowsInv'
  <1>1. /\ box' = [v \in Users |-> box'[v]]
        /\ repeated' \subseteq repeated \cup Composed
        /\ \A v \in Users : DOMAIN box'[v] \subseteq Composed
    BY TakenUnanswered
  <1>2. UNCHANGED <<time, log, pending, uploads, receipts, screen, deleted, outlived, seen, unseen, scenario>>
    BY DEF TakeUnanswered, Fails, removed, shown
  <1>3. ahead' \in [Users -> Nat] /\ lost' \in Nat
    BY DEF TakeUnanswered, Fails, TypeOK
  <1>4. repeated' \subseteq Msg
    BY <1>1, ComposedMsg DEF TypeOK
  <1>5. Composed' = Composed /\ \A v \in Users : Writes(v)' = Writes(v)
    BY <1>2 DEF Composed, Writes
  <1>6. TypeOK'
    BY <1>1, <1>2, <1>3, <1>4, <1>5 DEF TypeOK
  <1>7. RowsInv'
    BY <1>2, ScreensAsTheyWere DEF LogGrows
  <1> QED BY <1>6, <1>7

LEMMA InitRows == Init => TypeOK /\ RowsInv
  <1> SUFFICES ASSUME Init PROVE TypeOK /\ RowsInv
    OBVIOUS
  <1>1. log \in Seq(Message) /\ Len(log) = 0 /\ Composed = {}
    BY DEF Init, Composed
  <1>2. screen \in [Screen -> ChatScreen] /\ \A s \in Screen : ~screen[s].open
    BY NoScreenTyped DEF Init, NoScreen
  <1>3. pending \in [Users -> Seq(SUBSET Mails)] /\ \A u \in Users : Writes(u) = {}
    BY DEF Init, Writes
  <1>4. 0 <= MaxMessages
    BY Constants
  <1>5. TypeOK
    BY <1>1, <1>2, <1>3, <1>4 DEF Init, TypeOK
  <1> QED BY <1>2, <1>5 DEF RowsInv

LEMMA NextKeepsRows ==
    ASSUME TypeOK, RowsInv, [Next]_vars
    PROVE  TypeOK' /\ RowsInv'
  <1>1. CASE UNCHANGED vars
    <2>1. Quiet
      BY <1>1 DEF vars, removed, shown, bounded, Quiet, LogGrows, TypeOK
    <2> QED BY <2>1, QuietKeepsRows
  <1>2. ASSUME NEW s \in Screen, ScreenStep(s)
        PROVE  TypeOK' /\ RowsInv'
    BY <1>2, ScreenSteps, ScreenKeepsRows
  <1>3. ASSUME NEW s \in Screen, NEW m \in Msg, Delete(s, m)
        PROVE  TypeOK' /\ RowsInv'
    BY <1>3, DeleteSteps, DeleteKeepsRows
  <1>4. ASSUME NEW u \in Users, SendStep(u)
        PROVE  TypeOK' /\ RowsInv'
    BY <1>4, SendSteps, SendKeepsRows
  <1>5. CASE Tick \/ \E u \in Users : QuietStep(u)
    BY <1>5, QuietSteps, QuietKeepsRows
  <1>6. ASSUME NEW u \in Users, NEW r \in receipts[u], Receipt(u, r[1], r[2])
        PROVE  TypeOK' /\ RowsInv'
    BY <1>6, ReceiptSteps, ReceiptKeepsRows
  <1>7. ASSUME NEW u \in Users, Kill(u)
        PROVE  TypeOK' /\ RowsInv'
    BY <1>7, KillSteps, KillKeepsRows
  <1>8. ASSUME NEW u \in Users, Serve(u) \/ TakeUnanswered(u)
        PROVE  TypeOK' /\ RowsInv'
    BY <1>8, ServeKeepsRows, TakeKeepsRows
  <1> QED BY <1>1, <1>2, <1>3, <1>4, <1>5, <1>6, <1>7, <1>8, StepKinds

\* No screen on its user's stack lists a message twice, but one he deleted from
\* another screen: insertInitialLoadMessages, the listener of listenForNewChats
\* and loadMoreMessages each insert what the others do not, in every order of
\* the answers.
THEOREM ListedOnce == Spec => []NoRowTwice
  <1>1. TypeOK /\ RowsInv /\ [Next]_vars => (TypeOK /\ RowsInv)'
    BY NextKeepsRows
  <1>2. RowsInv => NoRowTwice
    BY DEF RowsInv, RowsOK, NoRowTwice
  <1> QED BY <1>1, <1>2, InitRows, PTL DEF Spec

--------------------------------------------------------------------------------
(* Copies.                                                                     *)

LEMMA SetIs ==
    ASSUME NEW v, NEW m
    PROVE  /\ Set(v, m).op = "set" /\ Set(v, m).to = v /\ Set(v, m).msg = m
           /\ Remove(v, m).op = "delete" /\ Remove(v, m).to = v /\ Remove(v, m).msg = m
           /\ MarkRead(v, m).op = "read" /\ MarkRead(v, m).to = v /\ MarkRead(v, m).msg = m
           /\ \A w \in Mails : w.op = "set" /\ w.to = v /\ w.msg = m => w = Set(v, m)
           /\ \A w \in Mails : w.op = "delete" /\ w.to = v /\ w.msg = m => w = Remove(v, m)
  BY DEF Set, Remove, MarkRead, Mails

LEMMA WritesTyped ==
    ASSUME TypeOK, NEW u \in Users
    PROVE  /\ Writes(u) \subseteq Mails
           /\ \A j \in DOMAIN pending[u] : pending[u][j] \subseteq Writes(u)
           /\ \A w \in Writes(u) : w.msg \in Composed
  BY DEF TypeOK, Writes

LEMMA SenderStays ==
    ASSUME TypeOK, LogGrows, NEW m \in Composed
    PROVE  Sender(m)' = Sender(m) /\ m \in Composed'
  BY LogStays DEF Sender

LEMMA CopiesStay ==
    ASSUME TypeOK, CopiesInv, LogGrows, UNCHANGED <<box, pending, deleted, repeated>>
    PROVE  CopiesInv'
  <1>1. \A u \in Users : Writes(u)' = Writes(u)
    BY DEF Writes
  <1>2. Composed \subseteq Composed'
    BY LogStays
  <1>3. \A u \in Users : \A w \in Writes(u) : Sender(w.msg)' = Sender(w.msg)
    <2>1. ASSUME NEW u \in Users, NEW w \in Writes(u), NEW m, m = w.msg
          PROVE  Sender(m)' = Sender(m)
      BY <2>1, SenderStays, WritesTyped
    <2> QED BY <2>1 DEF Sender
  <1>4. \A u \in Users : \A w \in Writes(u)' : w.op = "set" => (Sender(w.msg) = u)'
    BY <1>1, <1>3 DEF CopiesInv
  <1> QED BY <1>1, <1>2, <1>4 DEF CopiesInv

\* A batch is queued; its sets are of the message just composed.
LEMMA CopiesQueue ==
    ASSUME TypeOK, CopiesInv, LogGrows, NEW u \in Users, NEW batch \in SUBSET Mails, Queue(u, batch),
           \A w \in batch : w.op = "delete" => w.to = u,
           \A w \in batch : w.op = "set" =>
              w.msg \in Composed' \ Composed /\ log'[w.msg].sender = u,
           \A v \in Users : deleted'[v] \subseteq Composed,
           UNCHANGED <<box, repeated>>
    PROVE  CopiesInv'
  <1>1. \A v \in Users : Writes(v)' \subseteq Writes(v) \cup (IF v = u THEN batch ELSE {})
    BY QueueAdds
  <1>2. Composed \subseteq Composed'
    BY LogStays
  <1>3. ASSUME NEW v \in Users, NEW w \in Writes(v)'
        PROVE  /\ w.op = "set" => log'[w.msg].sender = v
               /\ w.op = "delete" => w.to = v
    <2>1. CASE w \in Writes(v)
      <3>1. w.msg \in Composed
        BY <2>1, WritesTyped
      <3>2. log'[w.msg] = log[w.msg]
        BY <3>1, LogStays
      <3> QED BY <2>1, <3>2 DEF CopiesInv, Sender
    <2>2. CASE v = u /\ w \in batch
      BY <2>2
    <2> QED BY <1>1, <1>3, <2>1, <2>2
  <1>4. ASSUME NEW v \in Users, NEW i \in DOMAIN pending'[v], NEW j \in DOMAIN pending'[v],
               NEW w \in pending'[v][i] \cap pending'[v][j], w.op = "set"
        PROVE  i = j
    <2>1. \A k \in DOMAIN pending'[v] :
             \/ k \in DOMAIN pending[v] /\ pending'[v][k] = pending[v][k]
             \/ v = u /\ pending'[v][k] = batch /\ k = Len(pending[v]) + 1
      BY Appended
    <2>2. \A k \in DOMAIN pending[v] : \A x \in pending[v][k] : x.msg \in Composed
      BY WritesTyped
    <2>3. \A x \in batch : x.op = "set" => x.msg \notin Composed
      OBVIOUS
    <2>4. CASE w.msg \in Composed
      <3>1. i \in DOMAIN pending[v] /\ w \in pending[v][i] /\ j \in DOMAIN pending[v] /\ w \in pending[v][j]
        BY <1>4, <2>1, <2>3, <2>4
      <3> QED BY <1>4, <3>1 DEF CopiesInv
    <2>5. CASE w.msg \notin Composed
      BY <1>4, <2>1, <2>2, <2>5
    <2> QED BY <2>4, <2>5
  <1>5. ASSUME NEW x \in Users, NEW v \in Users, NEW m \in DOMAIN box[v] \ repeated
        PROVE  Set(v, m) \notin Writes(x)'
    <2>1. Set(v, m) \notin Writes(x) /\ m \in Composed
      BY DEF CopiesInv, TypeOK
    <2>2. Set(v, m) \notin batch
      BY <2>1, SetIs
    <2> QED BY <1>1, <2>1, <2>2
  <1>6. \A v \in Users : deleted'[v] \subseteq Composed'
    BY <1>2
  <1>7. repeated' \subseteq Composed'
    BY <1>2 DEF CopiesInv
  <1>8. \A v \in Users : \A m \in DOMAIN box'[v] \ repeated' : \A x \in Users : Set(v, m) \notin Writes(x)'
    BY <1>5
  <1> QED BY <1>3, <1>4, <1>6, <1>7, <1>8 DEF CopiesInv, Sender, Set

\* What the server takes: it is then in the mailbox, and nowhere else.
LEMMA CopiesServe ==
    ASSUME TypeOK, CopiesInv, NEW u \in Users, NEW w \in Mails, NEW s \in {0, 1},
           ServesWrite(u, w), Shifted(pending[u], pending'[u], w, s),
           UNCHANGED <<log, deleted, repeated>>
    PROVE  CopiesInv'
  <1>1. \A v \in Users : Writes(v)' \subseteq Writes(v)
    BY DEF ServesWrite
  <1>2. ASSUME NEW v \in Users, NEW i \in DOMAIN pending'[v], NEW j \in DOMAIN pending'[v],
               NEW x \in pending'[v][i] \cap pending'[v][j], x.op = "set"
        PROVE  i = j
    <2>1. CASE v # u
      BY <1>2, <2>1 DEF ServesWrite, CopiesInv
    <2>2. CASE v = u
      <3>1. /\ i + s \in DOMAIN pending[u] /\ x \in pending[u][i + s]
            /\ j + s \in DOMAIN pending[u] /\ x \in pending[u][j + s]
            /\ i \in Nat /\ j \in Nat
        BY <1>2, <2>2 DEF Shifted
      <3>2. i + s = j + s
        BY <1>2, <3>1 DEF CopiesInv
      <3> QED BY <3>1, <3>2
    <2> QED BY <2>1, <2>2
  <1>3. ASSUME NEW v \in Users, NEW m \in DOMAIN box'[v] \ repeated, NEW x \in Users,
               Set(v, m) \in Writes(x)'
        PROVE  FALSE
    <2>1. Set(v, m) \in Writes(x)
      BY <1>1, <1>3
    <2>2. m \notin DOMAIN box[v]
      BY <2>1 DEF CopiesInv
    <2>3. v = w.to /\ w.op = "set" /\ w.msg = m
      <3>1. v = w.to /\ m \in DOMAIN Applied(box[v], w)
        BY <1>3, <2>2 DEF ServesWrite
      <3>2. w.op \in {"set", "read", "delete"}
        BY DEF Mails
      <3> DEFINE a == Applied(box[v], w)
      <3>3. /\ w.op = "set" => DOMAIN a = DOMAIN box[v] \cup {w.msg}
            /\ w.op = "read" => DOMAIN a = DOMAIN box[v]
            /\ w.op = "delete" => DOMAIN a = DOMAIN box[v] \ {w.msg}
        BY AppliedMail
      <3>4. m \in DOMAIN a
        BY <3>1
      <3> HIDE DEF a
      <3> QED BY <2>2, <3>1, <3>2, <3>3, <3>4
    <2>4. w = Set(v, m)
      BY <2>3, SetIs
    <2>5. w \in Writes(u) /\ Sender(w.msg) = u
      BY <2>3 DEF ServesWrite, CopiesInv
    <2>6. x = u
      <3>1. Sender(Set(v, m).msg) = x
        BY <2>1, SetIs DEF CopiesInv
      <3> QED BY <2>4, <2>5, <3>1
    <2>7. PICK j \in DOMAIN pending'[u] : w \in pending'[u][j]
      BY <1>3, <2>4, <2>6 DEF Writes
    <2>8. j + s \in DOMAIN pending[u] /\ w \in pending[u][j + s] /\ 1 \in DOMAIN pending[u] /\ w \in pending[u][1]
      BY <2>7 DEF Shifted
    <2>9. j + s = 1
      BY <2>3, <2>8 DEF CopiesInv
    <2> QED BY <2>7, <2>9 DEF Shifted
  <1>4. ASSUME NEW v \in Users, NEW x \in Writes(v)'
        PROVE  /\ x.op = "set" => log'[x.msg].sender = v
               /\ x.op = "delete" => x.to = v
    BY <1>1 DEF CopiesInv, Sender
  <1>5. /\ \A v \in Users : deleted'[v] \subseteq Composed'
        /\ repeated' \subseteq Composed'
    BY DEF Composed, CopiesInv
  <1>6. \A x, v \in Users : \A m \in DOMAIN box'[v] \ repeated' : Set(v, m) \notin Writes(x)'
    BY <1>3
  <1>7. \A v \in Users : \A i, j \in DOMAIN pending'[v] :
           \A x \in pending'[v][i] \cap pending'[v][j] : x.op = "set" => i = j
    BY <1>2
  <1> QED BY <1>4, <1>5, <1>6, <1>7 DEF CopiesInv, Sender, Set

LEMMA CopiesTake ==
    ASSUME TypeOK, CopiesInv, NEW u \in Users, TakeUnanswered(u)
    PROVE  CopiesInv'
  <1>1. UNCHANGED <<log, pending, deleted>>
    BY DEF TakeUnanswered, removed, shown
  <1>2. \A v \in Users : Writes(v)' = Writes(v)
    BY <1>1 DEF Writes
  <1>3. /\ repeated \subseteq repeated' /\ repeated' \subseteq Composed
        /\ \A v \in Users : \A m : m \notin repeated' => (m \in DOMAIN box'[v] <=> m \in DOMAIN box[v])
    BY TakenUnanswered DEF CopiesInv
  <1>4. \A x, v \in Users : \A m \in DOMAIN box'[v] \ repeated' : Set(v, m) \notin Writes(x)'
    BY <1>2, <1>3 DEF CopiesInv
  <1>5. Composed' = Composed
    BY <1>1 DEF Composed
  <1> QED BY <1>1, <1>2, <1>3, <1>4, <1>5 DEF CopiesInv, Sender, Set

--------------------------------------------------------------------------------
(* Deleted messages.                                                           *)

\* What a user sees has not been deleted by him, and nobody else will write it.
LEMMA VisibleIsKept ==
    ASSUME TypeOK, CopiesInv, DeletedInv, NEW v \in Users, NEW m \in Visible(v, v) \ repeated
    PROVE  /\ m \notin deleted[v]
           /\ \A u \in Users \ {v} : Set(v, m) \notin Writes(u)
  <1>1. m \in DOMAIN box[v] \/ Set(v, m) \in Writes(v)
    BY DEF Visible
  <1>2. Remove(v, m) \notin Writes(v)
    BY DEF Visible
  <1>3. ASSUME m \in deleted[v]
        PROVE  FALSE
    <2>1. CASE m \in DOMAIN box[v]
      BY <1>2, <1>3, <2>1 DEF DeletedInv
    <2>2. CASE Set(v, m) \in Writes(v)
      <3>1. PICK i \in DOMAIN pending[v] : Set(v, m) \in pending[v][i]
        BY <2>2 DEF Writes
      <3>2. \E j \in DOMAIN pending[v] : Remove(v, m) \in pending[v][j]
        BY <1>3, <3>1 DEF DeletedInv
      <3> QED BY <1>2, <3>2 DEF Writes
    <2> QED BY <1>1, <2>1, <2>2
  <1>4. ASSUME NEW u \in Users \ {v}, Set(v, m) \in Writes(u)
        PROVE  FALSE
    <2>1. m \notin DOMAIN box[v]
      BY <1>4 DEF CopiesInv
    <2>2. Set(v, m).op = "set" /\ Set(v, m).msg = m
      BY SetIs
    <2>3. Sender(m) = u /\ Sender(m) = v
      BY <1>1, <1>4, <2>1, <2>2 DEF CopiesInv
    <2> QED BY <2>3
  <1> QED BY <1>3, <1>4

LEMMA DeletedStay ==
    ASSUME DeletedInv, UNCHANGED <<box, pending, deleted, repeated>>
    PROVE  DeletedInv'
  <1>1. \A u \in Users : Writes(u)' = Writes(u)
    BY DEF Writes
  <1>2. \A v \in Users : \A m \in deleted'[v] \ repeated' :
              /\ \A x \in Users \ {v} : Set(v, m) \notin Writes(x)'
              /\ \A i \in DOMAIN pending'[v] : Set(v, m) \in pending'[v][i] =>
                    \E j \in DOMAIN pending'[v] : i < j /\ Remove(v, m) \in pending'[v][j]
              /\ m \in DOMAIN box'[v] => Remove(v, m) \in Writes(v)'
    BY <1>1 DEF DeletedInv
  <1> QED BY <1>2 DEF DeletedInv, Set, Remove

\* A batch is queued that sets nothing that was deleted.
LEMMA DeletedQueue ==
    ASSUME TypeOK, CopiesInv, DeletedInv, NEW u \in Users, NEW batch \in SUBSET Mails, Queue(u, batch),
           \A w \in batch : w.op = "set" => w.msg \notin Composed,
           UNCHANGED <<box, repeated>>
    PROVE  \A v \in Users : \A m \in deleted[v] \ repeated :
              /\ \A x \in Users \ {v} : Set(v, m) \notin Writes(x)'
              /\ \A i \in DOMAIN pending'[v] : Set(v, m) \in pending'[v][i] =>
                    \E j \in DOMAIN pending'[v] : i < j /\ Remove(v, m) \in pending'[v][j]
              /\ m \in DOMAIN box'[v] => Remove(v, m) \in Writes(v)'
  <1> SUFFICES ASSUME NEW v \in Users, NEW m \in deleted[v] \ repeated
               PROVE  /\ \A x \in Users \ {v} : Set(v, m) \notin Writes(x)'
                      /\ \A i \in DOMAIN pending'[v] : Set(v, m) \in pending'[v][i] =>
                            \E j \in DOMAIN pending'[v] : i < j /\ Remove(v, m) \in pending'[v][j]
                      /\ m \in DOMAIN box'[v] => Remove(v, m) \in Writes(v)'
    OBVIOUS
  <1>1. m \in Composed /\ Set(v, m) \notin batch
    BY SetIs DEF CopiesInv
  <1>2. \A x \in Users : Writes(x) \subseteq Writes(x)' /\ Writes(x)' \subseteq Writes(x) \cup batch
    <2>1. ASSUME NEW x \in Users
          PROVE  Writes(x) \subseteq Writes(x)' /\ Writes(x)' \subseteq Writes(x) \cup (IF x = u THEN batch ELSE {})
      BY QueueAdds
    <2> QED BY <2>1
  <1>3. \A x \in Users \ {v} : Set(v, m) \notin Writes(x)'
    BY <1>1, <1>2 DEF DeletedInv
  <1>4. ASSUME NEW i \in DOMAIN pending'[v], Set(v, m) \in pending'[v][i]
        PROVE  \E j \in DOMAIN pending'[v] : i < j /\ Remove(v, m) \in pending'[v][j]
    <2>1. i \in DOMAIN pending[v] /\ Set(v, m) \in pending[v][i]
      BY <1>1, <1>4, Appended
    <2>2. PICK j \in DOMAIN pending[v] : i < j /\ Remove(v, m) \in pending[v][j]
      BY <2>1 DEF DeletedInv
    <2>3. j \in DOMAIN pending'[v] /\ pending'[v][j] = pending[v][j]
      BY <2>2, Appended
    <2> QED BY <2>2, <2>3
  <1>5. m \in DOMAIN box'[v] => Remove(v, m) \in Writes(v)'
    BY <1>2 DEF DeletedInv
  <1> QED BY <1>3, <1>4, <1>5

LEMMA DeletedDelete ==
    ASSUME TypeOK, CopiesInv, DeletedInv, HeldInv, NEW s \in Screen, NEW m \in Msg, Deletes(s, m)
    PROVE  DeletedInv'
  <1> DEFINE u == UserOf(s)
             batch == {Remove(u, m)}
  <1>1. u \in Users /\ Queue(u, batch) /\ UNCHANGED <<box, repeated>>
    BY ScreenOfUser DEF Deletes
  <1>2. batch \in SUBSET Mails /\ \A w \in batch : w.op # "set"
    BY <1>1, OneWrite, SetIs
  <1>3. deleted' = [deleted EXCEPT ![u] = @ \cup {m}]
    BY DEF Deletes
  <1>4. m \in Held(screen[s]) /\ screen[s].open
    BY DEF Deletes, Held
  <1>5. \A x \in Users : Writes(x)' \subseteq Writes(x) \cup batch
    <2>1. ASSUME NEW x \in Users
          PROVE  Writes(x)' \subseteq Writes(x) \cup (IF x = u THEN batch ELSE {})
      BY <1>1, <1>2, QueueAdds
    <2> QED BY <2>1
  <1> HIDE DEF u, batch
  <1>6. ASSUME NEW v \in Users, NEW n \in deleted[v] \ repeated
        PROVE  /\ \A x \in Users \ {v} : Set(v, n) \notin Writes(x)'
               /\ \A i \in DOMAIN pending'[v] : Set(v, n) \in pending'[v][i] =>
                     \E j \in DOMAIN pending'[v] : i < j /\ Remove(v, n) \in pending'[v][j]
               /\ n \in DOMAIN box'[v] => Remove(v, n) \in Writes(v)'
    BY <1>1, <1>2, DeletedQueue
  <1>7. ASSUME m \notin repeated
        PROVE  /\ \A x \in Users \ {u} : Set(u, m) \notin Writes(x)'
               /\ \A i \in DOMAIN pending'[u] : Set(u, m) \in pending'[u][i] =>
                     \E j \in DOMAIN pending'[u] : i < j /\ Remove(u, m) \in pending'[u][j]
               /\ m \in DOMAIN box'[u] => Remove(u, m) \in Writes(u)'
    <2>1. Set(u, m) \notin batch /\ Remove(u, m) \in batch
      BY <1>2, SetIs DEF batch
    <2>2. \A x \in Users \ {u} : Set(u, m) \notin Writes(x)
      BY <1>4, <1>7 DEF HeldInv, u
    <2>3. PICK j \in DOMAIN pending'[u] : pending'[u][j] = batch /\ \A i \in DOMAIN pending[u] : i < j
      BY <1>1, <1>2, <2>1, Appended
    <2>4. \A i \in DOMAIN pending'[u] : Set(u, m) \in pending'[u][i] => i < j
      BY <1>1, <1>2, <2>1, <2>3, Appended
    <2>5. Remove(u, m) \in Writes(u)'
      BY <2>1, <2>3 DEF Writes
    <2> QED BY <1>5, <2>1, <2>2, <2>3, <2>4, <2>5
  <1>8. \A v \in Users : \A n \in deleted'[v] \ repeated' :
           n \in deleted[v] \ repeated \/ (v = u /\ n = m /\ m \notin repeated)
    BY <1>1, <1>3 DEF TypeOK
  <1>9. \A v \in Users : \A n \in deleted'[v] \ repeated' :
              /\ \A x \in Users \ {v} : Set(v, n) \notin Writes(x)'
              /\ \A i \in DOMAIN pending'[v] : Set(v, n) \in pending'[v][i] =>
                    \E j \in DOMAIN pending'[v] : i < j /\ Remove(v, n) \in pending'[v][j]
              /\ n \in DOMAIN box'[v] => Remove(v, n) \in Writes(v)'
    BY <1>6, <1>7, <1>8
  <1> QED BY <1>9 DEF DeletedInv, Set, Remove

LEMMA DeletedServe ==
    ASSUME TypeOK, CopiesInv, DeletedInv, NEW u \in Users, NEW w \in Mails, NEW s \in {0, 1},
           ServesWrite(u, w), Shifted(pending[u], pending'[u], w, s),
           UNCHANGED <<log, deleted, repeated>>
    PROVE  DeletedInv'
  <1>1. \A x \in Users : Writes(x)' \subseteq Writes(x)
    BY DEF ServesWrite
  <1>2. ASSUME NEW v \in Users, NEW m \in deleted[v] \ repeated,
               NEW i \in DOMAIN pending'[v], Set(v, m) \in pending'[v][i]
        PROVE  \E j \in DOMAIN pending'[v] : i < j /\ Remove(v, m) \in pending'[v][j]
    <2>1. CASE v # u
      BY <1>2, <2>1 DEF ServesWrite, DeletedInv
    <2>2. CASE v = u
      <3>1. i + s \in DOMAIN pending[u] /\ Set(u, m) \in pending[u][i + s] /\ i \in Nat \ {0}
        BY <1>2, <2>2 DEF Shifted
      <3>2. PICK j \in DOMAIN pending[u] : i + s < j /\ Remove(u, m) \in pending[u][j]
        BY <2>2, <3>1 DEF DeletedInv
      <3>3. j \in Nat \ {0} /\ j # 1
        BY <3>1, <3>2 DEF Shifted
      <3>4. j - s \in DOMAIN pending'[u] /\ Remove(u, m) \in pending'[u][j - s]
        BY <3>2, <3>3 DEF Shifted
      <3>5. i < j - s
        BY <3>1, <3>2, <3>3
      <3> QED BY <2>2, <3>4, <3>5
    <2> QED BY <2>1, <2>2
  <1>3. ASSUME NEW v \in Users, NEW m \in deleted[v] \ repeated, m \in DOMAIN box'[v]
        PROVE  Remove(v, m) \in Writes(v)'
    <2> DEFINE a == Applied(box[v], w)
    <2>1. /\ w.op = "set" => DOMAIN a = DOMAIN box[v] \cup {w.msg}
          /\ w.op = "read" => DOMAIN a = DOMAIN box[v]
          /\ w.op = "delete" => DOMAIN a = DOMAIN box[v] \ {w.msg}
      BY AppliedMail
    <2>2. box'[v] = IF v = w.to THEN a ELSE box[v]
      BY DEF ServesWrite
    <2>3. w.op \in {"set", "read", "delete"}
      BY DEF Mails
    <2> HIDE DEF a
    <2>4. w \in Writes(u) /\ 1 \in DOMAIN pending[u] /\ w \in pending[u][1]
      BY DEF ServesWrite, Shifted
    <2>5. CASE m \in DOMAIN box[v]
      <3>1. Remove(v, m) \in Writes(v)
        BY <2>5 DEF DeletedInv
      <3>2. CASE v # u
        BY <3>1, <3>2 DEF ServesWrite, Writes
      <3>3. CASE v = u
        <4>1. w # Remove(v, m)
          BY <1>3, <2>1, <2>2, SetIs
        <4>2. PICK j \in DOMAIN pending[u] : Remove(v, m) \in pending[u][j]
          BY <3>1, <3>3 DEF Writes
        <4>3. j - s \in DOMAIN pending'[u] /\ Remove(v, m) \in pending'[u][j - s]
          BY <4>1, <4>2 DEF Shifted
        <4> QED BY <3>3, <4>3 DEF Writes
      <3> QED BY <3>2, <3>3
    <2>6. CASE m \notin DOMAIN box[v]
      <3>1. v = w.to /\ w.op = "set" /\ w.msg = m
        BY <1>3, <2>1, <2>2, <2>3, <2>6
      <3>2. w = Set(v, m)
        BY <3>1, SetIs
      <3>3. v = u
        BY <2>4, <3>2 DEF DeletedInv
      <3>4. PICK j \in DOMAIN pending[u] : 1 < j /\ Remove(v, m) \in pending[u][j]
        BY <2>4, <3>2, <3>3 DEF DeletedInv
      <3>5. j - s \in DOMAIN pending'[u] /\ Remove(v, m) \in pending'[u][j - s]
        BY <3>4 DEF Shifted
      <3> QED BY <3>3, <3>5 DEF Writes
    <2> QED BY <2>5, <2>6
  <1>4. \A v \in Users : \A m \in deleted'[v] \ repeated' :
              /\ \A x \in Users \ {v} : Set(v, m) \notin Writes(x)'
              /\ \A i \in DOMAIN pending'[v] : Set(v, m) \in pending'[v][i] =>
                    \E j \in DOMAIN pending'[v] : i < j /\ Remove(v, m) \in pending'[v][j]
              /\ m \in DOMAIN box'[v] => Remove(v, m) \in Writes(v)'
    BY <1>1, <1>2, <1>3 DEF DeletedInv
  <1> QED BY <1>4 DEF DeletedInv, Set, Remove

LEMMA DeletedTake ==
    ASSUME TypeOK, CopiesInv, DeletedInv, NEW u \in Users, TakeUnanswered(u)
    PROVE  DeletedInv'
  <1>1. UNCHANGED <<log, pending, deleted>> /\ \A v \in Users : Writes(v)' = Writes(v)
    BY DEF TakeUnanswered, Writes, removed, shown
  <1>2. /\ repeated \subseteq repeated'
        /\ \A v \in Users : \A m : m \notin repeated' => (m \in DOMAIN box'[v] <=> m \in DOMAIN box[v])
    BY TakenUnanswered
  <1>3. \A v \in Users : \A m \in deleted'[v] \ repeated' :
              /\ \A x \in Users \ {v} : Set(v, m) \notin Writes(x)'
              /\ \A i \in DOMAIN pending'[v] : Set(v, m) \in pending'[v][i] =>
                    \E j \in DOMAIN pending'[v] : i < j /\ Remove(v, m) \in pending'[v][j]
              /\ m \in DOMAIN box'[v] => Remove(v, m) \in Writes(v)'
    BY <1>1, <1>2 DEF DeletedInv
  <1> QED BY <1>3 DEF DeletedInv, Set, Remove

--------------------------------------------------------------------------------
(* Messages on a screen.                                                       *)

LEMMA HeldScreen ==
    ASSUME TypeOK, CopiesInv, DeletedInv, HeldInv, NEW s \in Screen, NEW r, Goes(s, r)
    PROVE  HeldInv'
  <1>1. /\ UNCHANGED <<pending, deleted, outlived, repeated>>
        /\ screen'[s] = r /\ \A t \in Screen \ {s} : screen'[t] = screen[t]
    BY OneScreen DEF Goes
  <1>2. \A u \in Users : Writes(u)' = Writes(u)
    BY <1>1 DEF Writes
  <1> SUFFICES ASSUME NEW t \in Screen, screen'[t].open, NEW m \in Held(screen'[t]) \ repeated
               PROVE  /\ m \notin deleted[UserOf(t)] \ outlived[UserOf(t)]
                      /\ \A u \in Users \ {UserOf(t)} : Set(UserOf(t), m) \notin Writes(u)
    BY <1>1, <1>2 DEF HeldInv, Held, UserOf, Set
  <1>3. CASE t # s \/ (screen[s].open /\ m \in Held(screen[s]))
    BY <1>1, <1>3 DEF HeldInv
  <1>4. CASE t = s /\ ~(screen[s].open /\ m \in Held(screen[s]))
    <2>1. m \in Visible(UserOf(s), UserOf(s)) /\ UserOf(s) \in Users
      BY <1>1, <1>4, ScreenOfUser DEF Goes
    <2> QED BY <1>4, <2>1, VisibleIsKept
  <1> QED BY <1>3, <1>4

\* A step that queues only what is new, and brings nothing onto a screen.
LEMMA HeldStay ==
    ASSUME TypeOK, HeldInv, RowsInv, repeated \subseteq repeated',
           \A u \in Users : outlived[u] \subseteq outlived'[u],
           \A s \in Screen : screen'[s].open =>
              /\ screen[s].open /\ Held(screen'[s]) \subseteq Held(screen[s])
              /\ \A m \in deleted'[UserOf(s)] :
                    \/ m \in deleted[UserOf(s)]
                    \/ m \notin Held(screen'[s]) \/ m \in outlived'[UserOf(s)],
           \A u \in Users : \A w \in Writes(u)' :
              w \in Writes(u) \/ w.op # "set" \/ w.msg \notin Composed
    PROVE  HeldInv'
  <1> SUFFICES ASSUME NEW s \in Screen, screen'[s].open, NEW m \in Held(screen'[s]) \ repeated'
               PROVE  /\ m \notin deleted'[UserOf(s)] \ outlived'[UserOf(s)]
                      /\ \A u \in Users \ {UserOf(s)} : Set(UserOf(s), m) \notin Writes(u)'
    BY DEF HeldInv, Held, UserOf, Set
  <1>1. screen[s].open /\ m \in Held(screen[s]) \ repeated /\ m \in Composed
    BY DEF RowsInv, RowsOK
  <1>2. m \notin deleted'[UserOf(s)] \ outlived'[UserOf(s)]
    BY <1>1, ScreenOfUser DEF HeldInv
  <1>3. ASSUME NEW u \in Users \ {UserOf(s)}, Set(UserOf(s), m) \in Writes(u)'
        PROVE  FALSE
    <2>1. Set(UserOf(s), m) \in Writes(u)
      BY <1>1, <1>3, SetIs
    <2> QED BY <1>1, <2>1 DEF HeldInv
  <1> QED BY <1>2, <1>3

\* All invariants, step by step.
MailInv == TypeOK /\ RowsInv /\ CopiesInv /\ DeletedInv /\ HeldInv

LEMMA QuietKeepsMail ==
    ASSUME MailInv, Quiet
    PROVE  CopiesInv' /\ DeletedInv' /\ HeldInv'
  <1>1. \A u \in Users : Writes(u)' = Writes(u)
    BY DEF Quiet, Writes
  <1> QED BY <1>1, CopiesStay, DeletedStay, HeldStay DEF MailInv, Quiet

LEMMA SendKeepsMail ==
    ASSUME MailInv, NEW u \in Users, Sends(u)
    PROVE  CopiesInv' /\ DeletedInv' /\ HeldInv'
  <1>1. /\ TypeOK /\ RowsInv /\ CopiesInv /\ DeletedInv /\ HeldInv
        /\ UNCHANGED <<box, screen, deleted, outlived, repeated>>
    BY DEF MailInv, Sends
  <1>2. PICK kind \in AllKinds : \E date \in Nat : Compose(u, kind, date)
    BY DEF Sends
  <1>3. PICK date \in Nat : Compose(u, kind, date)
    BY <1>2
  <1>4. LogGrows /\ Composed' = Composed \cup {NewId} /\ NewId \notin Composed
    BY <1>1, <1>3, ComposeGrows, LogStays
  <1>5. log'[NewId].sender = u
    <2>1. log \in Seq(Message) /\ [sender |-> u, kind |-> kind, date |-> date] \in Message
      BY <1>1 DEF TypeOK, Message
    <2>2. log'[Len(log) + 1] = [sender |-> u, kind |-> kind, date |-> date]
      BY <1>3, <2>1 DEF Compose
    <2> QED BY <2>2 DEF NewId
  <1> DEFINE batch == {Set(v, NewId) : v \in Users}
  <1>6. batch \in SUBSET Mails /\ Queue(u, batch)
    BY <1>1, SentWrites DEF Sends, SendToAll, Members
  <1>7. \A w \in batch : w.op = "set" /\ w.msg = NewId
    BY SetIs
  <1> HIDE DEF batch
  <1>8. \A v \in Users : deleted'[v] \subseteq Composed
    BY <1>1 DEF CopiesInv
  <1>9. CopiesInv'
    BY <1>1, <1>4, <1>5, <1>6, <1>7, <1>8, CopiesQueue
  <1>10. \A v \in Users : \A m \in deleted'[v] \ repeated' :
              /\ \A x \in Users \ {v} : Set(v, m) \notin Writes(x)'
              /\ \A i \in DOMAIN pending'[v] : Set(v, m) \in pending'[v][i] =>
                    \E j \in DOMAIN pending'[v] : i < j /\ Remove(v, m) \in pending'[v][j]
              /\ m \in DOMAIN box'[v] => Remove(v, m) \in Writes(v)'
    BY <1>1, <1>4, <1>6, <1>7, DeletedQueue
  <1>11. DeletedInv'
    BY <1>10 DEF DeletedInv, Set, Remove
  <1>12. \A x \in Users : \A w \in Writes(x)' : w \in Writes(x) \/ w.msg \notin Composed
    <2>1. ASSUME NEW x \in Users
          PROVE  Writes(x)' \subseteq Writes(x) \cup (IF x = u THEN batch ELSE {})
      BY <1>1, <1>6, QueueAdds
    <2> QED BY <1>4, <1>7, <2>1
  <1>13. HeldInv'
    BY <1>1, <1>12, HeldStay
  <1> QED BY <1>9, <1>11, <1>13

LEMMA ReceiptKeepsMail ==
    ASSUME MailInv, NEW u \in Users, NEW r, Receipts(u, r)
    PROVE  CopiesInv' /\ DeletedInv' /\ HeldInv'
  <1>1. /\ TypeOK /\ RowsInv /\ CopiesInv /\ DeletedInv /\ HeldInv
        /\ UNCHANGED <<log, box, screen, deleted, outlived, repeated>>
    BY DEF MailInv, Receipts
  <1>2. PICK batch \in SUBSET {MarkRead(r[1], r[2])} : Queue(u, batch)
    BY DEF Receipts
  <1>3. batch \in SUBSET Mails /\ \A w \in batch : w.op = "read"
    BY <1>2, OneWrite, SetIs DEF Receipts
  <1>4. LogGrows /\ \A v \in Users : deleted'[v] \subseteq Composed
    BY <1>1 DEF CopiesInv, LogGrows
  <1>5. CopiesInv'
    BY <1>1, <1>2, <1>3, <1>4, CopiesQueue
  <1>6. \A v \in Users : \A m \in deleted'[v] \ repeated' :
              /\ \A x \in Users \ {v} : Set(v, m) \notin Writes(x)'
              /\ \A i \in DOMAIN pending'[v] : Set(v, m) \in pending'[v][i] =>
                    \E j \in DOMAIN pending'[v] : i < j /\ Remove(v, m) \in pending'[v][j]
              /\ m \in DOMAIN box'[v] => Remove(v, m) \in Writes(v)'
    BY <1>1, <1>2, <1>3, DeletedQueue
  <1>7. DeletedInv'
    BY <1>6 DEF DeletedInv, Set, Remove
  <1>8. \A x \in Users : \A w \in Writes(x)' : w \in Writes(x) \/ w.op # "set"
    <2>1. ASSUME NEW x \in Users
          PROVE  Writes(x)' \subseteq Writes(x) \cup (IF x = u THEN batch ELSE {})
      BY <1>1, <1>2, <1>3, QueueAdds
    <2> QED BY <1>3, <2>1
  <1>9. HeldInv'
    BY <1>1, <1>8, HeldStay
  <1> QED BY <1>5, <1>7, <1>9

LEMMA DeleteKeepsMail ==
    ASSUME MailInv, NEW s \in Screen, NEW m \in Msg, Deletes(s, m)
    PROVE  CopiesInv' /\ DeletedInv' /\ HeldInv'
  <1> DEFINE u == UserOf(s)
             batch == {Remove(u, m)}
  <1>1. /\ TypeOK /\ RowsInv /\ CopiesInv /\ DeletedInv /\ HeldInv
        /\ UNCHANGED <<log, box, repeated>> /\ m \in Composed
    BY DEF MailInv, Deletes
  <1>2. u \in Users /\ Queue(u, batch) /\ batch \in SUBSET Mails
    BY ScreenOfUser, OneWrite DEF Deletes
  <1>3. \A w \in batch : w.op = "delete" /\ w.to = u
    BY SetIs
  <1>4. deleted' = [deleted EXCEPT ![u] = @ \cup {m}]
    BY DEF Deletes
  <1> HIDE DEF u, batch
  <1>5. \A v \in Users : deleted'[v] \subseteq deleted[v] \cup (IF v = u THEN {m} ELSE {})
    BY <1>1, <1>4 DEF TypeOK
  <1>6. LogGrows /\ \A v \in Users : deleted'[v] \subseteq Composed
    BY <1>1, <1>5 DEF CopiesInv, LogGrows
  <1>7. CopiesInv'
    BY <1>1, <1>2, <1>3, <1>6, CopiesQueue
  <1>8. DeletedInv'
    BY <1>1, DeletedDelete
  <1>9. \A x \in Users : \A w \in Writes(x)' : w \in Writes(x) \/ w.op # "set"
    <2>1. ASSUME NEW x \in Users
          PROVE  Writes(x)' \subseteq Writes(x) \cup (IF x = u THEN batch ELSE {})
      BY <1>1, <1>2, QueueAdds
    <2> QED BY <1>3, <2>1
  <1>10. ASSUME NEW t \in Screen, screen'[t].open
         PROVE  /\ screen[t].open /\ Held(screen'[t]) \subseteq Held(screen[t])
                /\ \A n \in deleted'[UserOf(t)] :
                      \/ n \in deleted[UserOf(t)]
                      \/ n \notin Held(screen'[t]) \/ n \in outlived'[UserOf(t)]
    <2>1. UserOf(t) \in Users
      BY ScreenOfUser
    <2> QED BY <1>5, <1>10, <2>1 DEF Deletes, u
  <1>11. HeldInv'
    BY <1>1, <1>9, <1>10, HeldStay DEF Deletes
  <1> QED BY <1>7, <1>8, <1>11

LEMMA KillKeepsMail ==
    ASSUME MailInv, NEW u \in Users, Kills(u)
    PROVE  CopiesInv' /\ DeletedInv' /\ HeldInv'
  <1>1. /\ TypeOK /\ RowsInv /\ CopiesInv /\ DeletedInv /\ HeldInv
        /\ UNCHANGED <<log, box, pending, deleted, outlived, repeated>> /\ LogGrows
    BY DEF MailInv, Kills, LogGrows
  <1>2. \A x \in Users : Writes(x)' = Writes(x)
    BY <1>1 DEF Writes
  <1>3. \A s \in Screen : screen'[s].open => screen'[s] = screen[s]
    BY DEF Kills
  <1>4. HeldInv'
    BY <1>1, <1>2, <1>3, HeldStay
  <1> QED BY <1>1, <1>4, CopiesStay, DeletedStay

LEMMA ServeKeepsMail ==
    ASSUME MailInv, NEW u \in Users, Serve(u)
    PROVE  CopiesInv' /\ DeletedInv' /\ HeldInv'
  <1>1. /\ TypeOK /\ RowsInv /\ CopiesInv /\ DeletedInv /\ HeldInv
        /\ UNCHANGED <<log, screen, deleted, outlived, repeated>>
    BY DEF MailInv, Serve, removed, shown, bounded
  <1>2. PICK w \in Mails : \E s \in {0, 1} :
           ServesWrite(u, w) /\ Shifted(pending[u], pending'[u], w, s)
    BY <1>1, Serving
  <1>3. PICK s \in {0, 1} : ServesWrite(u, w) /\ Shifted(pending[u], pending'[u], w, s)
    BY <1>2
  <1>4. \A x \in Users : Writes(x)' \subseteq Writes(x)
    BY <1>3 DEF ServesWrite
  <1>5. HeldInv'
    BY <1>1, <1>4, HeldStay
  <1> QED BY <1>1, <1>2, <1>3, <1>5, CopiesServe, DeletedServe

LEMMA TakeKeepsMail ==
    ASSUME MailInv, NEW u \in Users, TakeUnanswered(u)
    PROVE  CopiesInv' /\ DeletedInv' /\ HeldInv'
  <1>1. /\ TypeOK /\ RowsInv /\ CopiesInv /\ DeletedInv /\ HeldInv
        /\ UNCHANGED <<pending, screen, deleted, outlived>>
    BY DEF MailInv, TakeUnanswered, removed, shown
  <1>2. \A x \in Users : Writes(x)' = Writes(x)
    BY <1>1 DEF Writes
  <1>3. repeated \subseteq repeated'
    BY <1>1, TakenUnanswered
  <1>4. HeldInv'
    BY <1>1, <1>2, <1>3, HeldStay
  <1> QED BY <1>1, <1>4, CopiesTake, DeletedTake

LEMMA NextKeepsMail ==
    ASSUME MailInv, [Next]_vars
    PROVE  MailInv'
  <1>1. TypeOK /\ RowsInv /\ CopiesInv /\ DeletedInv /\ HeldInv
    BY DEF MailInv
  <1>2. TypeOK' /\ RowsInv'
    BY <1>1, NextKeepsRows
  <1>3. CASE UNCHANGED vars
    <2>1. Quiet
      BY <1>1, <1>3 DEF vars, removed, shown, bounded, Quiet, LogGrows, TypeOK
    <2> QED BY <1>2, <2>1, QuietKeepsMail DEF MailInv
  <1>4. ASSUME NEW s \in Screen, ScreenStep(s)
        PROVE  MailInv'
    <2>1. PICK r : Goes(s, r)
      BY <1>1, <1>4, ScreenSteps
    <2>2. HeldInv'
      BY <1>1, <2>1, HeldScreen
    <2>3. UNCHANGED <<log, box, pending, deleted, repeated>> /\ LogGrows
      BY <2>1 DEF Goes, LogGrows
    <2>4. CopiesInv' /\ DeletedInv'
      BY <1>1, <2>3, CopiesStay, DeletedStay
    <2> QED BY <1>2, <2>2, <2>4 DEF MailInv
  <1>5. ASSUME NEW s \in Screen, NEW m \in Msg, Delete(s, m)
        PROVE  MailInv'
    BY <1>1, <1>2, <1>5, DeleteSteps, DeleteKeepsMail DEF MailInv
  <1>6. ASSUME NEW u \in Users, SendStep(u)
        PROVE  MailInv'
    BY <1>1, <1>2, <1>6, SendSteps, SendKeepsMail DEF MailInv
  <1>7. CASE Tick \/ \E u \in Users : QuietStep(u)
    BY <1>1, <1>2, <1>7, QuietSteps, QuietKeepsMail DEF MailInv
  <1>8. ASSUME NEW u \in Users, NEW r \in receipts[u], Receipt(u, r[1], r[2])
        PROVE  MailInv'
    BY <1>1, <1>2, <1>8, ReceiptSteps, ReceiptKeepsMail DEF MailInv
  <1>9. ASSUME NEW u \in Users, Kill(u)
        PROVE  MailInv'
    BY <1>1, <1>2, <1>9, KillSteps, KillKeepsMail DEF MailInv
  <1>10. ASSUME NEW u \in Users, Serve(u) \/ TakeUnanswered(u)
         PROVE  MailInv'
    BY <1>2, <1>10, ServeKeepsMail, TakeKeepsMail DEF MailInv
  <1> QED BY <1>3, <1>4, <1>5, <1>6, <1>7, <1>8, <1>9, <1>10, StepKinds

LEMMA InitMail == Init => MailInv
  <1> SUFFICES ASSUME Init PROVE MailInv
    OBVIOUS
  <1>1. TypeOK /\ RowsInv
    BY InitRows
  <1>2. /\ \A u \in Users : pending[u] = <<>> /\ deleted[u] = {} /\ DOMAIN box[u] = {}
        /\ repeated = {} /\ \A s \in Screen : ~screen[s].open
    BY DEF Init, NoScreen
  <1>3. \A u \in Users : Writes(u) = {}
    BY <1>2 DEF Writes
  <1> QED BY <1>1, <1>2, <1>3 DEF MailInv, CopiesInv, DeletedInv, HeldInv

LEMMA MailAlways == Spec => []MailInv
  <1>1. MailInv /\ [Next]_vars => MailInv'
    BY NextKeepsMail
  <1> QED BY <1>1, InitMail, PTL DEF Spec

\* A message a user deleted is not in his view and not on his screens, but those
\* that lay under the one he deleted it from:
\* the sender writes his copy once, a receipt never writes it, and the removal
\* is behind both in the queue.
THEOREM DeletedStays == Spec => []DeletedStaysDeleted
  <1>1. ASSUME MailInv
        PROVE  DeletedStaysDeleted
    <2>1. TypeOK /\ CopiesInv /\ DeletedInv /\ HeldInv
      BY <1>1 DEF MailInv
    <2> SUFFICES ASSUME NEW u \in Users, NEW m \in deleted[u] \ repeated
                 PROVE  /\ m \notin Visible(u, u)
                        /\ \A k \in 1..MaxScreens :
                              screen[<<u, k>>].open =>
                                 screen[<<u, k>>].rows[m] = 0 \/ m \in outlived[u]
      BY DEF DeletedStaysDeleted
    <2>2. m \notin Visible(u, u)
      BY <2>1, VisibleIsKept
    <2>3. ASSUME NEW k \in 1..MaxScreens, NEW s, s = <<u, k>>, screen[s].open
          PROVE  screen[s].rows[m] = 0 \/ m \in outlived[u]
      <3>1. s \in Screen /\ UserOf(s) = u
        BY <2>3 DEF Screen, UserOf
      <3>2. m \in Msg /\ screen[s].rows[m] \in Nat
        BY <2>1, <3>1 DEF TypeOK, ChatScreen
      <3>3. m \notin Held(screen[s]) \/ m \in outlived[u]
        BY <2>1, <2>3, <3>1 DEF HeldInv
      <3> QED BY <3>2, <3>3 DEF Held
    <2> QED BY <2>2, <2>3
  <1> QED BY <1>1, MailAlways, PTL

\* A copy once read stays read unless its write was repeated: in the queue of
\* its sender there is no other write that would set it back.
LEMMA ReadKept ==
    ASSUME MailInv, [Next]_vars, NEW u \in Users, NEW m \in DOMAIN box[u] \cap DOMAIN box'[u],
           box[u][m] = "read"
    PROVE  box'[u][m] = "read" \/ m \in repeated'
  <1>1. TypeOK /\ RowsInv /\ CopiesInv
    BY DEF MailInv
  <1>2. CASE UNCHANGED vars
    BY <1>2 DEF vars
  <1>3. ASSUME NEW s \in Screen, ScreenStep(s)
        PROVE  UNCHANGED box
    <2>1. PICK r : Goes(s, r)
      BY <1>1, <1>3, ScreenSteps
    <2> QED BY <2>1 DEF Goes
  <1>4. ASSUME NEW s \in Screen, NEW n \in Msg, Delete(s, n)
        PROVE  UNCHANGED box
    BY <1>4 DEF Delete
  <1>5. ASSUME NEW x \in Users, SendStep(x)
        PROVE  UNCHANGED box
    BY <1>1, <1>5, SendSteps DEF Sends
  <1>6. CASE Tick \/ \E x \in Users : QuietStep(x)
    BY <1>1, <1>6, QuietSteps DEF Quiet
  <1>7. ASSUME NEW x \in Users, NEW r \in receipts[x], Receipt(x, r[1], r[2])
        PROVE  UNCHANGED box
    BY <1>7 DEF Receipt
  <1>8. ASSUME NEW x \in Users, Kill(x)
        PROVE  UNCHANGED box
    BY <1>8 DEF Kill, server
  <1>9. ASSUME NEW x \in Users, Serve(x)
        PROVE  box'[u][m] = "read" \/ m \in repeated'
    <2>1. PICK w \in Mails : ServesWrite(x, w)
      BY <1>1, <1>9, Serving
    <2>2. w.op = "set" /\ w.to = u /\ w.msg = m => m \in repeated
      <3>1. SUFFICES ASSUME w.op = "set", w.to = u, w.msg = m, m \notin repeated
                     PROVE  FALSE
        OBVIOUS
      <3>2. w = Set(u, m)
        BY <3>1, SetIs
      <3>3. Set(u, m) \notin Writes(x)
        BY <1>1, <3>1 DEF CopiesInv
      <3> QED BY <2>1, <3>2, <3>3 DEF ServesWrite
    <2>3. UNCHANGED repeated
      BY <1>9 DEF Serve, removed, shown, bounded
    <2> DEFINE a == Applied(box[u], w)
    <2>4. /\ \A n : n # w.msg => /\ n \in DOMAIN a <=> n \in DOMAIN box[u]
                                 /\ n \in DOMAIN box[u] => a[n] = box[u][n]
          /\ \A n \in DOMAIN a :
                n \in DOMAIN box[u] /\ box[u][n] = "read" /\ w.op # "set" => a[n] = "read"
      BY AppliedMail
    <2>5. box'[u] = IF u = w.to THEN a ELSE box[u]
      BY <2>1 DEF ServesWrite
    <2> HIDE DEF a
    <2> QED BY <2>2, <2>3, <2>4, <2>5
  <1>10. ASSUME NEW x \in Users, TakeUnanswered(x)
         PROVE  box'[u][m] = "read" \/ m \in repeated'
    BY <1>1, <1>10, TakenUnanswered
  <1> QED BY <1>2, <1>3, <1>4, <1>5, <1>6, <1>7, <1>8, <1>9, <1>10, StepKinds

\* A copy is never set back from read to delivered.
THEOREM ReadStays == Spec => ReadStaysRead
  <1>1. ASSUME MailInv, [Next]_vars
        PROVE  [\A u \in Users : \A m \in DOMAIN box[u] \cap DOMAIN box'[u] :
                   box[u][m] = "read" => box'[u][m] = "read" \/ m \in repeated']_<<box, repeated>>
    BY <1>1, ReadKept
  <1> QED BY <1>1, MailAlways, PTL DEF Spec, ReadStaysRead

--------------------------------------------------------------------------------
(* Read receipts.                                                              *)

\* What is taken in stays so.
LEMMA TakenInStays ==
    ASSUME TypeOK, LogGrows,
           \A u \in Users : seen[u] \subseteq seen'[u] /\ unseen[u] \subseteq unseen'[u],
           NEW m \in Composed, TakenIn(m)
    PROVE  TakenIn(m)'
  <1>1. Sender(m)' = Sender(m)
    BY SenderStays
  <1> QED BY <1>1 DEF TakenIn

\* It is enough to look at what a step adds.
LEMMA SeenKept ==
    ASSUME TypeOK, SeenInv, LogGrows, \A u \in Users : seen[u] \subseteq seen'[u] /\ unseen[u] \subseteq unseen'[u],
           \A u \in Users : \A m \in DOMAIN box'[u] : box'[u][m] = "read" =>
              \/ m \in DOMAIN box[u] /\ box[u][m] = "read"
              \/ \E x \in Users : \E w \in Writes(x) : w.op = "read" /\ w.msg = m,
           \A u \in Users : \A w \in Writes(u)' : w.op = "read" =>
              \/ w \in Writes(u)
              \/ \E r \in receipts[u] : r[2] = w.msg,
           \A u \in Users : \A r \in receipts'[u] :
              r \in receipts[u] \/ (r[2] \in Composed /\ TakenIn(r[2])')
    PROVE  SeenInv'
  <1>1. \A m \in Composed : TakenIn(m) => m \in Composed' /\ TakenIn(m)'
    BY TakenInStays, SenderStays
  <1>2. /\ \A u \in Users : DOMAIN box[u] \subseteq Composed
        /\ \A u \in Users : \A w \in Writes(u) : w.msg \in Composed
    BY DEF TypeOK
  <1>3. ASSUME NEW u \in Users, NEW m \in DOMAIN box'[u], box'[u][m] = "read"
        PROVE  TakenIn(m)'
    <2>1. m \in Composed /\ TakenIn(m)
      BY <1>2, <1>3 DEF SeenInv
    <2> QED BY <1>1, <2>1
  <1>4. ASSUME NEW u \in Users, NEW w \in Writes(u)', w.op = "read", NEW m, m = w.msg
        PROVE  TakenIn(m)'
    <2>1. m \in Composed /\ TakenIn(m)
      BY <1>2, <1>4 DEF SeenInv
    <2> QED BY <1>1, <2>1
  <1>5. ASSUME NEW u \in Users, NEW r \in receipts'[u], NEW m, m = r[2]
        PROVE  m \in Composed' /\ TakenIn(m)'
    <2>1. CASE r \in receipts[u]
      <3>1. m \in Composed /\ TakenIn(m)
        BY <1>5, <2>1 DEF SeenInv
      <3> QED BY <1>1, <3>1
    <2>2. CASE r[2] \in Composed /\ TakenIn(r[2])'
      BY <1>5, <2>2, LogStays DEF TakenIn, Sender
    <2> QED BY <2>1, <2>2
  <1>6. \A u \in Users : \A w \in Writes(u)' : w.op = "read" => TakenIn(w.msg)'
    BY <1>4 DEF TakenIn, Sender
  <1>7. \A u \in Users : \A r \in receipts'[u] : r[2] \in Composed' /\ TakenIn(r[2])'
    BY <1>5 DEF TakenIn, Sender
  <1> QED BY <1>3, <1>6, <1>7 DEF SeenInv, TakenIn, Sender

LEMMA NextKeepsSeen ==
    ASSUME TypeOK, RowsInv, SeenInv, [Next]_vars
    PROVE  SeenInv'
  <1>2. ASSUME NEW s \in Screen, ScreenStep(s)
        PROVE  SeenInv'
    <2>1. PICK r : Goes(s, r) /\ Shows
      BY <1>2, ScreenSteps
    <2>2. /\ UNCHANGED <<log, box, pending>> /\ LogGrows
      BY <2>1 DEF Goes, LogGrows
    <2>4. \A u \in Users : Writes(u)' = Writes(u)
      BY <2>2 DEF Writes
    <2>5. ASSUME NEW u \in Users, NEW x \in receipts'[u]
          PROVE  x \in receipts[u] \/ (x[2] \in Composed /\ TakenIn(x[2])')
      <3>1. SUFFICES ASSUME x \notin receipts[u]
                     PROVE  x[2] \in Composed /\ TakenIn(x[2])'
        OBVIOUS
      <3>2. x[2] \in Composed /\ u # Sender(x[2]) /\ x[2] \in seen'[u] \cup unseen'[u]
        BY <2>1, <2>5, <3>1 DEF Shows
      <3> QED BY <2>2, <3>2 DEF TakenIn, Sender
    <2>6. \A u \in Users : seen[u] \subseteq seen'[u] /\ unseen[u] \subseteq unseen'[u]
      BY <2>1 DEF Shows
    <2> QED BY <2>2, <2>4, <2>5, <2>6, SeenKept
  <1>3. ASSUME NEW s \in Screen, NEW m \in Msg, Delete(s, m)
        PROVE  SeenInv'
    <2>1. Deletes(s, m)
      BY <1>3, DeleteSteps
    <2> DEFINE u == UserOf(s)
               batch == {Remove(u, m)}
    <2>3. u \in Users /\ Queue(u, batch) /\ batch \in SUBSET Mails /\ \A w \in batch : w.op # "read"
      BY <2>1, ScreenOfUser, OneWrite, SetIs DEF Deletes
    <2> HIDE DEF u, batch
    <2>4. \A x \in Users : \A w \in Writes(x)' : w.op = "read" => w \in Writes(x)
      <3>1. ASSUME NEW x \in Users
            PROVE  Writes(x)' \subseteq Writes(x) \cup (IF x = u THEN batch ELSE {})
        BY <2>3, QueueAdds
      <3> QED BY <2>3, <3>1
    <2> QED BY <2>1, <2>4, SeenKept DEF Deletes, LogGrows
  <1>4. ASSUME NEW u \in Users, SendStep(u)
        PROVE  SeenInv'
    <2>1. Sends(u) /\ LogGrows
      BY <1>4, SendSteps, ComposeGrows DEF Sends
    <2> DEFINE batch == {Set(v, NewId) : v \in Users}
    <2>3. Queue(u, batch) /\ batch \in SUBSET Mails /\ \A w \in batch : w.op # "read"
      BY <2>1, SentWrites, SetIs DEF Sends, SendToAll, Members
    <2> HIDE DEF batch
    <2>4. \A x \in Users : \A w \in Writes(x)' : w.op = "read" => w \in Writes(x)
      <3>1. ASSUME NEW x \in Users
            PROVE  Writes(x)' \subseteq Writes(x) \cup (IF x = u THEN batch ELSE {})
        BY <2>3, QueueAdds
      <3> QED BY <2>3, <3>1
    <2> QED BY <2>1, <2>4, SeenKept DEF Sends
  <1>5. ASSUME Quiet
        PROVE  SeenInv'
    <2>2. \A x \in Users : Writes(x)' = Writes(x)
      BY <1>5 DEF Quiet, Writes
    <2> QED BY <1>5, <2>2, SeenKept DEF Quiet
  <1>6. CASE Tick \/ \E u \in Users : QuietStep(u)
    BY <1>5, <1>6, QuietSteps
  <1>7. CASE UNCHANGED vars
    BY <1>5, <1>7 DEF vars, removed, shown, bounded, Quiet, LogGrows, TypeOK
  <1>8. ASSUME NEW u \in Users, NEW r \in receipts[u], Receipt(u, r[1], r[2])
        PROVE  SeenInv'
    <2>1. Receipts(u, r)
      BY <1>8, ReceiptSteps
    <2>3. PICK batch \in SUBSET {MarkRead(r[1], r[2])} : Queue(u, batch)
      BY <2>1 DEF Receipts
    <2>4. batch \in SUBSET Mails /\ \A w \in batch : w.msg = r[2]
      BY <2>1, <2>3, OneWrite, SetIs DEF Receipts
    <2>5. \A x \in Users : \A w \in Writes(x)' : w \in Writes(x) \/ (x = u /\ w.msg = r[2])
      <3>1. ASSUME NEW x \in Users
            PROVE  Writes(x)' \subseteq Writes(x) \cup (IF x = u THEN batch ELSE {})
        BY <2>3, <2>4, QueueAdds
      <3> QED BY <2>4, <3>1
    <2>6. \A x \in Users : \A w \in Writes(x)' : w.op = "read" =>
             w \in Writes(x) \/ \E y \in receipts[x] : y[2] = w.msg
      BY <1>8, <2>5
    <2> QED BY <2>1, <2>6, SeenKept DEF Receipts, LogGrows
  <1>9. ASSUME NEW u \in Users, Kill(u)
        PROVE  SeenInv'
    <2>1. Kills(u) /\ LogGrows
      BY <1>9, KillSteps DEF Kills, LogGrows
    <2>2. \A x \in Users : Writes(x)' = Writes(x)
      BY <2>1 DEF Kills, Writes
    <2> QED BY <2>1, <2>2, SeenKept DEF Kills
  <1>10. ASSUME NEW u \in Users, Serve(u)
         PROVE  SeenInv'
    <2>1. PICK w \in Mails : ServesWrite(u, w)
      BY <1>10, Serving
    <2>2. UNCHANGED <<log, receipts, screen, seen, unseen, lost>> /\ LogGrows
      BY <1>10 DEF Serve, removed, shown, bounded, LogGrows
    <2>4. ASSUME NEW v \in Users, NEW m \in DOMAIN box'[v], box'[v][m] = "read"
          PROVE  \/ m \in DOMAIN box[v] /\ box[v][m] = "read"
                 \/ \E x \in Users : \E y \in Writes(x) : y.op = "read" /\ y.msg = m
      <3> DEFINE a == Applied(box[v], w)
      <3>1. \A n \in DOMAIN a : a[n] = "read" =>
               (n \in DOMAIN box[v] /\ box[v][n] = "read") \/ (w.op = "read" /\ w.msg = n)
        BY AppliedMail
      <3>2. box'[v] = IF v = w.to THEN a ELSE box[v]
        BY <2>1 DEF ServesWrite
      <3>3. w \in Writes(u)
        BY <2>1 DEF ServesWrite
      <3> HIDE DEF a
      <3> QED BY <2>4, <3>1, <3>2, <3>3
    <2>5. \A x \in Users : Writes(x)' \subseteq Writes(x)
      BY <2>1 DEF ServesWrite
    <2> QED BY <2>2, <2>4, <2>5, SeenKept
  <1>11. ASSUME NEW u \in Users, TakeUnanswered(u)
         PROVE  SeenInv'
    <2>1. UNCHANGED <<log, pending, receipts, screen, seen, unseen>> /\ LogGrows
      BY <1>11 DEF TakeUnanswered, LogGrows, removed, shown
    <2>4. \A x \in Users : Writes(x)' = Writes(x)
      BY <2>1 DEF Writes
    <2>5. \A v \in Users : \A m \in DOMAIN box'[v] : box'[v][m] = "read" =>
             \/ m \in DOMAIN box[v] /\ box[v][m] = "read"
             \/ \E x \in Users : \E w \in Writes(x) : w.op = "read" /\ w.msg = m
      BY <1>11, TakenUnanswered
    <2> QED BY <2>1, <2>4, <2>5, SeenKept
  <1> QED BY <1>2, <1>3, <1>4, <1>6, <1>7, <1>8, <1>9, <1>10, <1>11, StepKinds

\* Whatever order receipts, deletions and the sender's own writes arrive in, a
\* copy is marked read only after a chat screen of another user than the sender
\* took the message in, be it on display, covered, or left while loading.
THEOREM ReadWasTakenIn == Spec => []ReadMeansTakenIn
  <1>1. Init => TypeOK /\ RowsInv /\ SeenInv
    <2>1. Init => \A u \in Users : Writes(u) = {} /\ receipts[u] = {} /\ DOMAIN box[u] = {}
      BY DEF Init, Writes
    <2> QED BY <2>1, InitRows DEF SeenInv
  <1>2. TypeOK /\ RowsInv /\ SeenInv /\ [Next]_vars => (TypeOK /\ RowsInv /\ SeenInv)'
    BY NextKeepsRows, NextKeepsSeen
  <1>3. SeenInv => ReadMeansTakenIn
    BY DEF SeenInv, ReadMeansTakenIn
  <1> QED BY <1>1, <1>2, <1>3, PTL DEF Spec
=============================================================================
