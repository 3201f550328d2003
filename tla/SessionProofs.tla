----------------------------- MODULE SessionProofs -----------------------------
(* Theorems about Session, for any number of accounts on the device, of other  *)
(* users, of inputs and of failures: whose record is taken for the current     *)
(* user's, when it is the server's, and what blocking changes there.           *)
EXTENDS Session, NaturalsInduction, WellFoundedInduction, FiniteSetTheorems, TLAPS

--------------------------------------------------------------------------------
(* Types.                                                                      *)

Thens == {"nothing", "save", "block", "finish", "finished", "unblock"}

UpdateWrites == [field : Fields, copy : Records, then : Thens,
                 about : People \cup {Nil}, live : BOOLEAN]

WritesOf(a) == UpdateWrites \cup {Silent("all", NewUser(a)), Silent("none", Nil)}

Completions == [write : UpdateWrites, failed : BOOLEAN]

(* An account that is being created has no login yet, and never had one.       *)
Calls ==
  /\ creating \in [Accounts -> {"no", "asked", "cancelled"}]
  /\ \A a \in Accounts : creating[a] # "no" => a \notin logins \cup closed

Types ==
  /\ auth \in Accounts \cup {Nil} /\ current \in Records \cup {Nil}
  /\ playerId \in {Nil, "player"} /\ oneSignal \in OneSignal
  /\ logins \subseteq Accounts /\ closed \subseteq Accounts
  /\ users \in [Accounts -> Records \cup {Nil}]
  /\ DOMAIN writes = Accounts /\ \A a \in Accounts : writes[a] \in Seq(WritesOf(a))
  /\ answers \in Seq(Completions)
  /\ fetches \in [Accounts -> Nat]
  /\ leaving \in Accounts \cup {Nil}
  /\ Calls

--------------------------------------------------------------------------------
(* The invariant.                                                              *)

(* The first write of an account is that of its whole document, when it is     *)
(* registered, and an update is behind it; no account has two.                 *)
AllFirst(a) ==
  \A i \in 1..Len(writes[a]) : writes[a][i].field = "all" =>
    i = 1 /\ Len(writes[a]) > 1 /\ IsUpdate(writes[a][2]) /\ users[a] = Nil

(* The documents that a can have: the date of an update is never sent.         *)
DocsOf(a) == {r \in Records : r.id = a /\ r.updatedAt = "registered"} \cup {Nil}

Known ==
  /\ auth \in logins \cup {Nil} /\ leaving \in logins \cup {Nil}
  /\ \A a \in Accounts \ (logins \cup closed) : users[a] = Nil /\ writes[a] = <<>>
  /\ \A a \in Accounts : AllFirst(a) /\ users[a] \in DocsOf(a)

(* As long as nothing strays, an account's queue has copies of its own record. *)
CopiesOwn(a) == \A i \in Updates(a) : writes[a][i].copy.id = a

(* Behind the deletion of the document nothing is sent: the local record is    *)
(* gone, and reading the document, behind that same queue, does not bring it   *)
(* back.                                                                       *)
NoneOnly(a) ==
  (\E i \in 1..Len(writes[a]) : writes[a][i].field = "none") =>
    /\ \A i \in 1..Len(writes[a]) : writes[a][i].field = "none"
    /\ auth = a => current = Nil /\ answers = <<>>

Unstrayed ==
  /\ ~Stray
  /\ current = Nil \/ (auth # Nil /\ current.id = auth)
  /\ leaving # Nil /\ auth = leaving => current = Nil
  /\ \A a \in Accounts : CopiesOwn(a) /\ NoneOnly(a)

(* w changes one field of rec, but for the date that is not sent, and a block  *)
(* what its button was pressed for.                                            *)
MadeFrom(w, rec) ==
  /\ IsUpdate(w) /\ AsSent(w.copy) = [rec EXCEPT ![w.field] = w.copy[w.field]]
  /\ w.field = "blockedUsers" => w.copy.blockedUsers = Toggled(rec.blockedUsers, w.about)

(* What an update finds at the server: the document, or the new one before it. *)
Base(a) ==
  IF writes[a] # <<>> /\ writes[a][1].field = "all" THEN NewUser(a) ELSE users[a]

(* As long as nothing overtakes anything, the one update under way was made of *)
(* what is at the server, and so is the local record until it is answered.     *)
Mirrors(a) ==
  /\ fetches[a] > 0 => current = Nil
  /\ current # Nil /\ (\A i \in 1..Len(answers) : answers[i].failed) => Base(a) \in {AsSent(current), Nil}
  /\ \A i \in 1..Len(answers) : ~answers[i].failed => users[a] = AsSent(answers[i].write.copy)
  /\ Base(a) # Nil => \A i \in Updates(a) : MadeFrom(writes[a][i], Base(a))

Inv ==
  /\ Types /\ Known
  /\ ~stray => Unstrayed
  /\ ~overtaken => ~Crowded
  /\ ~overtaken /\ ~stray => \A a \in Accounts : auth = a => Mirrors(a)

--------------------------------------------------------------------------------
(* Records and queues.                                                         *)

LEMMA NilIsNoRecord == Nil \notin Accounts /\ Nil \notin Records
  BY AccountAssumption

LEMMA SeqIs ==
  ASSUME NEW S
  PROVE  /\ \A s \in Seq(S) : /\ Len(s) \in Nat /\ DOMAIN s = 1..Len(s)
                             /\ \A i \in 1..Len(s) : s[i] \in S
         /\ \A n \in Nat : \A f : f \in [1..n -> S] => f \in Seq(S) /\ Len(f) = n
  OBVIOUS

LEMMA NewUserIs ==
  ASSUME NEW a \in Accounts
  PROVE  NewUser(a) \in Records /\ NewUser(a).id = a /\ NewUser(a) # Nil
  <1>1. NewUser(a) \in Records /\ NewUser(a).id = a
    BY DEF Records, NewUser
  <1> QED BY <1>1, NilIsNoRecord

LEMMA AsSentIs ==
  ASSUME NEW rec \in Records
  PROVE  /\ AsSent(rec) \in Records /\ AsSent(rec).id = rec.id
         /\ AsSent(rec).updatedAt = "registered"
         /\ AsSent(rec).blockedUsers = rec.blockedUsers
         /\ rec.updatedAt = "registered" => AsSent(rec) = rec
  BY DEF Records, AsSent

(* What a write is. *)
LEMMA WriteIs ==
  ASSUME NEW a \in Accounts, NEW w \in WritesOf(a)
  PROVE  /\ IsUpdate(w) => w \in UpdateWrites /\ w.copy \in Records /\ w.field \in Fields
         /\ ~IsUpdate(w) => w.field \in {"all", "none"} /\ ~w.live
         /\ w.field = "all" => w.copy = NewUser(a)
         /\ w.field = "none" => w.copy = Nil
         /\ w \in UpdateWrites => IsUpdate(w)
  BY DEF WritesOf, UpdateWrites, Silent, IsUpdate, Fields

SameWrite(v, w) == v.field = w.field /\ v.copy = w.copy /\ v.about = w.about

(* r has the writes of q, and n more. *)
Grown(q, r, n) ==
  Len(r) = Len(q) + n /\ \A i \in 1..Len(q) : SameWrite(r[i], q[i])

(* r is what sending an update of rec makes of q, or what sending none does.   *)
Sends(q, r, rec) ==
  \/ Grown(q, r, 0)
  \/ /\ rec \in Records /\ Grown(q, r, 1)
     /\ IsUpdate(r[Len(r)]) /\ r[Len(r)].copy.id = rec.id
     /\ ~overtaken' => MadeFrom(r[Len(r)], AsSent(rec))

(* rec with another value in one field. *)
Changed(rec, field, value, about) ==
  /\ field \in Fields /\ [rec EXCEPT ![field] = value] \in Records
  /\ about \in People \cup {Nil}
  /\ field = "blockedUsers" /\ ~overtaken' => value = Toggled(rec.blockedUsers, about)

IsCopy(c, rec, field, value) == c = [rec EXCEPT ![field] = value, !.updatedAt = "later"]

(* The copy of an update, without its date, is the record without its date and *)
(* with the new value.                                                         *)
LEMMA CopyIs ==
  ASSUME NEW rec \in Records, NEW field, NEW value, NEW about,
         Changed(rec, field, value, about), NEW c, IsCopy(c, rec, field, value)
  PROVE  /\ c \in Records /\ c.id = rec.id /\ c[field] = value
         /\ AsSent(c) = [AsSent(rec) EXCEPT ![field] = value]
  <1>1. CASE field = "pushId"
    BY <1>1 DEF Records, AsSent, Changed, IsCopy
  <1>2. CASE field = "isOnline"
    BY <1>2 DEF Records, AsSent, Changed, IsCopy
  <1>3. CASE field = "profile"
    BY <1>3 DEF Records, AsSent, Changed, IsCopy
  <1>4. CASE field = "blockedUsers"
    BY <1>4 DEF Records, AsSent, Changed, IsCopy
  <1> QED BY <1>1, <1>2, <1>3, <1>4 DEF Changed, Fields

LEMMA UpdatedSends ==
  ASSUME NEW a \in Accounts, NEW q \in Seq(WritesOf(a)), NEW rec \in Records \cup {Nil},
         NEW field, NEW value, NEW then \in Thens, NEW about,
         rec # Nil => Changed(rec, field, value, about)
  PROVE  LET r == Updated(q, rec, field, value, then, about)
         IN  r \in Seq(WritesOf(a)) /\ Sends(q, r, rec)
  <1> DEFINE r == Updated(q, rec, field, value, then, about)
  <1>1. CASE rec = Nil
    <2>1. r = q
      BY <1>1 DEF Updated
    <2>2. Len(q) \in Nat
      OBVIOUS
    <2>3. Grown(q, q, 0)
      BY <2>2 DEF Grown, SameWrite
    <2> QED BY <2>1, <2>3 DEF Sends
  <1>2. CASE rec # Nil
    <2>1. rec \in Records /\ Changed(rec, field, value, about)
      BY <1>2
    <2>2. PICK c : c = [rec EXCEPT ![field] = value, !.updatedAt = "later"]
      OBVIOUS
    <2>3. /\ c \in Records /\ c.id = rec.id /\ c[field] = value
          /\ AsSent(c) = [AsSent(rec) EXCEPT ![field] = value]
      <3>1. IsCopy(c, rec, field, value)
        BY <2>2 DEF IsCopy
      <3> QED BY <2>1, <3>1, CopyIs
    <2>4. PICK w : w = [field |-> field, copy |-> c, then |-> then, about |-> about, live |-> TRUE]
      OBVIOUS
    <2>5. w \in UpdateWrites /\ w.field = field /\ w.copy = c /\ w.about = about
      BY <2>1, <2>3, <2>4 DEF UpdateWrites, Changed
    <2>6. IsUpdate(w) /\ w.copy.id = rec.id
      BY <2>1, <2>3, <2>5 DEF Changed, IsUpdate
    <2>7. ~overtaken' => MadeFrom(w, AsSent(rec))
      <3>1. AsSent(rec).blockedUsers = rec.blockedUsers
        BY <2>1, AsSentIs
      <3>2. AsSent(w.copy) = [AsSent(rec) EXCEPT ![w.field] = w.copy[w.field]]
        BY <2>3, <2>5
      <3>3. w.field = "blockedUsers" /\ ~overtaken' =>
              w.copy.blockedUsers = Toggled(AsSent(rec).blockedUsers, w.about)
        BY <2>1, <2>3, <2>5, <3>1 DEF Changed
      <3> QED BY <2>6, <3>2, <3>3 DEF MadeFrom
    <2>8. r = Append(q, w)
      BY <1>2, <2>2, <2>4 DEF Updated
    <2> HIDE DEF r
    <2>9. w \in WritesOf(a)
      BY <2>5 DEF WritesOf
    <2>10. /\ r \in Seq(WritesOf(a)) /\ Len(q) \in Nat /\ Len(r) = Len(q) + 1
           /\ r[Len(r)] = w /\ \A i \in 1..Len(q) : r[i] = q[i]
      BY <2>8, <2>9
    <2>11. Grown(q, r, 1)
      BY <2>10 DEF Grown, SameWrite
    <2> QED BY <2>1, <2>6, <2>7, <2>10, <2>11 DEF Sends, r
  <1> QED BY <1>1, <1>2

LEMMA UpdatedAppends ==
  ASSUME NEW a \in Accounts, NEW q \in Seq(WritesOf(a)), NEW rec \in Records,
         NEW field, NEW value, NEW then, NEW about,
         NEW r, r = Updated(q, rec, field, value, then, about)
  PROVE  Len(r) = Len(q) + 1
  <1>1. PICK w : Updated(q, rec, field, value, then, about) = Append(q, w)
    BY NilIsNoRecord DEF Updated
  <1>2. PICK S : S = WritesOf(a)
    OBVIOUS
  <1>3. q \in Seq(S)
    BY <1>2
  <1>4. Len(Append(q, w)) = Len(q) + 1
    BY <1>3
  <1> QED BY <1>1, <1>4

LEMMA PlayerIdIs ==
  ASSUME playerId \in {Nil, "player"}, oneSignal \in OneSignal
  PROVE  NewPlayerId \in {Nil, "player"}
  BY OneSignalAssumption DEF NewPlayerId

LEMMA PushIdSends ==
  ASSUME NEW a \in Accounts, NEW q \in Seq(WritesOf(a)), NEW rec \in Records \cup {Nil},
         playerId \in {Nil, "player"}, oneSignal \in OneSignal
  PROVE  PushIdSent(q, rec) \in Seq(WritesOf(a)) /\ Sends(q, PushIdSent(q, rec), rec)
  <1> DEFINE v == IF NewPlayerId = Nil THEN "" ELSE NewPlayerId
  <1>1. v \in {"", "player"}
    BY PlayerIdIs
  <1>2. PushIdSent(q, rec) = Updated(q, rec, "pushId", v, "nothing", Nil)
    BY DEF PushIdSent
  <1> HIDE DEF v
  <1>3. rec # Nil => Changed(rec, "pushId", v, Nil)
    BY <1>1 DEF Changed, Records, Fields
  <1>4. "nothing" \in Thens
    BY DEF Thens
  <1> QED BY <1>2, <1>3, <1>4, UpdatedSends

(* The queues after an update of the record rec to account a.                  *)
AllSend(queues, updated, a, rec) ==
  /\ DOMAIN updated = Accounts
  /\ \A b \in Accounts :
       /\ updated[b] \in Seq(WritesOf(b))
       /\ b # a => Grown(queues[b], updated[b], 0)
       /\ b = a => Sends(queues[b], updated[b], rec)

LEMMA GrownSame ==
  ASSUME NEW a, NEW q \in Seq(WritesOf(a)), NEW rec
  PROVE  Grown(q, q, 0) /\ Sends(q, q, rec)
  <1>1. Len(q) \in Nat
    OBVIOUS
  <1> QED BY <1>1 DEF Grown, SameWrite, Sends

LEMMA NoneSend ==
  ASSUME Types
  PROVE  AllSend(writes, writes, auth, current)
  BY GrownSame DEF Types, AllSend

LEMMA SignedInSends ==
  ASSUME NEW queues, DOMAIN queues = Accounts, \A b \in Accounts : queues[b] \in Seq(WritesOf(b)),
         NEW a, NEW rec, NEW r, a \in Accounts => r \in Seq(WritesOf(a)) /\ Sends(queues[a], r, rec)
  PROVE  AllSend(queues, [queues EXCEPT ![a] = r], a, rec)
  <1> DEFINE n == [queues EXCEPT ![a] = r]
  <1>1. DOMAIN n = Accounts /\ \A b \in Accounts : n[b] = IF b = a THEN r ELSE queues[b]
    OBVIOUS
  <1> HIDE DEF n
  <1>2. ASSUME NEW b \in Accounts
        PROVE  /\ n[b] \in Seq(WritesOf(b))
               /\ b # a => Grown(queues[b], n[b], 0)
               /\ b = a => Sends(queues[b], n[b], rec)
    <2>1. CASE b = a
      BY <2>1, <1>1
    <2>2. CASE b # a
      BY <2>2, <1>1, GrownSame
    <2> QED BY <2>1, <2>2
  <1> QED BY <1>1, <1>2 DEF AllSend, n

LEMMA UpdateSends ==
  ASSUME Types, NEW field, NEW value, NEW then \in Thens, NEW about,
         current # Nil => Changed(current, field, value, about)
  PROVE  AllSend(writes, [writes EXCEPT ![auth] =
                            Updated(@, current, field, value, then, about)], auth, current)
  <1>1. PICK r : r = Updated(writes[auth], current, field, value, then, about)
    OBVIOUS
  <1>2. auth \in Accounts => r \in Seq(WritesOf(auth)) /\ Sends(writes[auth], r, current)
    BY <1>1, UpdatedSends DEF Types
  <1>3. AllSend(writes, [writes EXCEPT ![auth] = r], auth, current)
    BY <1>2, SignedInSends DEF Types
  <1> QED BY <1>1, <1>3

(* What an action does that leaves the account, its record and the documents   *)
(* alone: of updates it sends at most one, of the local record; it may end the *)
(* process, or bring the answer to a creation.                                 *)
SameAnswers ==
  /\ Len(answers') = Len(answers)
  /\ \A i \in 1..Len(answers) : /\ answers'[i].write.copy = answers[i].write.copy
                                /\ answers'[i].failed = answers[i].failed

Quiet ==
  /\ auth' = auth /\ current' = current /\ users' = users
  /\ logins \subseteq logins' /\ logins' \subseteq Accounts /\ closed' = closed
  /\ leaving' \in {leaving, Nil} /\ Calls'
  /\ \E updated : AllSend(writes, updated, auth, current) /\ writes' = updated
  /\ \/ fetches' = fetches /\ SameAnswers
     \/ fetches' = [a \in Accounts |-> 0] /\ answers' = <<>> /\ listening'

LEMMA QuietTypes ==
  ASSUME Types, Quiet, playerId' \in {Nil, "player"}, oneSignal' = oneSignal,
         answers' \in Seq(Completions)
  PROVE  Types'
  <1>1. DOMAIN writes' = Accounts /\ \A a \in Accounts : writes'[a] \in Seq(WritesOf(a))
    BY DEF Quiet, AllSend
  <1>2. fetches' \in [Accounts -> Nat]
    BY DEF Quiet, Types
  <1> QED BY <1>1, <1>2 DEF Quiet, Types

LEMMA AnswersSame ==
  ASSUME Types, answers' = answers
  PROVE  SameAnswers /\ answers' \in Seq(Completions)
  BY DEF Types, SameAnswers

(* A queue each write of which is changed in what its completion does. *)
LEMMA Mapped ==
  ASSUME NEW a, NEW q \in Seq(WritesOf(a)), NEW r, DOMAIN r = DOMAIN q, r = [i \in DOMAIN q |-> r[i]],
         \A i \in DOMAIN q : r[i] \in WritesOf(a) /\ SameWrite(r[i], q[i])
  PROVE  r \in Seq(WritesOf(a)) /\ Grown(q, r, 0)
  <1>1. Len(q) \in Nat /\ DOMAIN q = 1..Len(q)
    OBVIOUS
  <1>2. r \in [1..Len(q) -> WritesOf(a)]
    BY <1>1
  <1>3. r \in Seq(WritesOf(a)) /\ Len(r) = Len(q)
    BY <1>1, <1>2
  <1> QED BY <1>1, <1>3 DEF Grown

LEMMA GrownSends ==
  ASSUME NEW q, NEW m, NEW r, NEW rec, Grown(q, m, 0), Sends(m, r, rec), Len(q) \in Nat
  PROVE  Sends(q, r, rec)
  <1>1. Len(m) = Len(q) /\ \A i \in 1..Len(q) : SameWrite(m[i], q[i])
    BY DEF Grown
  <1>2. ASSUME NEW n \in {0, 1}, Grown(m, r, n) PROVE Grown(q, r, n)
    BY <1>1, <1>2 DEF Grown, SameWrite
  <1> QED BY <1>2 DEF Sends

LEMMA AllMapped ==
  ASSUME NEW queues, \A b \in Accounts : Len(queues[b]) \in Nat,
         NEW mapped, NEW updated, NEW a, NEW rec, AllSend(mapped, updated, a, rec),
         \A b \in Accounts : Grown(queues[b], mapped[b], 0)
  PROVE  AllSend(queues, updated, a, rec)
  <1>1. ASSUME NEW b \in Accounts
        PROVE  /\ b # a => Grown(queues[b], updated[b], 0)
               /\ b = a => Sends(queues[b], updated[b], rec)
    <2>1. CASE b = a
      BY <2>1, GrownSends DEF AllSend
    <2>2. CASE b # a
      BY <2>2 DEF AllSend, Grown, SameWrite
    <2> QED BY <2>1, <2>2
  <1> QED BY <1>1 DEF AllSend

LEMMA OnlineSends ==
  ASSUME NEW queues, DOMAIN queues = Accounts,
         \A b \in Accounts : queues[b] \in Seq(WritesOf(b)),
         NEW a \in Accounts \cup {Nil}, NEW rec \in Records \cup {Nil}, NEW online \in BOOLEAN
  PROVE  AllSend(queues, OnlineSent(queues, a, rec, online), a, rec)
  <1>1. CASE a = Nil
    <2>1. OnlineSent(queues, a, rec, online) = queues
      BY <1>1 DEF OnlineSent
    <2> QED BY <2>1, GrownSame DEF AllSend
  <1>2. CASE a # Nil
    <2>1. rec # Nil => Changed(rec, "isOnline", online, Nil)
      BY DEF Changed, Records, Fields
    <2>2. PICK r : r = Updated(queues[a], rec, "isOnline", online, "nothing", Nil)
      OBVIOUS
    <2>3. "nothing" \in Thens
      BY DEF Thens
    <2>4. r \in Seq(WritesOf(a)) /\ Sends(queues[a], r, rec)
      BY <1>2, <2>1, <2>2, <2>3, UpdatedSends
    <2>5. OnlineSent(queues, a, rec, online) = [queues EXCEPT ![a] = r]
      BY <1>2, <2>2 DEF OnlineSent
    <2>6. AllSend(queues, [queues EXCEPT ![a] = r], a, rec)
      BY <2>4, SignedInSends
    <2> QED BY <2>5, <2>6
  <1> QED BY <1>1, <1>2

LEMMA Silenced ==
  ASSUME NEW a \in Accounts, NEW w \in WritesOf(a)
  PROVE  [w EXCEPT !.live = FALSE] \in WritesOf(a) /\ SameWrite([w EXCEPT !.live = FALSE], w)
  <1>1. CASE w \in UpdateWrites
    BY <1>1 DEF UpdateWrites, WritesOf, SameWrite
  <1>2. CASE w = Silent("all", NewUser(a)) \/ w = Silent("none", Nil)
    <2>1. [w EXCEPT !.live = FALSE] = w
      BY <1>2 DEF Silent
    <2> QED BY <2>1, <1>2 DEF SameWrite, Silent
  <1> QED BY <1>1, <1>2 DEF WritesOf

(* The process ends and is started anew, with the queues that were on disk. *)
OneMore(q, r) == Len(r) = Len(q) + 1

(* What a restart makes of account a, local record rec and these queues.       *)
Restarted(a, rec, queues) ==
  /\ auth' = a /\ current' = rec /\ users' = users /\ closed' = closed /\ leaving' = Nil
  /\ answers' = <<>> /\ fetches' = [b \in Accounts |-> 0] /\ listening'
  /\ logins \subseteq logins' /\ logins' \subseteq Accounts /\ a \in logins' \cup {Nil}
  /\ Types'
  /\ \E updated : AllSend(queues, updated, a, rec) /\ writes' = updated
  /\ a # Nil /\ rec # Nil => OneMore(queues[a], writes'[a])

LEMMA RestartIs ==
  ASSUME Types, NEW a, NEW rec \in Records \cup {Nil},
         NEW queues, DOMAIN queues = Accounts,
         \A b \in Accounts : queues[b] \in Seq(WritesOf(b)),
         RestartWith(a, rec, queues)
  PROVE  Restarted(a, rec, queues)
  <1> DEFINE m == [b \in Accounts |->
                     [i \in DOMAIN queues[b] |-> [queues[b][i] EXCEPT !.live = FALSE]]]
  <1>1. /\ writes' = OnlineSent(m, a, rec, TRUE)
        /\ answers' = <<>> /\ fetches' = [b \in Accounts |-> 0]
        /\ leaving' = Nil /\ listening' = TRUE
        /\ auth' = a /\ current' = rec /\ playerId' = playerId /\ oneSignal' = oneSignal
        /\ closed' = closed /\ users' = users /\ creating' = NoCalls
    BY DEF RestartWith
  <1>2. /\ logins \subseteq logins' /\ logins' \subseteq Accounts
        /\ a \in logins' \cup {Nil}
    BY DEF RestartWith, Creating, Types
  <1>3. ASSUME NEW b \in Accounts
        PROVE  m[b] \in Seq(WritesOf(b)) /\ Grown(queues[b], m[b], 0)
    <2>1. PICK q : q = queues[b] /\ q \in Seq(WritesOf(b))
      OBVIOUS
    <2>2. m[b] = [i \in DOMAIN q |-> [q[i] EXCEPT !.live = FALSE]]
      BY <2>1
    <2> HIDE DEF m
    <2>3. \A i \in DOMAIN q : q[i] \in WritesOf(b)
      BY <2>1
    <2>4. ASSUME NEW i \in DOMAIN q
          PROVE  m[b][i] \in WritesOf(b) /\ SameWrite(m[b][i], q[i])
      <3>1. PICK w \in WritesOf(b) : w = q[i]
        BY <2>3
      <3>2. m[b][i] = [w EXCEPT !.live = FALSE]
        BY <2>2, <3>1
      <3> QED BY <3>1, <3>2, Silenced
    <2>5. PICK r : r = m[b]
      OBVIOUS
    <2>6. DOMAIN r = DOMAIN q /\ r = [i \in DOMAIN q |-> r[i]]
      BY <2>2, <2>5
    <2>7. r \in Seq(WritesOf(b)) /\ Grown(q, r, 0)
      BY <2>1, <2>4, <2>5, <2>6, Mapped
    <2> QED BY <2>1, <2>5, <2>7
  <1>4. DOMAIN m = Accounts
    OBVIOUS
  <1> HIDE DEF m
  <1>5. a \in Accounts \cup {Nil}
    BY <1>2
  <1>6. PICK updated : updated = OnlineSent(m, a, rec, TRUE)
    OBVIOUS
  <1>7. AllSend(m, updated, a, rec)
    BY <1>3, <1>4, <1>5, <1>6, OnlineSends
  <1>8. \A b \in Accounts : Len(queues[b]) \in Nat
    BY SeqIs
  <1>9. AllSend(queues, updated, a, rec)
    BY <1>3, <1>7, <1>8, AllMapped
  <1>10. Calls'
    BY <1>1 DEF Calls, NoCalls
  <1>11. Types'
    <2>1. DOMAIN writes' = Accounts /\ \A b \in Accounts : writes'[b] \in Seq(WritesOf(b))
      BY <1>1, <1>6, <1>9 DEF AllSend
    <2>2. answers' \in Seq(Completions) /\ fetches' \in [Accounts -> Nat]
      BY <1>1
    <2> QED BY <1>1, <1>2, <1>5, <1>10, <2>1, <2>2 DEF Types
  <1>12. a # Nil /\ rec # Nil => OneMore(queues[a], writes'[a])
    <2> SUFFICES ASSUME a # Nil, rec # Nil PROVE Len(updated[a]) = Len(queues[a]) + 1
      BY <1>1, <1>6 DEF OneMore
    <2>1. a \in Accounts /\ rec \in Records
      BY <1>5
    <2>2. PICK q : q = m[a] /\ q \in Seq(WritesOf(a)) /\ Len(q) = Len(queues[a])
      BY <1>3, <2>1 DEF Grown
    <2>3. PICK v : v = Updated(q, rec, "isOnline", TRUE, "nothing", Nil)
      OBVIOUS
    <2>4. Len(v) = Len(q) + 1
      <3>1. PICK t : t = TRUE
        OBVIOUS
      <3>2. v = Updated(q, rec, "isOnline", t, "nothing", Nil)
        BY <2>3, <3>1
      <3> QED BY <2>1, <2>2, <3>2, UpdatedAppends
    <2>5. updated = [m EXCEPT ![a] = v]
      BY <1>6, <2>2, <2>3 DEF OnlineSent
    <2>6. updated[a] = v
      BY <1>4, <2>1, <2>5
    <2> QED BY <2>2, <2>4, <2>6
  <1> QED BY <1>1, <1>2, <1>6, <1>9, <1>11, <1>12 DEF Restarted

LEMMA RestartQuiet ==
  ASSUME Types, Restart
  PROVE  Quiet /\ Types'
  <1>1. PICK a, rec, queues : a = auth /\ rec = current /\ queues = writes
    OBVIOUS
  <1>2. /\ rec \in Records \cup {Nil}
        /\ DOMAIN queues = Accounts /\ \A b \in Accounts : queues[b] \in Seq(WritesOf(b))
    BY <1>1 DEF Types
  <1>3. RestartWith(a, rec, queues)
    BY <1>1 DEF Restart
  <1>4. /\ auth' = a /\ current' = rec /\ users' = users /\ closed' = closed /\ leaving' = Nil
        /\ answers' = <<>> /\ fetches' = [b \in Accounts |-> 0] /\ listening'
        /\ logins \subseteq logins' /\ logins' \subseteq Accounts
        /\ Types'
        /\ \E updated : AllSend(queues, updated, a, rec) /\ writes' = updated
    <2>1. Restarted(a, rec, queues)
      BY <1>2, <1>3, RestartIs
    <2> QED BY <2>1 DEF Restarted
  <1> QED BY <1>1, <1>4 DEF Quiet, Types

(* Where nothing is answered and no process ends, an action is quiet if the    *)
(* queues are.                                                                 *)
LEMMA SendingQuiet ==
  ASSUME Types, auth' = auth, current' = current, users' = users, closed' = closed,
         logins \subseteq logins', logins' \subseteq Accounts, Calls', fetches' = fetches,
         answers' = answers, leaving' \in {leaving, Nil}, oneSignal' = oneSignal,
         playerId' \in {Nil, "player"},
         NEW updated, AllSend(writes, updated, auth, current), writes' = updated
  PROVE  Quiet /\ Types'
  <1>1. SameAnswers /\ answers' \in Seq(Completions)
    BY AnswersSame
  <1>2. Quiet
    BY <1>1 DEF Quiet
  <1> QED BY <1>1, <1>2, QuietTypes

(* What of the rest an action leaves alone.                                    *)
Unmoved ==
  /\ auth' = auth /\ current' = current /\ users' = users /\ closed' = closed
  /\ logins' = logins /\ creating' = creating /\ fetches' = fetches
  /\ answers' = answers /\ leaving' \in {leaving, Nil} /\ oneSignal' = oneSignal

LEMMA CallsSame ==
  ASSUME Calls, creating' = creating, logins' = logins, closed' = closed
  PROVE  Calls'
  BY DEF Calls

LEMMA UnmovedQuiet ==
  ASSUME Types, Unmoved, playerId' \in {Nil, "player"},
         NEW updated, AllSend(writes, updated, auth, current), writes' = updated
  PROVE  Quiet /\ Types'
  <1>1. Calls'
    BY CallsSame DEF Unmoved, Types
  <1>2. logins \subseteq logins' /\ logins' \subseteq Accounts
    BY DEF Unmoved, Types
  <1> QED BY <1>1, <1>2, SendingQuiet DEF Unmoved

LEMMA BlocksOf ==
  ASSUME NEW rec \in Records, NEW u \in People
  PROVE  /\ Changed(rec, "blockedUsers", Toggled(rec.blockedUsers, u), u)
         /\ \A v \in People : u \in rec.blockedUsers /\ (~overtaken' => v = u) =>
              Changed(rec, "blockedUsers", rec.blockedUsers \ {u}, v)
  <1>1. [rec EXCEPT !["blockedUsers"] = Toggled(rec.blockedUsers, u)] \in Records
    BY DEF Records, Toggled
  <1>2. u \in rec.blockedUsers => rec.blockedUsers \ {u} = Toggled(rec.blockedUsers, u)
    BY DEF Toggled
  <1> QED BY <1>1, <1>2 DEF Changed, Fields

LEMMA ProfileChanged ==
  ASSUME NEW rec \in Records, NEW p \in {"full", "edited", "empty"}
  PROVE  Changed(rec, "profile", p, Nil)
  BY DEF Changed, Records, Fields

LEMMA AuthListenerQuiet ==
  ASSUME Types, AuthListener
  PROVE  Quiet /\ Types'
  <1>1. Unmoved
    BY DEF AuthListener, Unmoved, server, requests
  <1>2. CASE auth # Nil /\ current # Nil
    <2>1. PICK r : r = PushIdSent(writes[auth], current)
      OBVIOUS
    <2>2. writes' = [writes EXCEPT ![auth] = r] /\ playerId' = NewPlayerId
      BY <1>2, <2>1 DEF AuthListener, GoToApp
    <2>3. auth \in Accounts => r \in Seq(WritesOf(auth)) /\ Sends(writes[auth], r, current)
      BY <2>1, PushIdSends DEF Types
    <2>4. PICK updated : updated = [writes EXCEPT ![auth] = r]
      OBVIOUS
    <2>5. AllSend(writes, updated, auth, current)
      BY <2>3, <2>4, SignedInSends DEF Types
    <2>6. playerId' \in {Nil, "player"}
      BY <2>2, PlayerIdIs DEF Types
    <2> QED BY <1>1, <2>2, <2>4, <2>5, <2>6, UnmovedQuiet
  <1>3. CASE ~(auth # Nil /\ current # Nil)
    <2>1. writes' = writes /\ playerId' = playerId
      BY <1>3 DEF AuthListener
    <2>2. playerId' \in {Nil, "player"}
      BY <2>1 DEF Types
    <2> QED BY <1>1, <2>1, <2>2, NoneSend, UnmovedQuiet
  <1> QED BY <1>2, <1>3

LEMMA OnlineQuiet ==
  ASSUME Types, BecomeActive \/ EnterBackground
  PROVE  Quiet /\ Types'
  <1>1. PICK online \in BOOLEAN : writes' = OnlineSent(writes, auth, current, online)
    BY DEF BecomeActive, EnterBackground
  <1>2. Unmoved /\ playerId' = playerId
    BY DEF BecomeActive, EnterBackground, Unmoved, device, server, requests
  <1>3. PICK updated : updated = OnlineSent(writes, auth, current, online)
    OBVIOUS
  <1>4. AllSend(writes, updated, auth, current)
    BY <1>3, OnlineSends DEF Types
  <1>5. playerId' \in {Nil, "player"}
    BY <1>2 DEF Types
  <1> QED BY <1>1, <1>2, <1>3, <1>4, <1>5, UnmovedQuiet

(* Screens that are opened and left, answers that bring lists of users. *)
LEMMA ScreensQuiet ==
  ASSUME Types,
         \/ OpenRegistration \/ (OpenEdit /\ CurrentUser # Nil)
         \/ (OpenBlocked /\ CurrentUser # Nil) \/ ListAnswer \/ DeleteFails
         \/ (LateListAnswer /\ auth # Nil)
  PROVE  Quiet /\ Types'
  <1>1. Unmoved /\ playerId' = playerId /\ writes' = writes
    BY DEF OpenRegistration, OpenEdit, OpenBlocked, ListAnswer, LateListAnswer, DeleteFails,
           Unmoved, device, server, traffic, requests
  <1>2. playerId' \in {Nil, "player"}
    BY <1>1 DEF Types
  <1> QED BY <1>1, <1>2, NoneSend, UnmovedQuiet

(* The call for an account that is created, and its failure. *)
LEMMA CreatingQuiet ==
  ASSUME Types, NEW a \in Accounts, Done(a) \/ RegisterFails(a)
  PROVE  Quiet /\ Types'
  <1>1. /\ auth' = auth /\ current' = current /\ users' = users /\ closed' = closed
        /\ fetches' = fetches /\ answers' = answers /\ leaving' = leaving
        /\ oneSignal' = oneSignal /\ playerId' = playerId /\ writes' = writes
    BY DEF Done, RegisterFails, device, server
  <1>2. logins' \in {logins, logins \cup {a}}
    BY DEF Done, RegisterFails, server
  <1>3. Calls'
    <2>1. CASE Done(a)
      BY <2>1 DEF Done, server, Types, Calls
    <2>2. CASE RegisterFails(a)
      BY <2>2 DEF RegisterFails, Types, Calls
    <2> QED BY <2>1, <2>2
  <1>4. logins \subseteq logins' /\ logins' \subseteq Accounts /\ playerId' \in {Nil, "player"}
    BY <1>1, <1>2 DEF Types
  <1> QED BY <1>1, <1>3, <1>4, NoneSend, SendingQuiet

LEMMA SaveQuiet ==
  ASSUME Types, Save
  PROVE  Quiet /\ Types'
  <1>1. Unmoved /\ playerId' = playerId
    BY DEF Save, Unmoved, device, server, requests
  <1>2. PICK updated : updated = [writes EXCEPT ![auth] =
                          Updated(@, current, "profile", "edited", "save", Nil)]
    OBVIOUS
  <1>3. current # Nil => Changed(current, "profile", "edited", Nil)
    BY ProfileChanged DEF Types
  <1>4. "save" \in Thens
    BY DEF Thens
  <1>5. AllSend(writes, updated, auth, current)
    BY <1>2, <1>3, <1>4, UpdateSends
  <1>6. writes' = updated /\ playerId' \in {Nil, "player"}
    BY <1>1, <1>2 DEF Save, Types
  <1> QED BY <1>1, <1>5, <1>6, UnmovedQuiet

LEMMA BlocksQuiet ==
  ASSUME Types, Unmoved, playerId' = playerId, NEW value, NEW then \in Thens, NEW u,
         current # Nil => Changed(current, "blockedUsers", value, u),
         writes' = [writes EXCEPT ![auth] = Updated(@, current, "blockedUsers", value, then, u)]
  PROVE  Quiet /\ Types'
  <1>1. PICK updated : updated = [writes EXCEPT ![auth] =
                          Updated(@, current, "blockedUsers", value, then, u)]
    OBVIOUS
  <1>2. AllSend(writes, updated, auth, current)
    BY <1>1, UpdateSends
  <1>3. writes' = updated /\ playerId' \in {Nil, "player"}
    BY <1>1 DEF Types
  <1> QED BY <1>2, <1>3, UnmovedQuiet

LEMMA BlockQuiet ==
  ASSUME Types, NEW u \in People, Block(u)
  PROVE  Quiet /\ Types'
  <1>1. CASE Restart
    BY <1>1, RestartQuiet
  <1>2. CASE ~Restart
    <2>1. PICK value : value = Toggled(current.blockedUsers, u)
      OBVIOUS
    <2>2. Unmoved /\ playerId' = playerId
      BY <1>2 DEF Block, Unmoved, device, server, requests
    <2>3. current # Nil => Changed(current, "blockedUsers", value, u)
      BY <2>1, BlocksOf DEF Types
    <2>4. writes' = [writes EXCEPT ![auth] = Updated(@, current, "blockedUsers", value, "block", u)]
      BY <1>2, <2>1 DEF Block
    <2> QED BY <2>2, <2>3, <2>4, BlocksQuiet DEF Thens
  <1> QED BY <1>1, <1>2

(* A row that was not drawn again may stand for somebody else.                 *)
LEMMA UnblockQuiet ==
  ASSUME Types, NEW u \in People, Unblock(u), drawn = listed \/ overtaken'
  PROVE  Quiet /\ Types'
  <1>1. CASE Restart
    BY <1>1, RestartQuiet
  <1>2. CASE ~Restart
    <2>1. PICK i \in DOMAIN drawn :
             /\ drawn[i] = u /\ CurrentUser # Nil /\ listed[i] \in current.blockedUsers
             /\ writes' = [writes EXCEPT ![auth] =
                   Updated(@, current, "blockedUsers", current.blockedUsers \ {listed[i]},
                           "unblock", u)]
             /\ Unmoved /\ playerId' = playerId
      BY <1>2 DEF Unblock, Unmoved, device, server, requests
    <2>2. PICK v, value : v = listed[i] /\ value = current.blockedUsers \ {v}
      OBVIOUS
    <2>3. current \in Records /\ v \in current.blockedUsers
      BY <2>1, <2>2 DEF CurrentUser, Types
    <2>4. v \in People /\ (~overtaken' => u = v)
      BY <2>1, <2>2, <2>3 DEF Records
    <2>5. Changed(current, "blockedUsers", value, u)
      BY <2>2, <2>3, <2>4, BlocksOf
    <2>6. writes' = [writes EXCEPT ![auth] = Updated(@, current, "blockedUsers", value, "unblock", u)]
      BY <2>1, <2>2
    <2> QED BY <2>1, <2>5, <2>6, BlocksQuiet DEF Thens
  <1> QED BY <1>1, <1>2

LEMMA GoneIs ==
  ASSUME NEW a \in Accounts, NEW w \in WritesOf(a)
  PROVE  /\ Gone(w) \in WritesOf(a) /\ SameWrite(Gone(w), w)
         /\ w \in UpdateWrites => Gone(w) \in UpdateWrites
  <1>1. PICK t : t = CASE w.then \in {"save", "unblock"} -> "nothing"
                      [] w.then = "finish" -> "finished"
                      [] OTHER -> w.then
    OBVIOUS
  <1>2. Gone(w) = [w EXCEPT !.then = t]
    BY <1>1 DEF Gone
  <1>3. CASE w \in UpdateWrites
    <2>1. t \in Thens
      BY <1>1, <1>3 DEF UpdateWrites, Thens
    <2> QED BY <1>2, <1>3, <2>1 DEF UpdateWrites, WritesOf, SameWrite
  <1>4. CASE w \notin UpdateWrites
    <2>1. w.then = "nothing" /\ w \in {Silent("all", NewUser(a)), Silent("none", Nil)}
      BY <1>4 DEF WritesOf, Silent
    <2>2. t = w.then
      BY <1>1, <2>1
    <2>3. [w EXCEPT !.then = w.then] = w
      BY <2>1 DEF Silent
    <2> QED BY <1>2, <1>4, <2>2, <2>3 DEF SameWrite
  <1> QED BY <1>3, <1>4

LEMMA ScreenGoesIs ==
  ASSUME Types, ScreenGoes
  PROVE  /\ SameAnswers /\ answers' \in Seq(Completions)
         /\ DOMAIN writes' = Accounts
         /\ \A a \in Accounts : writes'[a] \in Seq(WritesOf(a)) /\ Grown(writes[a], writes'[a], 0)
  <1> DEFINE m == [a \in Accounts |-> [i \in DOMAIN writes[a] |-> Gone(writes[a][i])]]
             n == [i \in DOMAIN answers |-> [answers[i] EXCEPT !.write = Gone(@)]]
  <1>1. writes' = m /\ answers' = n
    BY DEF ScreenGoes
  <1>2. ASSUME NEW a \in Accounts
        PROVE  m[a] \in Seq(WritesOf(a)) /\ Grown(writes[a], m[a], 0)
    <2>1. PICK q : q = writes[a] /\ q \in Seq(WritesOf(a))
      BY DEF Types
    <2>2. m[a] = [i \in DOMAIN q |-> Gone(q[i])]
      BY <2>1
    <2>3. PICK r : r = m[a]
      OBVIOUS
    <2> HIDE DEF m
    <2>4. \A i \in DOMAIN q : q[i] \in WritesOf(a)
      BY <2>1
    <2>5. ASSUME NEW i \in DOMAIN q
          PROVE  r[i] \in WritesOf(a) /\ SameWrite(r[i], q[i])
      <3>1. PICK w \in WritesOf(a) : w = q[i]
        BY <2>4
      <3>2. r[i] = Gone(w)
        BY <2>2, <2>3, <3>1
      <3> QED BY <3>1, <3>2, GoneIs
    <2>6. DOMAIN r = DOMAIN q /\ r = [i \in DOMAIN q |-> r[i]]
      BY <2>2, <2>3
    <2>7. r \in Seq(WritesOf(a)) /\ Grown(q, r, 0)
      BY <2>1, <2>5, <2>6, Mapped
    <2> QED BY <2>1, <2>3, <2>7
  <1>3. DOMAIN m = Accounts
    OBVIOUS
  <1> HIDE DEF m
  <1>4. /\ DOMAIN answers = 1..Len(answers) /\ Len(answers) \in Nat
        /\ \A i \in 1..Len(answers) : answers[i] \in Completions
    BY SeqIs DEF Types
  <1>5. ASSUME NEW i \in 1..Len(answers)
        PROVE  /\ n[i] \in Completions
               /\ n[i].write.copy = answers[i].write.copy /\ n[i].failed = answers[i].failed
    <2>1. PICK x : x = answers[i] /\ x \in Completions
      BY <1>4
    <2>2. PICK w : w = x.write /\ w \in UpdateWrites
      BY <2>1 DEF Completions
    <2>3. n[i] = [x EXCEPT !.write = Gone(w)]
      BY <1>4, <2>1, <2>2 DEF Completions
    <2>4. Gone(w).copy = w.copy
      BY <2>2 DEF Gone, UpdateWrites
    <2>5. Gone(w) \in UpdateWrites
      <3>1. PICK t : t = CASE w.then \in {"save", "unblock"} -> "nothing"
                          [] w.then = "finish" -> "finished"
                          [] OTHER -> w.then
        OBVIOUS
      <3>2. t \in Thens
        BY <2>2, <3>1 DEF UpdateWrites, Thens
      <3>3. Gone(w) = [w EXCEPT !.then = t]
        BY <3>1 DEF Gone
      <3> QED BY <2>2, <3>2, <3>3 DEF UpdateWrites
    <2> QED BY <2>1, <2>2, <2>3, <2>4, <2>5 DEF Completions
  <1>6. n \in [1..Len(answers) -> Completions]
    BY <1>4, <1>5
  <1> HIDE DEF n
  <1>7. n \in Seq(Completions) /\ Len(n) = Len(answers)
    BY <1>4, <1>6, SeqIs
  <1>8. SameAnswers
    BY <1>1, <1>5, <1>7 DEF SameAnswers
  <1> QED BY <1>1, <1>2, <1>3, <1>7, <1>8

(* What a completion does is done to a screen that is gone. *)
LEMMA LeaveQuiet ==
  ASSUME Types, Cancel \/ LeaveEdit \/ LeaveBlocked
  PROVE  Quiet /\ Types'
  <1>1. /\ auth' = auth /\ current' = current /\ users' = users /\ closed' = closed
        /\ logins' = logins /\ fetches' = fetches /\ leaving' = leaving
        /\ oneSignal' = oneSignal /\ playerId' = playerId /\ ScreenGoes
    BY DEF Cancel, LeaveEdit, LeaveBlocked, device, server, requests
  <1>2. Calls'
    <2>1. CASE Cancel
      BY <2>1 DEF Cancel, server, Calls, Types
    <2>2. CASE LeaveEdit \/ LeaveBlocked
      <3>1. creating' = creating
        BY <2>2 DEF LeaveEdit, LeaveBlocked, requests
      <3> QED BY <3>1, <1>1, CallsSame DEF Types
    <2> QED BY <2>1, <2>2
  <1>3. /\ SameAnswers /\ answers' \in Seq(Completions)
        /\ DOMAIN writes' = Accounts
        /\ \A a \in Accounts : writes'[a] \in Seq(WritesOf(a)) /\ Grown(writes[a], writes'[a], 0)
    BY <1>1, ScreenGoesIs
  <1>4. PICK updated : updated = writes'
    OBVIOUS
  <1>5. AllSend(writes, updated, auth, current)
    BY <1>3, <1>4 DEF AllSend, Sends
  <1>6. logins \subseteq logins' /\ logins' \subseteq Accounts /\ playerId' \in {Nil, "player"}
    BY <1>1 DEF Types
  <1>7. Quiet
    BY <1>1, <1>2, <1>3, <1>4, <1>5, <1>6 DEF Quiet
  <1> QED BY <1>1, <1>3, <1>6, <1>7, QuietTypes

--------------------------------------------------------------------------------
(* What is under way.                                                          *)

Counted(a) ==
  /\ UnderWay(a) \in Nat
  /\ UnderWay(a) = 0 => Updates(a) = {} /\ answers = <<>> /\ fetches[a] = 0
  /\ UnderWay(a) <= 1 =>
       /\ Updates(a) # {} => answers = <<>> /\ fetches[a] = 0
       /\ \A i, j \in Updates(a) : i = j
       /\ answers # <<>> => Len(answers) = 1 /\ fetches[a] = 0
       /\ fetches[a] <= 1

LEMMA UpdatesCounted == Types => \A a \in Accounts : Counted(a)
  <1> SUFFICES ASSUME Types, NEW a \in Accounts PROVE Counted(a)
    OBVIOUS
  <1> DEFINE U == Updates(a)
             n == Cardinality(U)
  <1>1. U \subseteq 1..Len(writes[a]) /\ Len(writes[a]) \in Nat
    BY SeqIs DEF Types, Updates
  <1>2. IsFiniteSet(U)
    <2>1. PICK n1 \in Nat : n1 = Len(writes[a])
      BY <1>1
    <2>2. IsFiniteSet(1..n1)
      BY FS_Interval
    <2> QED BY <1>1, <2>1, <2>2, FS_Subset
  <1>3. n \in Nat /\ (n = 0 => U = {})
    BY <1>2, FS_CardinalityType, FS_EmptySet
  <1>4. ASSUME NEW i \in U, NEW j \in U, i # j PROVE n > 1
    <2>1. {i, j} \subseteq U /\ IsFiniteSet({i, j})
      BY <1>2, FS_Subset
    <2>2. Cardinality({i, j}) <= n
      BY <1>2, <2>1, FS_Subset
    <2>3. Cardinality({i, j}) = 2
      <3>1. Cardinality({i}) = 1 /\ IsFiniteSet({i})
        BY FS_Singleton
      <3>2. {i} \cup {j} = {i, j} /\ j \notin {i}
        BY <1>4
      <3>3. Cardinality({i} \cup {j}) = Cardinality({i}) + 1
        BY <3>1, <3>2, FS_AddElement
      <3> QED BY <3>1, <3>2, <3>3
    <2> QED BY <2>2, <2>3, <1>3
  <1>5. Len(answers) \in Nat /\ (Len(answers) = 0 <=> answers = <<>>) /\ fetches[a] \in Nat
    <2>1. PICK S : S = Completions
      OBVIOUS
    <2>2. answers \in Seq(S) /\ fetches[a] \in Nat
      BY <2>1 DEF Types
    <2> QED BY <2>2
  <1>6. UnderWay(a) = n + Len(answers) + fetches[a]
    BY DEF UnderWay
  <1> HIDE DEF n, U
  <1>7. UnderWay(a) \in Nat
    BY <1>3, <1>5, <1>6
  <1>8. UnderWay(a) = 0 => U = {} /\ answers = <<>> /\ fetches[a] = 0
    BY <1>3, <1>5, <1>6
  <1>9. ASSUME UnderWay(a) <= 1
        PROVE  /\ U # {} => answers = <<>> /\ fetches[a] = 0
               /\ \A i, j \in U : i = j
               /\ answers # <<>> => Len(answers) = 1 /\ fetches[a] = 0
               /\ fetches[a] <= 1
    <2>1. n + Len(answers) + fetches[a] <= 1
      BY <1>6, <1>9
    <2>2. n <= 1 /\ Len(answers) <= 1 /\ fetches[a] <= 1
      BY <2>1, <1>3, <1>5
    <2>3. \A i, j \in U : i = j
      BY <2>2, <1>3, <1>4
    <2>4. U # {} => Len(answers) = 0 /\ fetches[a] = 0
      BY <2>1, <1>3, <1>5
    <2>5. answers # <<>> => Len(answers) = 1 /\ fetches[a] = 0
      <3> SUFFICES ASSUME answers # <<>> PROVE Len(answers) = 1 /\ fetches[a] = 0
        OBVIOUS
      <3>1. PICK k \in Nat, f \in Nat : k = Len(answers) /\ f = fetches[a] /\ k # 0
        BY <1>5
      <3>2. n + k + f <= 1
        BY <2>1, <3>1
      <3>3. k = 1 /\ f = 0
        BY <3>1, <3>2, <1>3
      <3> QED BY <3>1, <3>3
    <2> QED BY <2>2, <2>3, <2>4, <2>5, <1>5
  <1> QED BY <1>7, <1>8, <1>9 DEF Counted, U

Alone == \A a \in Accounts : auth = a => UnderWay(a) <= 1

LEMMA NotCrowded == Types /\ ~Crowded => Alone
  <1> SUFFICES ASSUME Types, ~Crowded, NEW a \in Accounts, auth = a PROVE UnderWay(a) <= 1
    BY DEF Alone
  <1>1. auth # Nil
    BY NilIsNoRecord
  <1>2. ~(UnderWay(a) > 1)
    BY <1>1 DEF Crowded
  <1>3. UnderWay(a) \in Nat
    BY UpdatesCounted DEF Counted
  <1> QED BY <1>2, <1>3

(* What Observe says of the state it leads to. *)
LEMMA Observed ==
  ASSUME Types', Observe
  PROVE  /\ ~stray' => ~stray /\ ~Stray'
         /\ ~overtaken' => /\ ~Crowded' /\ Alone'
                           /\ ~(listening' /\ answers # <<>>)
                           /\ auth' \in {auth, Nil} => ~overtaken
  <1>1. ~overtaken' => ~Crowded' /\ ~(listening' /\ answers # <<>>)
                         /\ (auth' \in {auth, Nil} => ~overtaken)
    BY DEF Observe
  <1>2. Types' /\ ~Crowded' => Alone'
    BY NotCrowded, PTL
  <1>3. ~stray' => ~stray /\ ~Stray'
    BY DEF Observe
  <1> QED BY <1>1, <1>2, <1>3

LEMMA CountedNext == Types' => (\A a \in Accounts : Counted(a))'
  BY UpdatesCounted, PTL

LEMMA MadeFromSame ==
  ASSUME NEW v, NEW w, NEW rec, SameWrite(v, w), MadeFrom(w, rec)
  PROVE  MadeFrom(v, rec)
  BY DEF SameWrite, MadeFrom, IsUpdate

(* r has the writes of q, and more of those that follow.                       *)
Continues(q, r) ==
  /\ Len(q) \in Nat /\ Len(r) \in Nat /\ Len(q) <= Len(r)
  /\ \A i \in 1..Len(q) : SameWrite(r[i], q[i])
  /\ \A i \in 1..Len(r) : i \notin 1..Len(q) => r[i].field # "all"

LEMMA SendsContinues ==
  ASSUME NEW q, NEW r, Len(q) \in Nat, NEW rec, Sends(q, r, rec)
  PROVE  Continues(q, r)
  <1>1. CASE Grown(q, r, 0)
    BY <1>1 DEF Grown, Continues
  <1>2. CASE Grown(q, r, 1) /\ IsUpdate(r[Len(r)])
    <2>1. r[Len(r)].field # "all"
      BY <1>2 DEF IsUpdate, Fields
    <2>2. Len(r) = Len(q) + 1 /\ \A i \in 1..Len(r) : i \notin 1..Len(q) => i = Len(r)
      BY <1>2 DEF Grown
    <2> QED BY <1>2, <2>1, <2>2 DEF Grown, Continues
  <1> QED BY <1>1, <1>2 DEF Sends

LEMMA AllFirstContinues ==
  ASSUME NEW a, AllFirst(a), users'[a] = users[a],
         NEW q, q = writes[a], NEW r, r = writes'[a], Continues(q, r)
  PROVE  AllFirst(a)'
  <1> SUFFICES ASSUME NEW i \in 1..Len(r), r[i].field = "all"
               PROVE  i = 1 /\ Len(r) > 1 /\ IsUpdate(r[2]) /\ users[a] = Nil
    BY DEF AllFirst, IsUpdate
  <1>1. i \in 1..Len(q) /\ q[i].field = "all"
    BY DEF Continues, SameWrite
  <1>2. i = 1 /\ Len(q) > 1 /\ IsUpdate(q[2]) /\ users[a] = Nil
    BY <1>1 DEF AllFirst
  <1>3. 2 \in 1..Len(q) /\ Len(r) > 1
    BY <1>2 DEF Continues
  <1> QED BY <1>2, <1>3 DEF Continues, SameWrite, IsUpdate

--------------------------------------------------------------------------------
(* What a state that does not stray is.                                        *)

Straight ==
  /\ \A a \in Accounts : auth # a => fetches[a] = 0
  /\ \A i \in 1..Len(answers) : answers[i].write.copy.id = auth
  /\ auth = Nil => answers = <<>>
  /\ \A a \in Accounts : leaving = a => UnderWay(a) = 0
  /\ screen = "welcome" /\ ~listening => auth = Nil

LEMMA NotStray == Types /\ ~Stray => Straight
  <1> SUFFICES ASSUME Types, ~Stray PROVE Straight
    OBVIOUS
  <1>1. PICK S : S = Completions
    OBVIOUS
  <1>2. /\ answers \in Seq(S) /\ DOMAIN answers = 1..Len(answers) /\ Len(answers) \in Nat
        /\ \A i \in 1..Len(answers) : answers[i] \in S
    BY <1>1 DEF Types
  <1>3. answers # <<>> => Len(answers) # 0
    BY <1>2
  <1>4. \A i \in 1..Len(answers) : answers[i].write.copy.id = auth
    BY <1>2 DEF Stray
  <1>5. \A a \in Accounts : auth # a => fetches[a] = 0
    <2>1. \A a \in Accounts : fetches[a] \in Nat
      BY DEF Types
    <2> QED BY <2>1 DEF Stray
  <1>6. auth = Nil => answers = <<>>
    <2> SUFFICES ASSUME answers # <<>> PROVE auth \in Accounts
      BY NilIsNoRecord
    <2>1. 1 \in 1..Len(answers)
      BY <1>2, <1>3
    <2>2. answers[1].write.copy \in Records
      BY <1>1, <1>2, <2>1 DEF Completions, UpdateWrites
    <2> QED BY <2>1, <2>2, <1>4 DEF Records
  <1>7. ASSUME NEW a \in Accounts, leaving = a PROVE UnderWay(a) = 0
    <2>1. leaving # Nil
      BY <1>7, NilIsNoRecord
    <2>2. ~(UnderWay(a) > 0)
      BY <1>7, <2>1 DEF Stray
    <2>3. UnderWay(a) \in Nat
      BY UpdatesCounted DEF Counted
    <2> QED BY <2>2, <2>3
  <1>8. screen = "welcome" /\ ~listening => auth = Nil
    BY DEF Stray
  <1> QED BY <1>4, <1>5, <1>6, <1>7, <1>8 DEF Straight

LEMMA StraightNext == Types' /\ ~Stray' => Straight'
  BY NotStray, PTL

Numbered(a) == Len(writes[a]) \in Nat /\ DOMAIN writes[a] = 1..Len(writes[a])

LEMMA QueuesNumbered == Types => \A a \in Accounts : Numbered(a)
  BY SeqIs DEF Types, Numbered

LEMMA NumberedNext == Types' => (\A a \in Accounts : Numbered(a))'
  BY QueuesNumbered, PTL

(* An update of the account's own record keeps what is said of its queue.      *)
LEMMA CopiesKept ==
  ASSUME NEW a, Numbered(a), Numbered(a)', CopiesOwn(a), NEW rec, rec # Nil => rec.id = a,
         NEW q, q = writes[a], NEW r, r = writes'[a], Sends(q, r, rec), Nil \notin Records
  PROVE  CopiesOwn(a)'
  <1> SUFFICES ASSUME NEW i \in Updates(a)' PROVE r[i].copy.id = a
    BY DEF CopiesOwn
  <1>1. i \in 1..Len(r) /\ IsUpdate(r[i]) /\ Len(q) \in Nat /\ Len(r) \in Nat
    BY DEF Updates, Numbered
  <1>2. CASE i \in 1..Len(q)
    <2>1. SameWrite(r[i], q[i])
      BY <1>2 DEF Sends, Grown
    <2>2. i \in Updates(a)
      BY <1>1, <1>2, <2>1 DEF Updates, Numbered, SameWrite, IsUpdate
    <2> QED BY <2>1, <2>2 DEF CopiesOwn, SameWrite
  <1>3. CASE i \notin 1..Len(q)
    <2>1. i = Len(r) /\ rec \in Records /\ r[Len(r)].copy.id = rec.id
      BY <1>1, <1>3 DEF Sends, Grown
    <2> QED BY <2>1
  <1> QED BY <1>2, <1>3

LEMMA NoneKept ==
  ASSUME NEW a, Numbered(a), Numbered(a)', NoneOnly(a), NEW rec, rec = Nil \/ rec = current,
         NEW q, q = writes[a], NEW r, r = writes'[a], Sends(q, r, rec),
         Nil \notin Records, auth = a \/ Grown(q, r, 0),
         auth' = a => auth = a, auth' = a /\ current = Nil => current' = Nil,
         answers = <<>> => answers' = <<>>
  PROVE  NoneOnly(a)'
  <1> SUFFICES ASSUME NEW i \in 1..Len(r), r[i].field = "none"
               PROVE  /\ \A j \in 1..Len(r) : r[j].field = "none"
                      /\ auth' = a => current' = Nil /\ answers' = <<>>
    BY DEF NoneOnly
  <1>1. Len(q) \in Nat /\ Len(r) \in Nat
    BY DEF Numbered
  <1>2. i \in 1..Len(q)
    <2> SUFFICES ASSUME i \notin 1..Len(q) PROVE FALSE
      OBVIOUS
    <2>1. i = Len(r) /\ IsUpdate(r[Len(r)])
      BY <1>1 DEF Sends, Grown
    <2> QED BY <2>1 DEF IsUpdate, Fields
  <1>3. SameWrite(r[i], q[i])
    BY <1>2 DEF Sends, Grown
  <1>4. \A j \in 1..Len(q) : q[j].field = "none"
    BY <1>2, <1>3 DEF NoneOnly, SameWrite
  <1>5. auth = a => current = Nil /\ answers = <<>>
    BY <1>2, <1>3 DEF NoneOnly, SameWrite
  <1>6. Grown(q, r, 0)
    BY <1>5 DEF Sends
  <1>7. \A j \in 1..Len(r) : r[j].field = "none"
    BY <1>1, <1>4, <1>6 DEF Grown, SameWrite
  <1> QED BY <1>5, <1>7

--------------------------------------------------------------------------------
(* Quiet actions keep the invariant.                                           *)

LEMMA BaseSame ==
  ASSUME NEW a, users'[a] = users[a], NEW q, q = writes[a], NEW r, r = writes'[a],
         Continues(q, r), Numbered(a), Numbered(a)'
  PROVE  Base(a)' = Base(a)
  <1>1. CASE q = <<>>
    <2>1. Len(q) = 0
      BY <1>1
    <2>2. r # <<>> => 1 \in 1..Len(r) /\ 1 \notin 1..Len(q)
      <3>1. DOMAIN r = 1..Len(r) /\ Len(r) \in Nat
        BY DEF Numbered
      <3> QED BY <2>1, <3>1
    <2> QED BY <1>1, <2>2 DEF Continues, Base
  <1>2. CASE q # <<>>
    <2>1. 1 \in 1..Len(q) /\ r # <<>>
      <3>1. Len(q) # 0
        BY <1>2 DEF Numbered
      <3> QED BY <3>1 DEF Continues, Numbered
    <2>2. r[1].field = q[1].field
      BY <2>1 DEF Continues, SameWrite
    <2> QED BY <1>2, <2>1, <2>2 DEF Base
  <1> QED BY <1>1, <1>2

(* What an update of rec, if one is sent to a, finds is what rec is a copy of. *)
LEMMA UpdatesMade ==
  ASSUME NEW a, Numbered(a), Numbered(a)', Base(a)' = Base(a), ~overtaken',
         Base(a) # Nil => \A i \in Updates(a) : MadeFrom(writes[a][i], Base(a)),
         NEW rec, NEW q, q = writes[a], NEW r, r = writes'[a], Sends(q, r, rec),
         Updates(a)' # {} /\ rec \in Records => Base(a) \in {AsSent(rec), Nil}
  PROVE  (Base(a) # Nil => \A i \in Updates(a) : MadeFrom(writes[a][i], Base(a)))'
  <1> SUFFICES ASSUME Base(a) # Nil, NEW i \in Updates(a)' PROVE MadeFrom(r[i], Base(a))
    OBVIOUS
  <1>1. i \in 1..Len(r) /\ IsUpdate(r[i]) /\ Len(q) \in Nat /\ Len(r) \in Nat
    BY DEF Updates, Numbered
  <1>2. CASE i \in 1..Len(q)
    <2>1. SameWrite(r[i], q[i])
      BY <1>2 DEF Sends, Grown
    <2>2. i \in Updates(a)
      BY <1>1, <1>2, <2>1 DEF Updates, Numbered, SameWrite, IsUpdate
    <2>3. MadeFrom(q[i], Base(a))
      BY <2>2
    <2> QED BY <2>1, <2>3, MadeFromSame
  <1>3. CASE i \notin 1..Len(q)
    <2>1. i = Len(r) /\ rec \in Records /\ MadeFrom(r[Len(r)], AsSent(rec))
      BY <1>1, <1>3 DEF Sends, Grown
    <2>2. Base(a) = AsSent(rec)
      BY <2>1
    <2> QED BY <2>1, <2>2
  <1> QED BY <1>2, <1>3

LEMMA KnownQuiet ==
  ASSUME Types, Known, Types', Quiet
  PROVE  Known'
  <1>1. PICK updated : AllSend(writes, updated, auth, current) /\ writes' = updated
    BY DEF Quiet
  <1>2. /\ auth' = auth /\ users' = users /\ logins \subseteq logins' /\ closed' = closed
        /\ leaving' \in {leaving, Nil}
    BY DEF Quiet
  <1>3. ASSUME NEW a \in Accounts
        PROVE  AllFirst(a)' /\ (a \notin logins \cup closed => writes'[a] = <<>>)
    <2>1. PICK q, r : q = writes[a] /\ r = writes'[a]
      OBVIOUS
    <2>2. Len(q) \in Nat /\ Len(r) \in Nat /\ r \in Seq(WritesOf(a))
      <3>1. q \in Seq(WritesOf(a)) /\ r \in Seq(WritesOf(a))
        BY <2>1 DEF Types
      <3> QED BY <3>1, SeqIs
    <2>3. (a # auth => Grown(q, r, 0)) /\ (a = auth => Sends(q, r, current))
      BY <1>1, <2>1 DEF AllSend
    <2>4. Continues(q, r)
      BY <2>2, <2>3, SendsContinues DEF Sends
    <2>5. AllFirst(a)'
      BY <1>2, <2>1, <2>4, AllFirstContinues DEF Known
    <2>6. a \notin logins \cup closed => r = <<>>
      <3> SUFFICES ASSUME a \notin logins \cup closed PROVE r = <<>>
        OBVIOUS
      <3>1. a # auth /\ q = <<>>
        BY <2>1, NilIsNoRecord DEF Known
      <3>2. Len(r) = 0
        BY <3>1, <2>2, <2>3 DEF Grown
      <3> QED BY <3>2, <2>2
    <2> QED BY <2>1, <2>5, <2>6
  <1> QED BY <1>2, <1>3 DEF Known

LEMMA InvQuiet ==
  ASSUME Inv, Types', Quiet, Observe
  PROVE  Inv'
  <1>1. PICK updated : AllSend(writes, updated, auth, current) /\ writes' = updated
    BY DEF Quiet
  <1>2. /\ auth' = auth /\ current' = current /\ users' = users
        /\ leaving' \in {leaving, Nil}
        /\ \/ fetches' = fetches /\ SameAnswers
           \/ fetches' = [a \in Accounts |-> 0] /\ answers' = <<>> /\ listening'
    BY DEF Quiet
  <1>3. Types /\ Known
    BY DEF Inv
  <1>4. Known'
    BY <1>3, KnownQuiet
  <1>5. /\ ~stray' => ~stray /\ ~Stray'
        /\ ~overtaken' => /\ ~Crowded' /\ Alone'
                          /\ ~(listening' /\ answers # <<>>)
                          /\ auth' \in {auth, Nil} => ~overtaken
    BY Observed
  <1>6. ASSUME NEW a \in Accounts
        PROVE  /\ Numbered(a) /\ Numbered(a)' /\ Continues(writes[a], updated[a])
               /\ a # auth => Grown(writes[a], updated[a], 0)
               /\ a = auth => Sends(writes[a], updated[a], current)
    <2>1. Numbered(a) /\ Numbered(a)'
      BY <1>3, QueuesNumbered, NumberedNext
    <2>2. (a # auth => Grown(writes[a], updated[a], 0)) /\ (a = auth => Sends(writes[a], updated[a], current))
      BY <1>1 DEF AllSend
    <2>3. Sends(writes[a], updated[a], IF a = auth THEN current ELSE Nil)
      BY <2>2 DEF Sends
    <2>4. Continues(writes[a], updated[a])
      BY <2>1, <2>3, SendsContinues DEF Numbered
    <2> QED BY <2>1, <2>2, <2>4
  <1>7. answers = <<>> => answers' = <<>>
    <2>1. PICK S : S = Completions
      OBVIOUS
    <2>2. answers' \in Seq(S)
      BY <2>1 DEF Types
    <2>3. SameAnswers /\ answers = <<>> => Len(answers') = 0
      BY DEF SameAnswers
    <2> QED BY <1>2, <2>2, <2>3
  <1>8. ASSUME ~stray'
        PROVE  Unstrayed'
    <2>1. Unstrayed /\ ~Stray'
      BY <1>5, <1>8 DEF Inv
    <2>2. current' = Nil \/ (auth' # Nil /\ current'.id = auth')
      BY <1>2, <2>1 DEF Unstrayed
    <2>3. leaving' # Nil /\ auth' = leaving' => current' = Nil
      BY <1>2, <2>1 DEF Unstrayed
    <2>4. ASSUME NEW a \in Accounts
          PROVE  CopiesOwn(a)' /\ NoneOnly(a)'
      <3>1. PICK rec : rec = IF a = auth THEN current ELSE Nil
        OBVIOUS
      <3>2. PICK q, r : q = writes[a] /\ r = writes'[a]
        OBVIOUS
      <3>3. Sends(q, r, rec) /\ (auth = a \/ Grown(q, r, 0))
        BY <1>1, <1>6, <3>1, <3>2 DEF Sends
      <3>4. rec # Nil => rec.id = a
        BY <2>1, <3>1 DEF Unstrayed
      <3>5. CopiesOwn(a)'
        BY <1>6, <2>1, <3>2, <3>3, <3>4, CopiesKept, NilIsNoRecord DEF Unstrayed
      <3>6. rec = Nil \/ rec = current
        BY <3>1
      <3>7. NoneOnly(a)'
        BY <1>2, <1>6, <1>7, <2>1, <3>2, <3>3, <3>6, NoneKept, NilIsNoRecord DEF Unstrayed
      <3> QED BY <3>5, <3>7
    <2> QED BY <2>1, <2>2, <2>3, <2>4 DEF Unstrayed
  <1>9. ASSUME ~overtaken', ~stray', NEW a \in Accounts, auth = a
        PROVE  Mirrors(a)'
    <2>1. ~overtaken /\ ~stray /\ Alone' /\ ~(listening' /\ answers # <<>>)
      BY <1>2, <1>5, <1>9
    <2>2. Mirrors(a)
      BY <2>1, <1>9 DEF Inv
    <2>3. PICK q, r : q = writes[a] /\ r = writes'[a]
      OBVIOUS
    <2>4. Sends(q, r, current) /\ Continues(q, r)
      BY <1>1, <1>6, <1>9, <2>3
    <2>5. Base(a)' = Base(a)
      BY <1>2, <1>6, <2>3, <2>4, BaseSame
    <2>6. Counted(a)' /\ UnderWay(a)' <= 1
      BY <1>2, <1>9, <2>1, CountedNext DEF Alone
    <2>7. fetches'[a] > 0 => current' = Nil
      BY <1>2, <2>2 DEF Mirrors
    <2>8. (\A i \in 1..Len(answers') : answers'[i].failed) => (\A i \in 1..Len(answers) : answers[i].failed)
      <3>1. CASE SameAnswers
        BY <3>1 DEF SameAnswers
      <3>2. CASE answers' = <<>> /\ listening'
        BY <3>2, <2>1
      <3> QED BY <1>2, <3>1, <3>2
    <2>9. current' # Nil /\ (\A i \in 1..Len(answers') : answers'[i].failed) =>
                Base(a)' \in {AsSent(current'), Nil}
      BY <1>2, <2>2, <2>5, <2>8 DEF Mirrors
    <2>10. \A i \in 1..Len(answers') : ~answers'[i].failed => users'[a] = AsSent(answers'[i].write.copy)
      <3>1. CASE SameAnswers
        BY <3>1, <1>2, <2>2 DEF SameAnswers, Mirrors
      <3>2. CASE answers' = <<>>
        BY <3>2
      <3> QED BY <1>2, <3>1, <3>2
    <2>11. Updates(a)' # {} /\ current \in Records => Base(a) \in {AsSent(current), Nil}
      <3> SUFFICES ASSUME Updates(a)' # {}, current \in Records PROVE Base(a) \in {AsSent(current), Nil}
        OBVIOUS
      <3>1. answers' = <<>>
        BY <2>6 DEF Counted
      <3>2. current # Nil
        BY NilIsNoRecord
      <3>3. \A i \in 1..Len(answers') : answers'[i].failed
        BY <3>1
      <3> QED BY <1>2, <2>5, <2>9, <3>2, <3>3
    <2>12. (Base(a) # Nil => \A i \in Updates(a) : MadeFrom(writes[a][i], Base(a)))'
      BY <1>6, <1>9, <2>2, <2>3, <2>4, <2>5, <2>11, UpdatesMade DEF Mirrors
    <2> QED BY <2>7, <2>9, <2>10, <2>12 DEF Mirrors
  <1>10. ~overtaken' => ~Crowded'
    BY <1>5
  <1>11. ~overtaken' /\ ~stray' => \A a \in Accounts : auth' = a => Mirrors(a)'
    BY <1>2, <1>9
  <1> QED BY <1>4, <1>8, <1>10, <1>11 DEF Inv

--------------------------------------------------------------------------------
(* Signing in: nobody was, so nothing was left of anybody.                     *)

(* What is left alone of the queues.                                           *)
LEMMA QueueSame ==
  ASSUME Types, NEW a \in Accounts, writes'[a] = writes[a]
  PROVE  /\ CopiesOwn(a) => CopiesOwn(a)'
         /\ AllFirst(a) /\ users'[a] = users[a] => AllFirst(a)'
         /\ NoneOnly(a) /\ (auth' = a => current' = Nil /\ answers' = <<>>) => NoneOnly(a)'
         /\ NoneOnly(a) /\ auth' # a => NoneOnly(a)'
         /\ Updates(a)' = Updates(a)
         /\ users'[a] = users[a] => Base(a)' = Base(a)
  BY DEF CopiesOwn, AllFirst, NoneOnly, Updates, Base

LEMMA OthersSame ==
  ASSUME Types, Types', NEW b \in Accounts, NEW q, q = writes[b], NEW r, r = writes'[b],
         Grown(q, r, 0), users'[b] = users[b]
  PROVE  /\ AllFirst(b) => AllFirst(b)'
         /\ q = <<>> => r = <<>>
         /\ CopiesOwn(b) => CopiesOwn(b)'
         /\ NoneOnly(b) /\ auth' # b => NoneOnly(b)'
  <1>1. Numbered(b) /\ Numbered(b)' /\ r \in Seq(WritesOf(b))
    BY QueuesNumbered, NumberedNext DEF Types
  <1>2. Len(q) \in Nat /\ Len(r) = Len(q)
    BY <1>1 DEF Numbered, Grown
  <1>3. Sends(q, r, Nil)
    BY DEF Sends
  <1>4. AllFirst(b) => AllFirst(b)'
    <2>1. Continues(q, r)
      BY <1>2, <1>3, SendsContinues
    <2> QED BY <2>1, AllFirstContinues
  <1>5. q = <<>> => r = <<>>
    <2>1. q = <<>> => Len(r) = 0
      BY <1>2
    <2> QED BY <1>1, <2>1
  <1>6. CopiesOwn(b) => CopiesOwn(b)'
    BY <1>1, <1>3, CopiesKept, NilIsNoRecord
  <1>7. NoneOnly(b) /\ auth' # b => NoneOnly(b)'
    BY <1>2 DEF NoneOnly, Grown, SameWrite
  <1> QED BY <1>4, <1>5, <1>6, <1>7

LEMMA LoginTypes ==
  ASSUME Types, NEW a \in Accounts, Login(a)
  PROVE  /\ Types' /\ auth' = a /\ current' = current /\ users' = users /\ answers' = answers
         /\ logins' = logins /\ closed' = closed /\ leaving' = leaving
         /\ fetches' = [fetches EXCEPT ![a] = @ + 1]
         /\ Sends(writes[a], writes'[a], current)
         /\ \A b \in Accounts : b # a => writes'[b] = writes[b]
         /\ current = Nil => writes'[a] = writes[a]
  <1>1. /\ auth' = a /\ current' = current /\ users' = users /\ answers' = answers
        /\ logins' = logins /\ closed' = closed /\ leaving' = leaving /\ oneSignal' = oneSignal
        /\ creating' = creating /\ fetches' = [fetches EXCEPT ![a] = @ + 1]
        /\ playerId' = NewPlayerId /\ writes' = [writes EXCEPT ![a] = PushIdSent(@, current)]
    BY DEF Login, GoToApp, server
  <1>2. PICK q, r : q = writes[a] /\ r = PushIdSent(q, current)
    OBVIOUS
  <1>3. q \in Seq(WritesOf(a)) /\ r \in Seq(WritesOf(a)) /\ Sends(q, r, current)
    BY <1>2, PushIdSends DEF Types
  <1>4. /\ writes' = [writes EXCEPT ![a] = r] /\ DOMAIN writes' = Accounts
        /\ writes'[a] = r /\ \A b \in Accounts : b # a => writes'[b] = writes[b]
    BY <1>1, <1>2 DEF Types
  <1>5. \A b \in Accounts : writes'[b] \in Seq(WritesOf(b))
    BY <1>3, <1>4 DEF Types
  <1>6. playerId' \in {Nil, "player"} /\ fetches' \in [Accounts -> Nat] /\ Calls'
    BY <1>1, PlayerIdIs, CallsSame DEF Types
  <1>7. Types'
    BY <1>1, <1>4, <1>5, <1>6 DEF Types
  <1>8. current = Nil => r = q
    BY <1>2 DEF PushIdSent, Updated
  <1>9. Sends(writes[a], writes'[a], current) /\ (current = Nil => writes'[a] = writes[a])
    BY <1>2, <1>3, <1>4, <1>8
  <1> QED BY <1>1, <1>4, <1>7, <1>9

LEMMA LoginKeeps ==
  ASSUME Inv, NEW a \in Accounts, Login(a), Observe
  PROVE  Inv'
  <1>1. Types /\ Known
    BY DEF Inv
  <1>2. /\ Types' /\ auth' = a /\ current' = current /\ users' = users /\ answers' = answers
        /\ logins' = logins /\ closed' = closed /\ leaving' = leaving
        /\ fetches' = [fetches EXCEPT ![a] = @ + 1]
        /\ Sends(writes[a], writes'[a], current)
        /\ \A b \in Accounts : b # a => writes'[b] = writes[b]
        /\ current = Nil => writes'[a] = writes[a]
    BY <1>1, LoginTypes
  <1>3. a \in logins /\ screen = "welcome" /\ ~listening
    BY DEF Login
  <1>4. /\ ~stray' => ~stray /\ ~Stray'
        /\ ~overtaken' => ~Crowded' /\ Alone'
    BY <1>2, Observed
  <1>5. Known'
    <2>1. AllFirst(a)'
      <3>1. PICK q, r : q = writes[a] /\ r = writes'[a]
        OBVIOUS
      <3>2. Len(q) \in Nat
        BY <1>1, <3>1, QueuesNumbered DEF Numbered
      <3>3. Continues(q, r)
        BY <1>2, <3>1, <3>2, SendsContinues
      <3> QED BY <1>1, <1>2, <3>1, <3>3, AllFirstContinues DEF Known
    <2>2. \A b \in Accounts : b # a => AllFirst(b)'
      BY <1>1, <1>2, QueueSame DEF Known
    <2> QED BY <1>1, <1>2, <1>3, <2>1, <2>2 DEF Known
  <1>6. ASSUME ~stray'
        PROVE  /\ Unstrayed' /\ current' = Nil
    <2>1. Unstrayed /\ ~Stray' /\ Straight
      BY <1>1, <1>4, <1>6, NotStray DEF Inv, Unstrayed
    <2>2. auth = Nil /\ answers = <<>> /\ current = Nil
      BY <1>3, <2>1 DEF Straight, Unstrayed
    <2>3. \A b \in Accounts : writes'[b] = writes[b]
      BY <1>2, <2>2
    <2>4. \A b \in Accounts : CopiesOwn(b)' /\ NoneOnly(b)'
      BY <1>1, <1>2, <2>1, <2>2, <2>3, QueueSame DEF Unstrayed
    <2> QED BY <1>2, <2>1, <2>2, <2>4 DEF Unstrayed
  <1>7. ASSUME ~overtaken', ~stray', NEW b \in Accounts, auth' = b
        PROVE  Mirrors(b)'
    <2>1. b = a /\ Counted(a)' /\ UnderWay(a)' <= 1 /\ current' = Nil
      BY <1>2, <1>4, <1>6, <1>7, CountedNext DEF Alone
    <2>2. fetches'[a] > 0
      BY <1>1, <1>2 DEF Types
    <2>3. Updates(a)' = {} /\ answers' = <<>>
      BY <2>1, <2>2 DEF Counted
    <2> QED BY <2>1, <2>3 DEF Mirrors
  <1> QED BY <1>2, <1>4, <1>5, <1>6, <1>7 DEF Inv

LEMMA SavedIs ==
  ASSUME NEW a \in Accounts, NEW q, q = Saved(<<>>, a)
  PROVE  q \in Seq(WritesOf(a)) /\ Len(q) = 1 /\ q[1].field = "all"
  <1>1. PICK w : w = Silent("all", NewUser(a))
    OBVIOUS
  <1>2. w \in WritesOf(a) /\ w.field = "all" /\ q = <<w>>
    <2>1. q = Append(<<>>, w)
      BY <1>1 DEF Saved
    <2> QED BY <1>1, <2>1 DEF WritesOf, Silent
  <1>3. PICK S : S = WritesOf(a)
    OBVIOUS
  <1>4. q \in Seq(S) /\ Len(q) = 1 /\ q[1] = w
    <2>1. w \in S /\ q = <<w>>
      BY <1>2, <1>3
    <2>2. <<w>> \in Seq(S) /\ Len(<<w>>) = 1 /\ <<w>>[1] = w
      BY <2>1
    <2> QED BY <2>1, <2>2, Zenon
  <1>5. w.field = "all"
    BY <1>1 DEF Silent
  <1> QED BY <1>3, <1>4, <1>5

StartsNew(q) == q[1].field = "all"

(* The queue of a new account: its document, if that is still to be sent, and  *)
(* one update of the new user.                                                 *)
Born(a, r) ==
  /\ Len(r) \in {1, 2} /\ (Len(r) = 2 => StartsNew(r))
  /\ IsUpdate(r[Len(r)]) /\ r[Len(r)].copy.id = a
  /\ ~overtaken' => MadeFrom(r[Len(r)], NewUser(a))

LEMMA BornIs ==
  ASSUME NEW a \in Accounts, NEW n, n = NewUser(a), NEW q, Len(q) \in {0, 1},
         Len(q) = 1 => StartsNew(q), NEW r, Len(r) = Len(q) + 1, Sends(q, r, n)
  PROVE  Born(a, r)
  <1>1. n \in Records /\ n.id = a /\ AsSent(n) = n
    <2>1. n.updatedAt = "registered"
      BY DEF NewUser
    <2> QED BY <2>1, NewUserIs, AsSentIs
  <1>2. /\ Grown(q, r, 1) /\ IsUpdate(r[Len(r)]) /\ r[Len(r)].copy.id = a
        /\ ~overtaken' => MadeFrom(r[Len(r)], n)
    <2>1. ~Grown(q, r, 0)
      BY DEF Grown
    <2> QED BY <1>1, <2>1 DEF Sends
  <1>3. Len(r) = 2 => StartsNew(r)
    <2>1. Len(r) = 2 => Len(q) = 1 /\ r[1].field = q[1].field
      BY <1>2 DEF Grown, SameWrite
    <2> QED BY <2>1 DEF StartsNew
  <1>4. Len(r) \in {1, 2}
    <2>1. PICK k, l : k = Len(q) /\ l = Len(r)
      OBVIOUS
    <2>2. k \in {0, 1} /\ l = k + 1
      BY <2>1
    <2>3. l \in {1, 2}
      BY <2>2
    <2> QED BY <2>1, <2>3
  <1> QED BY <1>2, <1>3, <1>4, Zenon DEF Born

(* Signed in as a new account, of which nobody has known anything.             *)
LEMMA BornKeeps ==
  ASSUME Inv, Types', Observe, NEW a \in Accounts, a \notin logins \cup closed,
         auth' = a, NEW n, n = NewUser(a), current' = n, users' = users, closed' = closed,
         a \in logins', logins \subseteq logins', leaving' \in {leaving, Nil},
         NEW r, r = writes'[a], Born(a, r),
         \A b \in Accounts : b # a => Grown(writes[b], writes'[b], 0)
  PROVE  Inv'
  <1>1. Types /\ Known
    BY DEF Inv
  <1>2. users[a] = Nil
    BY <1>1 DEF Known
  <1>3. n \in Records /\ n # Nil /\ n.id = a /\ AsSent(n) = n
    <2>1. n.updatedAt = "registered"
      BY DEF NewUser
    <2> QED BY <2>1, NewUserIs, AsSentIs
  <1>4. /\ Len(r) \in {1, 2} /\ (Len(r) = 2 => r[1].field = "all")
        /\ IsUpdate(r[Len(r)]) /\ r[Len(r)].copy.id = a
        /\ ~overtaken' => MadeFrom(r[Len(r)], n)
    BY DEF Born, StartsNew
  <1>5. DOMAIN r = 1..Len(r) /\ r # <<>>
    <2>1. r \in Seq(WritesOf(a))
      BY DEF Types
    <2> QED BY <2>1, <1>4
  <1>6. /\ r[Len(r)].field # "all" /\ r[Len(r)].field # "none"
        /\ \A i \in 1..Len(r) : i # Len(r) => i = 1 /\ Len(r) = 2 /\ ~IsUpdate(r[i])
    BY <1>4 DEF IsUpdate, Fields
  <1>7. /\ ~stray' => ~stray /\ ~Stray'
        /\ ~overtaken' => ~Crowded' /\ Alone'
    BY Observed
  <1>8. ASSUME NEW b \in Accounts, b # a
        PROVE  /\ AllFirst(b)' /\ (writes[b] = <<>> => writes'[b] = <<>>)
               /\ CopiesOwn(b) => CopiesOwn(b)'
               /\ NoneOnly(b) => NoneOnly(b)'
    <2>1. PICK q, s : q = writes[b] /\ s = writes'[b] /\ Grown(q, s, 0)
      BY <1>8
    <2> QED BY <1>1, <1>8, <2>1, OthersSame DEF Known
  <1>9. Known'
    <2>1. AllFirst(a)'
      <3> SUFFICES ASSUME NEW i \in 1..Len(r), r[i].field = "all"
                   PROVE  i = 1 /\ Len(r) > 1 /\ IsUpdate(r[2]) /\ users[a] = Nil
        BY DEF AllFirst, IsUpdate
      <3>1. i # Len(r)
        BY <1>6
      <3> QED BY <1>2, <1>4, <1>6, <3>1
    <2> QED BY <1>1, <1>8, <2>1 DEF Known
  <1>10. ASSUME ~stray'
         PROVE  Unstrayed'
    <2>1. Unstrayed /\ ~Stray'
      BY <1>7, <1>10 DEF Inv
    <2>2. leaving' # Nil => leaving' # a
      BY <1>1 DEF Known
    <2>3. CopiesOwn(a)'
      <3> SUFFICES ASSUME NEW i \in Updates(a)' PROVE r[i].copy.id = a
        BY DEF CopiesOwn
      <3>1. i \in 1..Len(r) /\ IsUpdate(r[i])
        BY <1>5 DEF Updates, IsUpdate
      <3> QED BY <3>1, <1>4, <1>6
    <2>4. NoneOnly(a)'
      <3>1. \A i \in 1..Len(r) : r[i].field # "none"
        BY <1>4, <1>6
      <3> QED BY <3>1 DEF NoneOnly
    <2>5. a # Nil
      BY NilIsNoRecord
    <2> QED BY <1>3, <1>8, <2>1, <2>2, <2>3, <2>4, <2>5 DEF Unstrayed
  <1>11. ASSUME ~overtaken', NEW b \in Accounts, auth' = b
         PROVE  Mirrors(b)'
    <2>1. b = a /\ Counted(a)' /\ UnderWay(a)' <= 1
      BY <1>7, <1>11, CountedNext DEF Alone
    <2>2. PICK k : k = Len(r)
      OBVIOUS
    <2>3. k \in Updates(a)'
      BY <1>4, <1>5, <2>2 DEF Updates, IsUpdate
    <2>4. answers' = <<>> /\ fetches'[a] = 0 /\ \A i \in Updates(a)' : i = k
      BY <2>1, <2>3 DEF Counted
    <2>5. Base(a)' \in {n, Nil}
      <3>1. CASE r[1].field = "all"
        BY <3>1, <1>5 DEF Base, NewUser
      <3>2. CASE r[1].field # "all"
        BY <3>2, <1>2 DEF Base
      <3> QED BY <3>1, <3>2
    <2>6. (Base(a) # Nil => \A i \in Updates(a) : MadeFrom(writes[a][i], Base(a)))'
      BY <1>4, <1>11, <2>2, <2>4, <2>5
    <2>7. \A i \in 1..Len(answers') : FALSE
      BY <2>4
    <2> QED BY <1>3, <2>1, <2>4, <2>5, <2>6, <2>7 DEF Mirrors
  <1> QED BY <1>7, <1>9, <1>10, <1>11 DEF Inv

LEMMA ProfileSends ==
  ASSUME NEW a \in Accounts, NEW q, q = Saved(<<>>, a), NEW n, n = NewUser(a),
         NEW r, r \in {ProfileWritten(q, n), EmptyWritten(q, n)}
  PROVE  r \in Seq(WritesOf(a)) /\ Born(a, r)
  <1>1. q \in Seq(WritesOf(a)) /\ Len(q) = 1 /\ q[1].field = "all"
    BY SavedIs
  <1>2. n \in Records /\ n # Nil
    BY NewUserIs
  <1>3. PICK p \in {"full", "empty"}, then \in {"finish", "finished"} :
           r = Updated(q, n, "profile", p, then, Nil)
    BY DEF ProfileWritten, EmptyWritten
  <1>4. Changed(n, "profile", p, Nil) /\ then \in Thens
    BY <1>2, ProfileChanged DEF Thens
  <1>5. r \in Seq(WritesOf(a)) /\ Sends(q, r, n)
    BY <1>1, <1>2, <1>3, <1>4, UpdatedSends
  <1>6. Len(r) = Len(q) + 1
    BY <1>1, <1>2, <1>3, UpdatedAppends
  <1>7. StartsNew(q)
    BY <1>1 DEF StartsNew
  <1> QED BY <1>1, <1>5, <1>6, <1>7, BornIs

LEMMA RegisteredKeeps ==
  ASSUME Inv, NEW a \in Accounts, creating[a] # "no", Observe, NEW r,
         r \in {ProfileWritten(Saved(writes[a], a), NewUser(a)),
                EmptyWritten(Saved(writes[a], a), NewUser(a))},
         writes' = [writes EXCEPT ![a] = r], auth' = a, current' = NewUser(a),
         logins' = logins \cup {a}, creating' = [creating EXCEPT ![a] = "no"],
         UNCHANGED <<playerId, oneSignal, closed, users, answers, fetches, leaving>>
  PROVE  Inv'
  <1>1. Types /\ Known
    BY DEF Inv
  <1>2. a \notin logins \cup closed /\ writes[a] = <<>>
    BY <1>1 DEF Types, Calls, Known
  <1>3. PICK n, q : n = NewUser(a) /\ q = Saved(<<>>, a)
    OBVIOUS
  <1>4. r \in Seq(WritesOf(a)) /\ Born(a, r)
    BY <1>2, <1>3, ProfileSends
  <1>5. /\ DOMAIN writes' = Accounts /\ writes'[a] = r
        /\ \A b \in Accounts : b # a => writes'[b] = writes[b]
    BY <1>1 DEF Types
  <1>6. \A b \in Accounts : b # a => Grown(writes[b], writes'[b], 0)
    BY <1>1, <1>5, GrownSame DEF Types
  <1>7. Types'
    <2>1. \A b \in Accounts : writes'[b] \in Seq(WritesOf(b))
      BY <1>1, <1>4, <1>5 DEF Types
    <2>2. Calls'
      BY <1>1 DEF Types, Calls
    <2>3. NewUser(a) \in Records
      BY NewUserIs
    <2> QED BY <1>1, <1>5, <2>1, <2>2, <2>3 DEF Types
  <1> QED BY <1>2, <1>3, <1>4, <1>5, <1>6, <1>7, BornKeeps

(* The process that cannot draw a picture of no name is started anew.          *)
LEMMA TrappedKeeps ==
  ASSUME Inv, NEW a \in Accounts, creating[a] # "no", Observe,
         NEW queue \in {writes[a], Saved(writes[a], a)},
         RestartWith(a, NewUser(a), [writes EXCEPT ![a] = queue])
  PROVE  Inv'
  <1>1. Types /\ Known
    BY DEF Inv
  <1>2. a \notin logins \cup closed /\ writes[a] = <<>>
    BY <1>1 DEF Types, Calls, Known
  <1>3. PICK n, queues : n = NewUser(a) /\ queues = [writes EXCEPT ![a] = queue]
    OBVIOUS
  <1>4. queue \in Seq(WritesOf(a)) /\ Len(queue) \in {0, 1} /\ (Len(queue) = 1 => queue[1].field = "all")
    <2>1. CASE queue = <<>>
      BY <2>1
    <2>2. CASE queue = Saved(<<>>, a)
      BY <2>2, SavedIs
    <2> QED BY <1>2, <2>1, <2>2
  <1>5. /\ DOMAIN queues = Accounts /\ queues[a] = queue
        /\ \A b \in Accounts : b # a => queues[b] = writes[b]
        /\ \A b \in Accounts : queues[b] \in Seq(WritesOf(b))
    BY <1>1, <1>3, <1>4 DEF Types
  <1>6. n \in Records /\ n # Nil /\ a # Nil
    BY <1>3, NewUserIs, NilIsNoRecord
  <1>7. RestartWith(a, n, queues)
    BY <1>3
  <1>8. /\ auth' = a /\ current' = n /\ users' = users /\ closed' = closed /\ leaving' = Nil
        /\ logins \subseteq logins' /\ a \in logins' \cup {Nil} /\ Types'
        /\ \E updated : AllSend(queues, updated, a, n) /\ writes' = updated
        /\ a # Nil /\ n # Nil => OneMore(queues[a], writes'[a])
    <2>1. Restarted(a, n, queues)
      BY <1>1, <1>5, <1>6, <1>7, RestartIs
    <2> QED BY <2>1 DEF Restarted
  <1>9. PICK updated : AllSend(queues, updated, a, n) /\ writes' = updated
    BY <1>8
  <1>10. \A b \in Accounts : b # a => Grown(writes[b], writes'[b], 0)
    BY <1>5, <1>9 DEF AllSend
  <1>11. PICK r : r = writes'[a] /\ Sends(queue, r, n) /\ Len(r) = Len(queue) + 1
    BY <1>5, <1>6, <1>8, <1>9 DEF AllSend, OneMore
  <1>12. Born(a, r)
    <2>1. Len(queue) = 1 => StartsNew(queue)
      BY <1>4 DEF StartsNew
    <2> QED BY <1>3, <1>4, <1>11, <2>1, BornIs
  <1>13. a \in logins'
    BY <1>6, <1>8
  <1> QED BY <1>2, <1>3, <1>8, <1>10, <1>11, <1>12, <1>13, BornKeeps

LEMMA RegisterKeeps ==
  ASSUME Inv, NEW a \in Accounts, Registered(a) \/ RegisteredLate(a), Observe
  PROVE  Inv'
  <1>1. CASE Registered(a)
    <2>1. PICK r : r = ProfileWritten(Saved(writes[a], a), NewUser(a))
      OBVIOUS
    <2>2. /\ creating[a] # "no" /\ writes' = [writes EXCEPT ![a] = r] /\ auth' = a
          /\ current' = NewUser(a) /\ logins' = logins \cup {a}
          /\ creating' = [creating EXCEPT ![a] = "no"]
          /\ UNCHANGED <<playerId, oneSignal, closed, users, answers, fetches, leaving>>
      BY <1>1, <2>1 DEF Registered
    <2> QED BY <2>1, <2>2, RegisteredKeeps
  <1>2. CASE RegisteredLate(a)
    <2>1. creating[a] # "no"
      BY <1>2 DEF RegisteredLate
    <2>2. ASSUME NEW queue \in {writes[a], Saved(writes[a], a)},
                 RestartWith(a, NewUser(a), [writes EXCEPT ![a] = queue])
          PROVE  Inv'
      BY <2>1, <2>2, TrappedKeeps
    <2>3. PICK r : r = EmptyWritten(Saved(writes[a], a), NewUser(a))
      OBVIOUS
    <2>4. ASSUME auth' = a, current' = NewUser(a), logins' = logins \cup {a},
                 writes' = [writes EXCEPT ![a] = r],
                 creating' = [creating EXCEPT ![a] = "no"],
                 UNCHANGED <<playerId, oneSignal, closed, users, answers, fetches, leaving>>
          PROVE  Inv'
      BY <2>1, <2>3, <2>4, RegisteredKeeps
    <2> QED BY <1>2, <2>2, <2>3, <2>4 DEF RegisteredLate
  <1> QED BY <1>1, <1>2

--------------------------------------------------------------------------------
(* The answers to what was asked: the document, behind the queue.              *)

(* Induction over the natural numbers, for a set of them. *)
LEMMA SetInduction ==
  ASSUME NEW T, 0 \in T, \A n \in Nat : n \in T => n + 1 \in T
  PROVE  \A n \in Nat : n \in T
  <1> SUFFICES ASSUME NEW n \in Nat, n \notin T PROVE FALSE
    OBVIOUS
  <1> DEFINE M == {k \in Nat : k \notin T}
  <1>1. M # {} /\ M \subseteq Nat
    OBVIOUS
  <1>2. IsWellFoundedOn(OpToRel(<, Nat), Nat)
    BY NatLessThanWellFounded
  <1> HIDE DEF M
  <1>3. \E x \in M : \A y \in M : ~ (<<y, x>> \in OpToRel(<, Nat))
    BY <1>1, <1>2, WFMin
  <1>4. PICK x \in M : \A y \in M : ~ (y < x)
    BY <1>3, <1>1 DEF OpToRel
  <1>5. x \in Nat /\ x \notin T /\ x # 0
    BY <1>4 DEF M
  <1>6. x - 1 \in Nat /\ x - 1 < x /\ (x - 1) + 1 = x
    BY <1>5
  <1>7. x - 1 \in T
    BY <1>6, <1>4 DEF M
  <1> QED BY <1>5, <1>6, <1>7

LEMMA AppliedIs ==
  ASSUME NEW a \in Accounts, NEW d \in DocsOf(a), NEW w \in WritesOf(a)
  PROVE  /\ Applied(d, w) \in DocsOf(a)
         /\ w.field = "none" => Applied(d, w) = Nil
         /\ w.field = "all" => Applied(d, w) = NewUser(a)
         /\ IsUpdate(w) => Applied(d, w) = IF d = Nil THEN Nil
                                           ELSE [d EXCEPT ![w.field] = w.copy[w.field]]
  <1>1. /\ IsUpdate(w) => w \in UpdateWrites /\ w.copy \in Records /\ w.field \in Fields
        /\ ~IsUpdate(w) => w.field \in {"all", "none"}
        /\ w.field = "all" => w.copy = NewUser(a)
        /\ w.field = "none" => w.copy = Nil
    BY WriteIs
  <1>2. CASE ~IsUpdate(w)
    <2>1. w.field \in {"all", "none"}
      BY <1>1, <1>2
    <2>2. w.field \notin Fields
      BY <2>1 DEF Fields
    <2>3. Applied(d, w) = w.copy
      BY <2>1, <2>2 DEF Applied
    <2>4. NewUser(a).updatedAt = "registered"
      BY DEF NewUser
    <2> QED BY <1>1, <1>2, <2>1, <2>3, <2>4, NewUserIs DEF DocsOf
  <1>3. CASE IsUpdate(w)
    <2>1. w.field \notin {"all", "none"}
      BY <1>3 DEF IsUpdate, Fields
    <2>2. CASE d = Nil
      BY <1>1, <1>3, <2>1, <2>2 DEF Applied, DocsOf
    <2>3. CASE d # Nil
      <3>1. Applied(d, w) = [d EXCEPT ![w.field] = w.copy[w.field]]
        BY <1>1, <1>3, <2>1, <2>3 DEF Applied
      <3>2. PICK f \in Fields, s \in Records : f = w.field /\ s = w.copy
        BY <1>1, <1>3
      <3>3. d \in Records /\ d.id = a /\ d.updatedAt = "registered"
        BY <2>3 DEF DocsOf
      <3>4. PICK e : e = [d EXCEPT ![f] = s[f]]
        OBVIOUS
      <3>5. e \in Records /\ e.id = a /\ e.updatedAt = "registered"
        BY <3>2, <3>3, <3>4 DEF Records, Fields
      <3> QED BY <2>1, <2>3, <3>1, <3>2, <3>4, <3>5 DEF DocsOf
    <2> QED BY <2>2, <2>3
  <1> QED BY <1>2, <1>3

(* after tells what the first n writes of q make of d.                         *)
Afters(after, d, q, n) ==
  /\ after[0] = d
  /\ \A m \in 1..n : after[m] = Applied(after[m - 1], q[m])

LEMMA AftersExist ==
  ASSUME NEW d, NEW q, Len(q) \in Nat
  PROVE  \E after : DOMAIN after = 0..Len(q) /\ after = [n \in 0..Len(q) |-> after[n]]
                    /\ Afters(after, d, q, Len(q))
  <1> DEFINE T == {n \in Nat : \E f : /\ DOMAIN f = 0..n /\ f = [m \in 0..n |-> f[m]]
                                      /\ Afters(f, d, q, n)}
  <1>1. 0 \in T
    <2> DEFINE f == [m \in 0..0 |-> d]
    <2>1. DOMAIN f = 0..0 /\ f = [m \in 0..0 |-> f[m]] /\ Afters(f, d, q, 0)
      BY DEF Afters
    <2> QED BY <2>1
  <1>2. ASSUME NEW n \in Nat, n \in T
        PROVE  n + 1 \in T
    <2>1. PICK f : DOMAIN f = 0..n /\ f = [m \in 0..n |-> f[m]] /\ Afters(f, d, q, n)
      BY <1>2
    <2> DEFINE v == Applied(f[n], q[n + 1])
               g == [m \in 0..(n + 1) |-> IF m <= n THEN f[m] ELSE v]
    <2> HIDE DEF v
    <2>2. /\ DOMAIN g = 0..(n + 1) /\ g = [m \in 0..(n + 1) |-> g[m]]
          /\ \A m \in 0..n : g[m] = f[m]
          /\ g[n + 1] = v
      OBVIOUS
    <2> HIDE DEF g
    <2>3. g[0] = d
      BY <2>1, <2>2 DEF Afters
    <2>4. ASSUME NEW m \in 1..(n + 1)
          PROVE  g[m] = Applied(g[m - 1], q[m])
      <3>1. CASE m <= n
        <4>1. m \in 1..n /\ m \in 0..n /\ m - 1 \in 0..n
          BY <3>1
        <4> QED BY <4>1, <2>1, <2>2 DEF Afters
      <3>2. CASE m = n + 1
        <4>1. m - 1 = n /\ n \in 0..n
          BY <3>2
        <4> QED BY <4>1, <3>2, <2>2 DEF v
      <3> QED BY <3>1, <3>2
    <2>5. Afters(g, d, q, n + 1)
      BY <2>3, <2>4 DEF Afters
    <2> QED BY <2>2, <2>5
  <1> HIDE DEF T
  <1>3. \A n \in Nat : n \in T
    BY <1>1, <1>2, SetInduction
  <1> QED BY <1>3 DEF T

(* What a signed-in client reads. *)
LEMMA SeenAfters ==
  ASSUME NEW a, auth = a, Len(writes[a]) \in Nat
  PROVE  \E after : /\ Afters(after, users[a], writes[a], Len(writes[a]))
                    /\ Seen(a) = after[Len(writes[a])]
  <1> DEFINE q == writes[a]
             Eq(f) == f = [n \in 0..Len(q) |->
                        IF n = 0 THEN users[a] ELSE Applied(f[n - 1], q[n])]
             h == CHOOSE f : Eq(f)
  <1>1. PICK g : DOMAIN g = 0..Len(q) /\ g = [n \in 0..Len(q) |-> g[n]]
                 /\ Afters(g, users[a], q, Len(q))
    BY AftersExist
  <1>2. Eq(g)
    <2>1. ASSUME NEW n \in 0..Len(q)
          PROVE  g[n] = IF n = 0 THEN users[a] ELSE Applied(g[n - 1], q[n])
      <3>1. n = 0 \/ n \in 1..Len(q)
        OBVIOUS
      <3> QED BY <3>1, <1>1 DEF Afters
    <2> QED BY <2>1, <1>1
  <1>3. Eq(h)
    BY <1>2
  <1>4. Seen(a) = h[Len(q)]
    BY DEF Seen
  <1>5. \A n \in 0..Len(q) : h[n] = IF n = 0 THEN users[a] ELSE Applied(h[n - 1], q[n])
    BY <1>3
  <1> HIDE DEF h, Eq
  <1>6. Afters(h, users[a], q, Len(q))
    <2>1. 0 \in 0..Len(q) /\ \A m \in 1..Len(q) : m \in 0..Len(q) /\ m # 0
      OBVIOUS
    <2> QED BY <2>1, <1>5 DEF Afters
  <1> QED BY <1>4, <1>6

LEMMA SeenIs ==
  ASSUME Types, Known, NEW a \in Accounts
  PROVE  /\ Seen(a) \in DocsOf(a)
         /\ writes[a] = <<>> => Seen(a) = users[a]
         /\ auth = a /\ writes[a] # <<>> /\ writes[a][Len(writes[a])].field = "none" => Seen(a) = Nil
  <1>1. users[a] \in DocsOf(a)
    BY DEF Types, Known
  <1>2. CASE auth # a
    <2>1. Seen(a) = users[a]
      BY <1>2 DEF Seen
    <2> QED BY <2>1, <1>1, <1>2
  <1>3. CASE auth = a
    <2>1. PICK q : q = writes[a] /\ q \in Seq(WritesOf(a))
      BY DEF Types
    <2>2. Len(q) \in Nat /\ (q # <<>> => Len(q) # 0) /\ \A i \in 1..Len(q) : q[i] \in WritesOf(a)
      BY <2>1
    <2>3. PICK after : Afters(after, users[a], q, Len(q)) /\ Seen(a) = after[Len(q)]
      BY <1>3, <2>1, <2>2, SeenAfters
    <2> DEFINE T == {n \in Nat : n <= Len(q) => after[n] \in DocsOf(a)}
    <2>4. 0 \in T
      BY <1>1, <2>3 DEF Afters
    <2>5. ASSUME NEW n \in Nat, n \in T, n + 1 <= Len(q)
          PROVE  after[n + 1] \in DocsOf(a)
      <3>1. n <= Len(q) /\ n + 1 \in 1..Len(q) /\ (n + 1) - 1 = n
        BY <2>2, <2>5
      <3>2. PICK d \in DocsOf(a), w \in WritesOf(a) : d = after[n] /\ w = q[n + 1]
        BY <2>2, <2>5, <3>1
      <3>3. after[n + 1] = Applied(d, w)
        BY <2>3, <3>1, <3>2 DEF Afters
      <3> QED BY <3>2, <3>3, AppliedIs
    <2>6. \A n \in Nat : n \in T => n + 1 \in T
      BY <2>5
    <2> HIDE DEF T
    <2>7. \A n \in Nat : n \in T
      BY <2>4, <2>6, SetInduction
    <2>8. \A n \in 0..Len(q) : after[n] \in DocsOf(a)
      BY <2>2, <2>7 DEF T
    <2>9. q = <<>> => Seen(a) = users[a]
      BY <2>3 DEF Afters
    <2>10. q # <<>> /\ q[Len(q)].field = "none" => Seen(a) = Nil
      <3> SUFFICES ASSUME q # <<>>, q[Len(q)].field = "none" PROVE Seen(a) = Nil
        OBVIOUS
      <3>1. Len(q) \in 1..Len(q) /\ Len(q) - 1 \in 0..Len(q)
        BY <2>2
      <3>2. PICK d \in DocsOf(a), w \in WritesOf(a) : d = after[Len(q) - 1] /\ w = q[Len(q)]
        BY <2>2, <2>8, <3>1
      <3>3. Seen(a) = Applied(d, w)
        BY <2>3, <3>1, <3>2 DEF Afters
      <3> QED BY <3>2, <3>3, AppliedIs
    <2>11. Seen(a) \in DocsOf(a)
      BY <2>2, <2>3, <2>8
    <2> QED BY <2>1, <2>9, <2>10, <2>11
  <1> QED BY <1>2, <1>3

(* Where no update is queued, all that may be is the deletion of the document. *)
LEMMA NoUpdate ==
  ASSUME Types, NEW a \in Accounts, AllFirst(a), Updates(a) = {}
  PROVE  /\ \A i \in 1..Len(writes[a]) : writes[a][i].field = "none"
         /\ Base(a) = users[a]
  <1>1. PICK q : q = writes[a] /\ q \in Seq(WritesOf(a))
    BY DEF Types
  <1>2. /\ Len(q) \in Nat /\ DOMAIN q = 1..Len(q) /\ (q # <<>> => Len(q) # 0)
        /\ \A i \in 1..Len(q) : q[i] \in WritesOf(a)
    BY <1>1
  <1>3. \A i \in 1..Len(q) : ~IsUpdate(q[i])
    BY <1>1, <1>2 DEF Updates
  <1>4. ASSUME NEW i \in 1..Len(q)
        PROVE  q[i].field = "none"
    <2>1. q[i].field \in {"all", "none"}
      BY <1>2, <1>3, WriteIs
    <2>2. q[i].field # "all"
      <3> SUFFICES ASSUME q[i].field = "all" PROVE FALSE
        OBVIOUS
      <3>1. Len(q) > 1 /\ IsUpdate(q[2])
        BY <1>1 DEF AllFirst
      <3>2. 2 \in 1..Len(q)
        BY <1>2, <3>1
      <3> QED BY <3>1, <3>2, <1>3
    <2> QED BY <2>1, <2>2
  <1>5. q # <<>> => q[1].field = "none"
    BY <1>2, <1>4
  <1>6. Base(a) = users[a]
    BY <1>1, <1>5 DEF Base
  <1> QED BY <1>1, <1>4, <1>6

LEMMA FetchTypes ==
  ASSUME Types, Known, NEW a \in Accounts, FetchAnswer(a) \/ FetchFails(a)
  PROVE  /\ auth' = auth /\ users' = users /\ writes' = writes /\ answers' = answers
         /\ logins' = logins /\ closed' = closed /\ leaving' = leaving
         /\ fetches[a] > 0 /\ fetches'[a] = fetches[a] - 1
         /\ current' = current \/ (Seen(a) # Nil /\ current' = Seen(a))
         /\ Types'
  <1>1. /\ auth' = auth /\ users' = users /\ writes' = writes /\ answers' = answers
        /\ logins' = logins /\ closed' = closed /\ leaving' = leaving
        /\ playerId' = playerId /\ oneSignal' = oneSignal /\ creating' = creating
        /\ fetches[a] > 0 /\ fetches' = [fetches EXCEPT ![a] = @ - 1]
        /\ current' = current \/ (Seen(a) # Nil /\ current' = Seen(a))
    BY DEF FetchAnswer, FetchFails, device, server
  <1>2. fetches[a] - 1 \in Nat /\ fetches'[a] = fetches[a] - 1
    BY <1>1 DEF Types
  <1>3. fetches' \in [Accounts -> Nat]
    BY <1>1, <1>2 DEF Types
  <1>4. current' \in Records \cup {Nil}
    BY <1>1, SeenIs DEF Types, DocsOf
  <1>5. Calls'
    BY <1>1, CallsSame DEF Types
  <1>6. Types'
    BY <1>1, <1>3, <1>4, <1>5 DEF Types
  <1> QED BY <1>1, <1>2, <1>6

LEMMA FetchKeeps ==
  ASSUME Inv, NEW a \in Accounts, FetchAnswer(a) \/ FetchFails(a), Observe
  PROVE  Inv'
  <1>1. Types /\ Known
    BY DEF Inv
  <1>2. /\ auth' = auth /\ users' = users /\ writes' = writes /\ answers' = answers
        /\ logins' = logins /\ closed' = closed /\ leaving' = leaving
        /\ fetches[a] > 0 /\ fetches'[a] = fetches[a] - 1
        /\ current' = current \/ (Seen(a) # Nil /\ current' = Seen(a))
        /\ Types'
    BY <1>1, FetchTypes
  <1>3. /\ ~stray' => ~stray /\ ~Stray'
        /\ ~overtaken' => ~Crowded' /\ Alone' /\ (auth' \in {auth, Nil} => ~overtaken)
    BY <1>2, Observed
  <1>4. Known'
    <2>1. \A b \in Accounts : AllFirst(b)'
      BY <1>1, <1>2, QueueSame DEF Known
    <2> QED BY <1>1, <1>2, <2>1 DEF Known
  <1>5. /\ Seen(a) \in DocsOf(a)
        /\ writes[a] = <<>> => Seen(a) = users[a]
        /\ auth = a /\ writes[a] # <<>> /\ writes[a][Len(writes[a])].field = "none" => Seen(a) = Nil
    BY <1>1, SeenIs
  <1>6. PICK q : q = writes[a] /\ Len(q) \in Nat /\ (q # <<>> => Len(q) \in 1..Len(q))
    <2>1. PICK q : q = writes[a] /\ q \in Seq(WritesOf(a))
      BY <1>1 DEF Types
    <2> QED BY <2>1
  <1>7. ASSUME ~stray'
        PROVE  Unstrayed' /\ auth = a
    <2>1. Unstrayed /\ ~Stray' /\ Straight
      BY <1>1, <1>3, <1>7, NotStray DEF Inv, Unstrayed
    <2>2. auth = a
      BY <1>2, <2>1 DEF Straight
    <2>3. leaving # a
      <3>1. Counted(a)
        BY <1>1, UpdatesCounted
      <3> QED BY <3>1, <1>2, <2>1 DEF Straight, Counted
    <2>4. current' = Nil \/ (auth' # Nil /\ current'.id = auth')
      BY <1>2, <1>5, <2>1, <2>2, NilIsNoRecord DEF DocsOf, Unstrayed
    <2>5. NoneOnly(a)'
      <3> SUFFICES ASSUME NEW i \in 1..Len(q), q[i].field = "none"
                   PROVE  /\ \A j \in 1..Len(q) : q[j].field = "none"
                          /\ current' = Nil /\ answers' = <<>>
        BY <1>2, <1>6 DEF NoneOnly
      <3>1. /\ \A j \in 1..Len(q) : q[j].field = "none"
            /\ current = Nil /\ answers = <<>>
        BY <1>6, <2>1, <2>2 DEF Unstrayed, NoneOnly
      <3>2. q # <<>> /\ Len(q) \in 1..Len(q)
        BY <1>6
      <3>3. Seen(a) = Nil
        BY <1>5, <1>6, <2>2, <3>1, <3>2
      <3> QED BY <1>2, <3>1, <3>3
    <2>6. \A b \in Accounts : b # a => NoneOnly(b)'
      BY <1>1, <1>2, <2>1, <2>2, QueueSame DEF Unstrayed
    <2>7. \A b \in Accounts : CopiesOwn(b)'
      BY <1>1, <1>2, <2>1, QueueSame DEF Unstrayed
    <2>8. leaving' # Nil /\ auth' = leaving' => current' = Nil
      BY <1>2, <2>2, <2>3
    <2> QED BY <2>1, <2>2, <2>4, <2>5, <2>6, <2>7, <2>8 DEF Unstrayed
  <1>8. ASSUME ~overtaken', ~stray', NEW b \in Accounts, auth' = b
        PROVE  Mirrors(b)'
    <2>1. b = a /\ auth = a /\ ~overtaken /\ ~stray
      BY <1>2, <1>3, <1>7, <1>8
    <2>2. Mirrors(a) /\ ~Crowded
      BY <2>1 DEF Inv
    <2>3. Counted(a) /\ UnderWay(a) <= 1
      BY <1>1, <2>1, <2>2, UpdatesCounted, NotCrowded DEF Alone
    <2>4. Updates(a) = {} /\ answers = <<>> /\ fetches[a] = 1
      <3>1. fetches[a] <= 1 /\ (Updates(a) # {} => fetches[a] = 0) /\ (answers # <<>> => fetches[a] = 0)
        BY <2>3 DEF Counted
      <3>2. fetches[a] \in Nat
        BY <1>1 DEF Types
      <3> QED BY <3>1, <3>2, <1>2
    <2>5. current = Nil
      BY <1>2, <2>2 DEF Mirrors
    <2>6. (\A i \in 1..Len(q) : q[i].field = "none") /\ Base(a) = users[a]
      BY <1>1, <1>6, <2>4, NoUpdate DEF Known
    <2>7. Updates(a)' = {} /\ Base(a)' = users[a]
      BY <1>1, <1>2, <2>4, <2>6, QueueSame
    <2>8. current' # Nil => users[a] = AsSent(current')
      <3> SUFFICES ASSUME current' # Nil PROVE users[a] = AsSent(current')
        OBVIOUS
      <3>1. Seen(a) # Nil /\ current' = Seen(a)
        BY <1>2, <2>5
      <3>2. q = <<>>
        BY <1>5, <1>6, <2>1, <2>6, <3>1
      <3>3. PICK c : c = current' /\ c = users[a] /\ c \in DocsOf(a) /\ c # Nil
        BY <1>5, <1>6, <3>1, <3>2
      <3>4. AsSent(c) = c
        BY <3>3, AsSentIs DEF DocsOf
      <3> QED BY <3>3, <3>4
    <2>9. fetches'[a] = 0 /\ answers' = <<>>
      BY <1>2, <2>4
    <2> QED BY <2>1, <2>7, <2>8, <2>9 DEF Mirrors
  <1> QED BY <1>2, <1>3, <1>4, <1>7, <1>8 DEF Inv

--------------------------------------------------------------------------------
(* The server takes the oldest write.                                          *)

(* It is w; with failed nothing comes of it. *)
Taken(a, w, failed) ==
  /\ auth = a /\ auth' = auth /\ current' = current /\ logins' = logins /\ closed' = closed
  /\ fetches' = fetches /\ leaving' = leaving
  /\ w = writes[a][1] /\ w \in WritesOf(a) /\ Head(writes[a]) = w
  /\ 1 \in Updates(a) <=> IsUpdate(w)
  /\ failed \in BOOLEAN /\ (IsUpdate(w) /\ users[a] = Nil => failed)
  /\ users'[a] = IF failed THEN users[a] ELSE Applied(users[a], w)
  /\ answers' = IF w.live THEN Append(answers, [write |-> w, failed |-> failed]) ELSE answers
  /\ Len(writes[a]) \in Nat /\ Len(writes[a]) > 0 /\ Len(writes'[a]) = Len(writes[a]) - 1
  /\ \A i \in 1..Len(writes'[a]) : i + 1 \in 1..Len(writes[a]) /\ writes'[a][i] = writes[a][i + 1]
  /\ \A i \in Updates(a)' : i \in 1..Len(writes'[a]) /\ i + 1 \in Updates(a)
  /\ \A b \in Accounts : b # a => writes'[b] = writes[b] /\ users'[b] = users[b]

LEMMA WritesTaken ==
  ASSUME Types, Known, NEW a \in Accounts, Apply(a) \/ Reject(a)
  PROVE  Types' /\ \E w, failed : Taken(a, w, failed)
  <1>1. PICK q : q = writes[a] /\ q \in Seq(WritesOf(a))
    BY DEF Types
  <1>2. PICK rejected \in BOOLEAN : Acknowledge(a, rejected)
    BY DEF Apply, Reject
  <1>3. q # <<>>
    BY <1>1, <1>2 DEF Acknowledge
  <1>4. PICK w : w = Head(q)
    OBVIOUS
  <1>5. PICK r : r = Tail(q)
    OBVIOUS
  <1>6. /\ w = q[1] /\ w \in WritesOf(a) /\ DOMAIN q = 1..Len(q) /\ DOMAIN r = 1..Len(r)
        /\ r \in Seq(WritesOf(a)) /\ Len(q) \in Nat /\ Len(q) > 0 /\ Len(r) = Len(q) - 1
        /\ \A i \in 1..Len(r) : i + 1 \in 1..Len(q) /\ r[i] = q[i + 1]
    <2>1. PICK S : S = WritesOf(a)
      OBVIOUS
    <2>2. q \in Seq(S) /\ q # <<>>
      BY <1>1, <1>3, <2>1
    <2>3. Head(q) = q[1] /\ q[1] \in S /\ Tail(q) \in Seq(S)
      BY <2>2
    <2>4. Len(q) \in Nat /\ Len(q) > 0 /\ Len(Tail(q)) = Len(q) - 1
      BY <2>2
    <2>5. \A i \in 1..(Len(q) - 1) : i + 1 \in 1..Len(q) /\ Tail(q)[i] = q[i + 1]
      BY <2>2
    <2>6. DOMAIN q = 1..Len(q) /\ DOMAIN Tail(q) = 1..Len(Tail(q))
      BY <2>2, <2>3
    <2> QED BY <1>4, <1>5, <2>1, <2>3, <2>4, <2>5, <2>6
  <1>7. PICK failed : failed = (rejected \/ (IsUpdate(w) /\ users[a] = Nil))
    OBVIOUS
  <1>8. failed \in BOOLEAN /\ (IsUpdate(w) /\ users[a] = Nil => failed)
    BY <1>7
  <1>9. PICK d \in DocsOf(a) : d = Applied(users[a], w)
    <2>1. users[a] \in DocsOf(a)
      BY DEF Types, Known
    <2> QED BY <2>1, <1>6, AppliedIs
  <1>10. /\ auth = a /\ writes' = [writes EXCEPT ![a] = r]
         /\ users' = IF failed THEN users ELSE [users EXCEPT ![a] = d]
         /\ answers' = IF w.live THEN Append(answers, [write |-> w, failed |-> failed])
                       ELSE answers
         /\ auth' = auth /\ current' = current /\ playerId' = playerId /\ oneSignal' = oneSignal
         /\ logins' = logins /\ closed' = closed /\ fetches' = fetches /\ leaving' = leaving
         /\ creating' = creating
    BY <1>1, <1>2, <1>4, <1>5, <1>7, <1>9 DEF Acknowledge, device, requests
  <1>11. /\ DOMAIN writes' = Accounts /\ writes'[a] = r
         /\ \A b \in Accounts : b # a => writes'[b] = writes[b] /\ users'[b] = users[b]
         /\ users'[a] = IF failed THEN users[a] ELSE d
         /\ users' \in [Accounts -> Records \cup {Nil}]
    <2>1. d \in Records \cup {Nil}
      BY <1>9 DEF DocsOf
    <2> QED BY <2>1, <1>10 DEF Types
  <1>12. answers' \in Seq(Completions)
    <2>1. CASE w.live
      <3>1. w \in UpdateWrites
        BY <1>6, <2>1, WriteIs
      <3>2. [write |-> w, failed |-> failed] \in Completions
        BY <1>8, <3>1 DEF Completions
      <3>3. PICK S, x : S = Completions /\ x = [write |-> w, failed |-> failed]
        OBVIOUS
      <3>4. answers \in Seq(S) /\ x \in S
        BY <3>2, <3>3 DEF Types
      <3>5. Append(answers, x) \in Seq(S)
        BY <3>4
      <3> QED BY <1>10, <2>1, <3>3, <3>5
    <2>2. CASE ~w.live
      BY <1>10, <2>2 DEF Types
    <2> QED BY <2>1, <2>2
  <1>13. \A b \in Accounts : writes'[b] \in Seq(WritesOf(b))
    BY <1>6, <1>11 DEF Types
  <1>14. Types'
    <2>1. Calls'
      BY <1>10, CallsSame DEF Types
    <2> QED BY <1>10, <1>11, <1>12, <1>13, <2>1 DEF Types
  <1>15. 1 \in Updates(a) <=> IsUpdate(w)
    BY <1>1, <1>6 DEF Updates
  <1>16. \A i \in Updates(a)' : i \in 1..Len(r) /\ i + 1 \in Updates(a)
    BY <1>1, <1>6, <1>11 DEF Updates, IsUpdate
  <1>17. Taken(a, w, failed)
    BY <1>1, <1>4, <1>6, <1>8, <1>9, <1>10, <1>11, <1>15, <1>16 DEF Taken
  <1> QED BY <1>14, <1>17

(* The update that is under way changes the document it was made of.           *)
LEMMA UpdateTaken ==
  ASSUME Types, Known, NEW a \in Accounts, NEW w, NEW failed, Taken(a, w, failed), Mirrors(a),
         IsUpdate(w), ~failed
  PROVE  users[a] # Nil /\ MadeFrom(w, users[a]) /\ users'[a] = AsSent(w.copy)
  <1>1. w.field # "all" /\ users[a] # Nil
    BY DEF Taken, IsUpdate, Fields
  <1>2. Base(a) = users[a] /\ 1 \in Updates(a)
    BY <1>1 DEF Taken, Base
  <1>3. MadeFrom(w, users[a])
    BY <1>1, <1>2 DEF Mirrors, Taken
  <1>4. users[a] \in DocsOf(a)
    BY DEF Types, Known
  <1>5. Applied(users[a], w) = [users[a] EXCEPT ![w.field] = w.copy[w.field]]
    <2>1. w \in WritesOf(a)
      BY DEF Taken
    <2>2. PICK d \in DocsOf(a) : d = users[a]
      BY <1>4
    <2>3. Applied(d, w) = IF d = Nil THEN Nil ELSE [d EXCEPT ![w.field] = w.copy[w.field]]
      BY <2>1, AppliedIs
    <2> QED BY <1>1, <2>2, <2>3
  <1> QED BY <1>1, <1>3, <1>5 DEF MadeFrom, Taken

LEMMA TakenKeeps ==
  ASSUME Inv, NEW a \in Accounts, Apply(a) \/ Reject(a), Observe
  PROVE  Inv'
  <1>1. Types /\ Known
    BY DEF Inv
  <1>2. Types'
    BY <1>1, WritesTaken
  <1>3. PICK w, failed : Taken(a, w, failed)
    BY <1>1, WritesTaken
  <1>4. /\ ~stray' => ~stray /\ ~Stray'
        /\ ~overtaken' => ~Crowded' /\ Alone' /\ (auth' \in {auth, Nil} => ~overtaken)
    BY <1>2, Observed
  <1>5. PICK q, r : q = writes[a] /\ r = writes'[a]
    OBVIOUS
  <1>6. /\ auth = a /\ auth' = a /\ current' = current /\ logins' = logins /\ closed' = closed
        /\ fetches' = fetches /\ leaving' = leaving /\ w = q[1]
        /\ Len(q) \in Nat /\ Len(q) > 0 /\ Len(r) = Len(q) - 1
        /\ \A i \in 1..Len(r) : i + 1 \in 1..Len(q) /\ r[i] = q[i + 1]
        /\ \A i \in Updates(a)' : i \in 1..Len(r) /\ i + 1 \in Updates(a)
        /\ \A b \in Accounts : b # a => writes'[b] = writes[b] /\ users'[b] = users[b]
    BY <1>3, <1>5 DEF Taken
  <1>7. 1 \in 1..Len(q) /\ w \in WritesOf(a)
    BY <1>3, <1>6 DEF Taken
  <1>8. \A i \in 1..Len(r) : r[i].field # "all"
    <2> SUFFICES ASSUME NEW i \in 1..Len(r), r[i].field = "all" PROVE FALSE
      OBVIOUS
    <2>1. i + 1 \in 1..Len(q) /\ q[i + 1].field = "all"
      BY <1>6
    <2>2. i + 1 = 1
      BY <1>1, <1>5, <2>1 DEF Known, AllFirst
    <2> QED BY <1>6, <2>2
  <1>9. Known'
    <2>1. AllFirst(a)'
      BY <1>5, <1>8 DEF AllFirst
    <2>2. \A b \in Accounts : b # a => AllFirst(b)'
      BY <1>1, <1>6, QueueSame DEF Known
    <2>3. users'[a] \in DocsOf(a)
      <3>1. PICK d \in DocsOf(a) : d = users[a]
        BY <1>1 DEF Types, Known
      <3>2. Applied(d, w) \in DocsOf(a)
        BY <1>7, AppliedIs
      <3>3. users'[a] \in {d, Applied(d, w)}
        BY <1>3, <3>1 DEF Taken
      <3> QED BY <3>1, <3>2, <3>3
    <2>4. a \in logins
      BY <1>1, <1>6, NilIsNoRecord DEF Known
    <2> QED BY <1>1, <1>6, <2>1, <2>2, <2>3, <2>4 DEF Known
  <1>10. ASSUME NoneOnly(a), NEW i \in 1..Len(q), q[i].field = "none"
         PROVE  /\ \A j \in 1..Len(q) : q[j].field = "none"
                /\ current = Nil /\ answers' = <<>>
    <2>1. /\ \A j \in 1..Len(q) : q[j].field = "none"
          /\ current = Nil /\ answers = <<>>
      BY <1>5, <1>6, <1>10 DEF NoneOnly
    <2>2. w.field = "none"
      BY <1>6, <1>7, <2>1
    <2>3. ~w.live
      BY <1>7, <2>2, WriteIs DEF IsUpdate, Fields
    <2> QED BY <1>3, <2>1, <2>3 DEF Taken
  <1>11. ASSUME ~stray'
         PROVE  Unstrayed'
    <2>1. Unstrayed /\ ~Stray'
      BY <1>4, <1>11 DEF Inv
    <2>2. CopiesOwn(a)'
      <3> SUFFICES ASSUME NEW i \in Updates(a)' PROVE r[i].copy.id = a
        BY <1>5 DEF CopiesOwn
      <3> QED BY <1>5, <1>6, <2>1 DEF Unstrayed, CopiesOwn
    <2>3. NoneOnly(a)'
      <3> SUFFICES ASSUME NEW i \in 1..Len(r), r[i].field = "none"
                   PROVE  /\ \A j \in 1..Len(r) : r[j].field = "none"
                          /\ current = Nil /\ answers' = <<>>
        BY <1>5, <1>6 DEF NoneOnly
      <3>1. i + 1 \in 1..Len(q) /\ q[i + 1].field = "none"
        BY <1>6
      <3> QED BY <1>6, <1>10, <2>1, <3>1 DEF Unstrayed
    <2>4. \A b \in Accounts : b # a => CopiesOwn(b)' /\ NoneOnly(b)'
      BY <1>1, <1>6, <2>1, QueueSame DEF Unstrayed
    <2> QED BY <1>6, <2>1, <2>2, <2>3, <2>4 DEF Unstrayed
  <1>12. ASSUME ~overtaken', ~stray', NEW b \in Accounts, auth' = b
         PROVE  Mirrors(b)'
    <2>1. b = a /\ ~overtaken /\ ~stray
      BY <1>4, <1>6, <1>12
    <2>2. Mirrors(a) /\ ~Crowded /\ NoneOnly(a)
      BY <1>6, <2>1 DEF Inv, Unstrayed
    <2>3. Counted(a) /\ UnderWay(a) <= 1
      BY <1>1, <1>6, <2>2, UpdatesCounted, NotCrowded DEF Alone
    <2>4. Base(a)' = users'[a]
      <3>1. r # <<>> => 1 \in 1..Len(r)
        <4>1. PICK s : s = writes'[a] /\ s \in Seq(WritesOf(a))
          BY <1>2 DEF Types
        <4> QED BY <4>1, <1>5
      <3> QED BY <1>5, <1>8, <3>1 DEF Base
    <2>5. fetches'[a] > 0 => current' = Nil
      BY <1>6, <2>2 DEF Mirrors
    <2>6. CASE w.field = "all"
      <3>1. Len(q) > 1 /\ IsUpdate(q[2]) /\ users[a] = Nil
        BY <1>1, <1>5, <1>6, <1>7, <2>6 DEF Known, AllFirst
      <3>2. 2 \in Updates(a)
        BY <1>5, <1>1, <1>6, <3>1, QueuesNumbered DEF Updates, Numbered
      <3>3. answers = <<>> /\ \A i \in Updates(a) : i = 2
        BY <2>3, <3>2 DEF Counted
      <3>4. answers' = <<>>
        <4>1. ~w.live
          BY <1>7, <2>6, WriteIs DEF IsUpdate, Fields
        <4> QED BY <1>3, <3>3, <4>1 DEF Taken
      <3>5. q # <<>>
        BY <1>6
      <3>6. Base(a) = NewUser(a)
        BY <1>5, <1>6, <2>6, <3>5 DEF Base
      <3>7. users'[a] \in {NewUser(a), Nil}
        <4>1. PICK d \in DocsOf(a) : d = users[a]
          BY <1>1 DEF Types, Known
        <4>2. Applied(d, w) = NewUser(a)
          BY <1>7, <2>6, AppliedIs
        <4> QED BY <1>3, <3>1, <4>1, <4>2 DEF Taken
      <3>8. current # Nil => AsSent(current) = NewUser(a)
        BY <2>2, <3>3, <3>6, NewUserIs DEF Mirrors
      <3>9. current' # Nil => Base(a)' \in {AsSent(current'), Nil}
        BY <1>6, <2>4, <3>7, <3>8
      <3>10. (Base(a) # Nil => \A i \in Updates(a) : MadeFrom(writes[a][i], Base(a)))'
        <4> SUFFICES ASSUME Base(a)' # Nil, NEW i \in Updates(a)' PROVE MadeFrom(r[i], users'[a])
          BY <1>5, <2>4
        <4>1. users'[a] = Base(a) /\ Base(a) # Nil
          BY <2>4, <3>6, <3>7
        <4>2. r[i] = q[i + 1] /\ i + 1 \in Updates(a)
          BY <1>6
        <4> QED BY <1>5, <2>2, <4>1, <4>2 DEF Mirrors
      <3> QED BY <2>1, <2>5, <3>4, <3>9, <3>10 DEF Mirrors
    <2>7. CASE w.field = "none"
      <3>1. /\ \A j \in 1..Len(q) : q[j].field = "none"
            /\ current = Nil /\ answers' = <<>>
        BY <1>6, <1>7, <1>10, <2>2, <2>7
      <3>2. Updates(a)' = {}
        <4> SUFFICES ASSUME NEW i \in Updates(a)' PROVE FALSE
          OBVIOUS
        <4>1. i + 1 \in Updates(a) /\ i + 1 \in 1..Len(q)
          BY <1>6
        <4> QED BY <4>1, <3>1, <1>5 DEF Updates, IsUpdate, Fields
      <3> QED BY <1>6, <2>1, <2>5, <3>1, <3>2 DEF Mirrors
    <2>8. CASE IsUpdate(w)
      <3>1. 1 \in Updates(a)
        BY <1>3, <2>8 DEF Taken
      <3>2. answers = <<>> /\ \A i \in Updates(a) : i = 1
        BY <2>3, <3>1 DEF Counted
      <3>3. Updates(a)' = {}
        <4> SUFFICES ASSUME NEW i \in Updates(a)' PROVE FALSE
          OBVIOUS
        <4>1. i \in 1..Len(r) /\ i + 1 = 1
          BY <1>6, <3>2
        <4> QED BY <4>1, <1>6
      <3>4. w.live
        BY <1>5, <1>6, <2>2, <2>8, <3>1 DEF Crowded, Updates
      <3>5. answers' = <<[write |-> w, failed |-> failed]>>
        BY <1>3, <3>2, <3>4 DEF Taken
      <3>6. /\ Len(answers') = 1 /\ answers'[1].write = w /\ answers'[1].failed = failed
        BY <3>5
      <3>7. Base(a) = users[a]
        BY <1>5, <1>6, <2>8 DEF Base, IsUpdate, Fields
      <3>8. failed => users'[a] = users[a]
        BY <1>3 DEF Taken
      <3>9. current' # Nil /\ failed => Base(a)' \in {AsSent(current'), Nil}
        BY <1>6, <2>2, <2>4, <3>2, <3>7, <3>8 DEF Mirrors
      <3>10. ~failed => users'[a] = AsSent(w.copy)
        BY <1>1, <1>3, <2>2, <2>8, UpdateTaken
      <3> QED BY <2>1, <2>5, <3>3, <3>6, <3>9, <3>10 DEF Mirrors
    <2>9. IsUpdate(w) \/ w.field \in {"all", "none"}
      BY <1>7, WriteIs
    <2> QED BY <2>6, <2>7, <2>8, <2>9
  <1> QED BY <1>2, <1>4, <1>9, <1>11, <1>12 DEF Inv

--------------------------------------------------------------------------------
(* The completion of an update.                                                *)

(* x is the answer; what it may send is a copy of what it stores.              *)
Completing(x) ==
  /\ auth' = auth /\ users' = users /\ logins' = logins /\ closed' = closed
  /\ fetches' = fetches /\ leaving' = leaving
  /\ answers # <<>> /\ Len(answers) \in Nat /\ Len(answers) > 0
  /\ x = answers[1] /\ x \in Completions
  /\ Len(answers') = Len(answers) - 1
  /\ Len(answers) = 1 => answers' = <<>>
  /\ current' = IF x.failed THEN current ELSE x.write.copy
  /\ \A b \in Accounts : /\ b # auth => writes'[b] = writes[b]
                         /\ b = auth => Sends(writes[b], writes'[b], current')

LEMMA CompletionIs ==
  ASSUME Types, Complete
  PROVE  \/ /\ auth = Nil /\ answers # <<>>
            /\ \E rec \in Records : RestartWith(Nil, rec, writes)
         \/ Types' /\ \E x : Completing(x)
  <1>1. PICK x : x = Head(answers)
    OBVIOUS
  <1>2. PICK rest : rest = Tail(answers)
    OBVIOUS
  <1>3. /\ answers # <<>> /\ Len(answers) \in Nat /\ Len(answers) > 0
        /\ x = answers[1] /\ x \in Completions
        /\ rest \in Seq(Completions) /\ Len(rest) = Len(answers) - 1
        /\ Len(answers) = 1 => rest = <<>>
    <2>1. answers # <<>>
      BY DEF Complete
    <2>2. PICK S : S = Completions
      OBVIOUS
    <2>3. answers \in Seq(S)
      BY <2>2 DEF Types
    <2>4. /\ Len(answers) \in Nat /\ Len(answers) > 0 /\ Head(answers) = answers[1]
          /\ answers[1] \in S /\ Tail(answers) \in Seq(S)
          /\ Len(Tail(answers)) = Len(answers) - 1
      BY <2>1, <2>3
    <2>5. Len(Tail(answers)) = 0 => Tail(answers) = <<>>
      <3>1. PICK t : t = Tail(answers)
        OBVIOUS
      <3>2. t \in Seq(S)
        BY <2>4, <3>1
      <3>3. Len(t) = 0 => t = <<>>
        BY <3>2
      <3> QED BY <3>1, <3>3
    <2> QED BY <1>1, <1>2, <2>1, <2>2, <2>4, <2>5
  <1>4. PICK w : w = x.write /\ w \in UpdateWrites /\ x.failed \in BOOLEAN /\ w.copy \in Records
    BY <1>3 DEF Completions, UpdateWrites
  <1> DEFINE traps == auth = Nil /\ ~x.failed /\ w.then \in {"block", "finish", "finished"}
  <1>50. CASE traps
    <2>1. RestartWith(Nil, w.copy, writes)
      BY <1>1, <1>4, <1>50 DEF Complete, Completed
    <2> QED BY <1>3, <1>4, <1>50, <2>1
  <1> SUFFICES ASSUME ~traps PROVE Types' /\ \E y : Completing(y)
    BY <1>50
  <1>5. /\ answers' = rest
        /\ current' = IF x.failed THEN current ELSE w.copy
        /\ CASE w.then = "save" -> SaveDone(x.failed)
             [] w.then = "finish" ->
                  FinishDone(x.failed, IF screen = "finish" THEN "main" ELSE screen)
             [] w.then = "finished" -> FinishDone(x.failed, screen)
             [] w.then = "unblock" -> UnblockDone
             [] OTHER -> UNCHANGED <<playerId, writes, screen, saving, registering, drawn>>
        /\ UNCHANGED <<auth, oneSignal, server, fetches, leaving, creating>>
    BY <1>1, <1>2, <1>4 DEF Complete, Completed, requests
  <1>6. PICK c \in Records \cup {Nil} : c = current'
    BY <1>4, <1>5 DEF Types
  <1>7. \/ writes' = writes /\ playerId' = playerId
        \/ auth # Nil /\ GoToApp(auth, current')
    <2>1. CASE w.then \in {"finish", "finished"}
      <3>1. PICK next : FinishDone(x.failed, next)
        BY <1>5, <2>1
      <3> QED BY <1>4, <2>1, <3>1 DEF FinishDone
    <2>2. CASE w.then = "save"
      BY <1>5, <2>2 DEF SaveDone
    <2>3. CASE w.then = "unblock"
      BY <1>5, <2>3 DEF UnblockDone
    <2>4. CASE w.then \notin {"save", "finish", "finished", "unblock"}
      BY <1>5, <2>4
    <2> QED BY <2>1, <2>2, <2>3, <2>4
  <1>8. /\ DOMAIN writes' = Accounts /\ playerId' \in {Nil, "player"}
        /\ \A b \in Accounts : /\ writes'[b] \in Seq(WritesOf(b))
                               /\ b # auth => writes'[b] = writes[b]
                               /\ b = auth => Sends(writes[b], writes'[b], c)
    <2>1. CASE writes' = writes /\ playerId' = playerId
      <3>1. ASSUME NEW b \in Accounts
            PROVE  writes[b] \in Seq(WritesOf(b)) /\ Sends(writes[b], writes[b], c)
        <4>1. writes[b] \in Seq(WritesOf(b))
          BY DEF Types
        <4>2. Grown(writes[b], writes[b], 0)
          BY <4>1, GrownSame
        <4> QED BY <4>1, <4>2 DEF Sends
      <3> QED BY <2>1, <3>1 DEF Types
    <2>2. CASE auth # Nil /\ GoToApp(auth, current')
      <3>1. auth \in Accounts
        BY <2>2 DEF Types
      <3>2. PICK q, r : q = writes[auth] /\ r = PushIdSent(q, c)
        OBVIOUS
      <3>3. r \in Seq(WritesOf(auth)) /\ Sends(q, r, c)
        BY <3>1, <3>2, PushIdSends DEF Types
      <3>4. writes' = [writes EXCEPT ![auth] = r] /\ playerId' = NewPlayerId
        BY <1>6, <2>2, <3>2 DEF GoToApp
      <3>5. playerId' \in {Nil, "player"}
        BY <3>4, PlayerIdIs DEF Types
      <3> QED BY <3>1, <3>2, <3>3, <3>4, <3>5 DEF Types
    <2> QED BY <1>7, <2>1, <2>2
  <1>9. Types'
    <2>1. Calls'
      BY <1>5, CallsSame DEF Types, server
    <2> QED BY <1>3, <1>5, <1>6, <1>8, <2>1 DEF Types, server
  <1>10. Completing(x)
    BY <1>3, <1>4, <1>5, <1>6, <1>8 DEF Completing, server
  <1> QED BY <1>9, <1>10

(* A completion that traps has come after a sign-out, which is to stray.       *)
LEMMA LateKeeps ==
  ASSUME Inv, auth = Nil, answers # <<>>, NEW rec \in Records, RestartWith(Nil, rec, writes),
         Observe
  PROVE  Inv'
  <1>1. Types /\ Known
    BY DEF Inv
  <1>2. PICK a, queues : a = Nil /\ queues = writes
    OBVIOUS
  <1>3. RestartWith(a, rec, queues)
    BY <1>2
  <1>4. DOMAIN queues = Accounts /\ \A b \in Accounts : queues[b] \in Seq(WritesOf(b))
    BY <1>1, <1>2 DEF Types
  <1>5. /\ auth' = Nil /\ users' = users /\ closed' = closed /\ leaving' = Nil
        /\ logins \subseteq logins' /\ Types'
        /\ \E updated : AllSend(queues, updated, a, rec) /\ writes' = updated
    BY <1>1, <1>2, <1>3, <1>4, RestartIs DEF Restarted
  <1>6. /\ ~stray' => ~stray
        /\ ~overtaken' => ~Crowded'
    BY <1>5, Observed
  <1>7. stray
    <2> SUFFICES ASSUME ~stray PROVE FALSE
      OBVIOUS
    <2>1. ~Stray
      BY DEF Inv, Unstrayed
    <2>2. Straight
      BY <1>1, <2>1, NotStray
    <2> QED BY <2>2 DEF Straight
  <1>8. Known'
    <2>1. ASSUME NEW b \in Accounts
          PROVE  AllFirst(b)' /\ (writes[b] = <<>> => writes'[b] = <<>>)
      <3>1. PICK q, s : q = writes[b] /\ s = writes'[b] /\ Grown(q, s, 0)
        BY <1>2, <1>5, NilIsNoRecord DEF AllSend
      <3> QED BY <1>1, <1>5, <3>1, OthersSame DEF Known
    <2> QED BY <1>1, <1>5, <2>1 DEF Known
  <1> QED BY <1>5, <1>6, <1>7, <1>8 DEF Inv

LEMMA CompleteKeeps ==
  ASSUME Inv, Complete, Observe
  PROVE  Inv'
  <1>1. Types /\ Known
    BY DEF Inv
  <1> DEFINE traps == /\ auth = Nil /\ answers # <<>>
                      /\ \E rec \in Records : RestartWith(Nil, rec, writes)
  <1>2. CASE traps
    BY <1>2, LateKeeps
  <1>3. CASE ~traps
    <2>1. Types'
      BY <1>1, <1>3, CompletionIs
    <2>2. PICK x : Completing(x)
      BY <1>1, <1>3, CompletionIs
    <2>3. /\ ~stray' => ~stray /\ ~Stray'
          /\ ~overtaken' => ~Crowded' /\ Alone' /\ (auth' \in {auth, Nil} => ~overtaken)
      BY <2>1, Observed
    <2>4. /\ auth' = auth /\ users' = users /\ logins' = logins /\ closed' = closed
          /\ fetches' = fetches /\ leaving' = leaving
          /\ answers # <<>> /\ 1 \in 1..Len(answers) /\ x = answers[1] /\ x \in Completions
          /\ Len(answers) = 1 => answers' = <<>>
          /\ current' = IF x.failed THEN current ELSE x.write.copy
          /\ \A b \in Accounts : b # auth => writes'[b] = writes[b]
      BY <2>2 DEF Completing
    <2>5. PICK c \in Records \cup {Nil} : c = current'
      BY <2>1 DEF Types
    <2>6. ASSUME NEW a \in Accounts, auth = a
          PROVE  /\ Numbered(a) /\ Numbered(a)' /\ Sends(writes[a], writes'[a], c)
                 /\ \E q, r : /\ q = writes[a] /\ r = writes'[a]
                              /\ Sends(q, r, c) /\ Continues(q, r)
      <3>1. Numbered(a) /\ Numbered(a)'
        BY <1>1, <2>1, QueuesNumbered, NumberedNext
      <3>2. PICK q, r : q = writes[a] /\ r = writes'[a]
        OBVIOUS
      <3>3. Sends(q, r, c)
        BY <2>2, <2>5, <2>6, <3>2 DEF Completing
      <3>4. Continues(q, r)
        BY <3>1, <3>2, <3>3, SendsContinues DEF Numbered
      <3> QED BY <3>1, <3>2, <3>3, <3>4
    <2>7. Known'
      <3>1. ASSUME NEW a \in Accounts PROVE AllFirst(a)'
        <4>1. CASE auth = a
          <5>1. PICK q, r : q = writes[a] /\ r = writes'[a] /\ Continues(q, r)
            BY <2>6, <4>1
          <5> QED BY <1>1, <2>4, <5>1, AllFirstContinues DEF Known
        <4>2. CASE auth # a
          BY <1>1, <2>4, <4>2, QueueSame DEF Known
        <4> QED BY <4>1, <4>2
      <3>2. ASSUME NEW a \in Accounts \ (logins \cup closed) PROVE writes'[a] = <<>>
        <4>1. a # auth
          BY <1>1, NilIsNoRecord DEF Known
        <4> QED BY <1>1, <2>4, <4>1 DEF Known
      <3> QED BY <1>1, <2>4, <3>1, <3>2 DEF Known
    <2>8. ASSUME ~stray'
          PROVE  Unstrayed'
      <3>1. Unstrayed /\ ~Stray' /\ Straight
        BY <1>1, <2>3, <2>8, NotStray DEF Inv, Unstrayed
      <3>2. auth # Nil /\ auth \in Accounts /\ x.write.copy.id = auth
        BY <1>1, <2>4, <3>1 DEF Straight, Types
      <3>3. current' = Nil \/ (auth' # Nil /\ current'.id = auth')
        BY <2>4, <3>1, <3>2 DEF Unstrayed
      <3>4. leaving # auth
        <4>1. Counted(auth)
          BY <1>1, <3>2, UpdatesCounted
        <4> QED BY <4>1, <2>4, <3>1, <3>2 DEF Straight, Counted
      <3>5. ASSUME NEW a \in Accounts PROVE CopiesOwn(a)' /\ NoneOnly(a)'
        <4>1. CASE auth = a
          <5>1. PICK q, r : q = writes[a] /\ r = writes'[a] /\ Sends(q, r, c)
            BY <2>6, <4>1
          <5>2. CopiesOwn(a)'
            <6>1. c # Nil => c.id = a
              BY <2>4, <2>5, <3>3, <4>1
            <6> QED BY <2>6, <3>1, <4>1, <5>1, <6>1, CopiesKept, NilIsNoRecord DEF Unstrayed
          <5>3. \A i \in 1..Len(q) : q[i].field # "none"
            BY <2>4, <3>1, <4>1, <5>1 DEF Unstrayed, NoneOnly
          <5>4. \A i \in 1..Len(r) : r[i].field # "none"
            <6> SUFFICES ASSUME NEW i \in 1..Len(r), r[i].field = "none" PROVE FALSE
              OBVIOUS
            <6>1. Len(q) \in Nat /\ Len(r) \in Nat
              BY <2>6, <4>1, <5>1 DEF Numbered
            <6>2. CASE i \in 1..Len(q)
              BY <5>1, <5>3, <6>2 DEF Sends, Grown, SameWrite
            <6>3. CASE i \notin 1..Len(q)
              <7>1. i = Len(r) /\ IsUpdate(r[Len(r)])
                BY <5>1, <6>1, <6>3 DEF Sends, Grown
              <7> QED BY <7>1 DEF IsUpdate, Fields
            <6> QED BY <6>2, <6>3
          <5> QED BY <5>1, <5>2, <5>4 DEF NoneOnly
        <4>2. CASE auth # a
          BY <1>1, <2>4, <3>1, <4>2, QueueSame DEF Unstrayed
        <4> QED BY <4>1, <4>2
      <3> QED BY <2>4, <3>1, <3>3, <3>4, <3>5 DEF Unstrayed
    <2>9. ASSUME ~overtaken', ~stray', NEW a \in Accounts, auth' = a
          PROVE  Mirrors(a)'
      <3>1. auth = a /\ ~overtaken /\ ~stray
        BY <2>3, <2>4, <2>9
      <3>2. Mirrors(a) /\ ~Crowded
        BY <3>1 DEF Inv
      <3>3. Counted(a) /\ UnderWay(a) <= 1
        BY <1>1, <3>1, <3>2, UpdatesCounted, NotCrowded DEF Alone
      <3>4. Len(answers) = 1 /\ Updates(a) = {} /\ fetches[a] = 0 /\ answers' = <<>>
        BY <2>4, <3>3 DEF Counted
      <3>5. Base(a) = users[a]
        BY <1>1, <3>4, NoUpdate DEF Known
      <3>6. PICK q, r : q = writes[a] /\ r = writes'[a] /\ Sends(q, r, c) /\ Continues(q, r)
        BY <2>6, <3>1
      <3>7. Base(a)' = Base(a)
        BY <2>4, <2>6, <3>1, <3>6, BaseSame
      <3>8. c # Nil => Base(a) \in {AsSent(c), Nil}
        <4>1. CASE x.failed
          <5>1. \A i \in 1..Len(answers) : answers[i].failed
            <6>1. \A i \in 1..Len(answers) : i = 1
              BY <3>4
            <6> QED BY <2>4, <4>1, <6>1
          <5>2. c = current
            BY <2>4, <2>5, <4>1
          <5> QED BY <3>2, <5>1, <5>2 DEF Mirrors
        <4>2. CASE ~x.failed
          <5>1. users[a] = AsSent(x.write.copy)
            BY <2>4, <3>2, <4>2 DEF Mirrors
          <5> QED BY <2>4, <2>5, <3>5, <4>2, <5>1
        <4> QED BY <4>1, <4>2
      <3>9. (Base(a) # Nil => \A i \in Updates(a) : MadeFrom(writes[a][i], Base(a)))'
        <4>1. Updates(a)' # {} /\ c \in Records => Base(a) \in {AsSent(c), Nil}
          BY <3>8, NilIsNoRecord
        <4>2. Base(a) # Nil => \A i \in Updates(a) : MadeFrom(writes[a][i], Base(a))
          BY <3>4
        <4> QED BY <2>6, <2>9, <3>1, <3>6, <3>7, <4>1, <4>2, UpdatesMade
      <3> QED BY <2>4, <2>5, <3>4, <3>7, <3>8, <3>9 DEF Mirrors
    <2> QED BY <2>1, <2>3, <2>7, <2>8, <2>9 DEF Inv
  <1> QED BY <1>2, <1>3

--------------------------------------------------------------------------------
(* Signing out, and the deletion of an account.                                *)

LEMMA LogOutTypes ==
  ASSUME Types, NEW throws \in BOOLEAN, LogOut(throws)
  PROVE  /\ Types' /\ auth \in Accounts /\ auth' \in {auth, Nil} /\ current' = Nil
         /\ users' = users /\ answers' = answers /\ fetches' = fetches
         /\ logins' = logins /\ closed' = closed /\ leaving' = leaving
         /\ Sends(writes[auth], writes'[auth], current)
         /\ \A b \in Accounts : b # auth => writes'[b] = writes[b]
  <1>1. auth \in Accounts
    BY DEF LogOut, Types
  <1>2. PICK q, r : q = writes[auth] /\ r = Updated(q, current, "pushId", "", "nothing", Nil)
    OBVIOUS
  <1>3. /\ auth' \in {auth, Nil} /\ current' = Nil /\ playerId' = Nil
        /\ users' = users /\ answers' = answers /\ fetches' = fetches
        /\ logins' = logins /\ closed' = closed /\ leaving' = leaving /\ oneSignal' = oneSignal
        /\ creating' = creating /\ writes' = [writes EXCEPT ![auth] = r]
    BY <1>2 DEF LogOut, AfterLogOut, server, requests
  <1>4. current # Nil => Changed(current, "pushId", "", Nil)
    BY DEF Types, Changed, Records, Fields
  <1>5. r \in Seq(WritesOf(auth)) /\ Sends(q, r, current)
    <2>1. "nothing" \in Thens
      BY DEF Thens
    <2>2. PICK a, rec : a = auth /\ rec = current
      OBVIOUS
    <2>3. a \in Accounts /\ q \in Seq(WritesOf(a)) /\ rec \in Records \cup {Nil}
      BY <1>1, <1>2, <2>2 DEF Types
    <2>4. r = Updated(q, rec, "pushId", "", "nothing", Nil)
      BY <1>2, <2>2
    <2>5. rec # Nil => Changed(rec, "pushId", "", Nil)
      BY <1>4, <2>2
    <2>6. r \in Seq(WritesOf(a)) /\ Sends(q, r, rec)
      BY <2>1, <2>3, <2>4, <2>5, UpdatedSends
    <2> QED BY <2>2, <2>6
  <1>6. /\ DOMAIN writes' = Accounts /\ writes'[auth] = r
        /\ \A b \in Accounts : b # auth => writes'[b] = writes[b]
    BY <1>1, <1>3 DEF Types
  <1>7. \A b \in Accounts : writes'[b] \in Seq(WritesOf(b))
    BY <1>5, <1>6 DEF Types
  <1>8. Types'
    <2>1. Calls'
      BY <1>3, CallsSame DEF Types
    <2> QED BY <1>3, <1>6, <1>7, <2>1 DEF Types
  <1> QED BY <1>1, <1>2, <1>3, <1>5, <1>6, <1>8

LEMMA LogOutKeeps ==
  ASSUME Inv, NEW throws \in BOOLEAN, LogOut(throws), Observe
  PROVE  Inv'
  <1>1. Types /\ Known
    BY DEF Inv
  <1>2. /\ Types' /\ auth \in Accounts /\ auth' \in {auth, Nil} /\ current' = Nil
        /\ users' = users /\ answers' = answers /\ fetches' = fetches
        /\ logins' = logins /\ closed' = closed /\ leaving' = leaving
        /\ Sends(writes[auth], writes'[auth], current)
        /\ \A b \in Accounts : b # auth => writes'[b] = writes[b]
    BY <1>1, LogOutTypes
  <1>3. PICK a \in Accounts : a = auth
    BY <1>2
  <1>4. PICK q, r : q = writes[a] /\ r = writes'[a] /\ Sends(q, r, current)
    BY <1>2, <1>3
  <1>5. Numbered(a) /\ Numbered(a)'
    BY <1>1, <1>2, QueuesNumbered, NumberedNext
  <1>6. Continues(q, r)
    BY <1>4, <1>5, SendsContinues DEF Numbered
  <1>7. \A b \in Accounts : auth' = b => b = a
    BY <1>2, <1>3, NilIsNoRecord
  <1>8. /\ ~stray' => ~stray /\ ~Stray'
        /\ ~overtaken' => ~Crowded' /\ Alone' /\ ~overtaken
    BY <1>2, Observed
  <1>9. Known'
    <2>1. AllFirst(a)'
      BY <1>1, <1>2, <1>4, <1>6, AllFirstContinues DEF Known
    <2>2. \A b \in Accounts : b # a => AllFirst(b)'
      BY <1>1, <1>2, <1>3, QueueSame DEF Known
    <2>3. \A b \in Accounts \ (logins \cup closed) : b # a
      BY <1>1, <1>3, NilIsNoRecord DEF Known
    <2> QED BY <1>1, <1>2, <1>3, <2>1, <2>2, <2>3 DEF Known
  <1>10. ASSUME ~stray'
         PROVE  Unstrayed'
    <2>1. Unstrayed /\ ~Stray'
      BY <1>8, <1>10 DEF Inv
    <2>2. CopiesOwn(a)'
      <3>1. current # Nil => current.id = a
        BY <1>3, <2>1 DEF Unstrayed
      <3> QED BY <1>4, <1>5, <2>1, <3>1, CopiesKept, NilIsNoRecord DEF Unstrayed
    <2>3. NoneOnly(a)'
      BY <1>2, <1>3, <1>4, <1>5, <2>1, NoneKept, NilIsNoRecord DEF Unstrayed
    <2>4. \A b \in Accounts : b # a => CopiesOwn(b)' /\ NoneOnly(b)'
      BY <1>1, <1>2, <1>3, <1>7, <2>1, QueueSame DEF Unstrayed
    <2> QED BY <1>2, <2>1, <2>2, <2>3, <2>4 DEF Unstrayed
  <1>11. ASSUME ~overtaken', ~stray', NEW b \in Accounts, auth' = b
         PROVE  Mirrors(b)'
    <2>1. b = a /\ ~overtaken /\ ~stray
      BY <1>7, <1>8, <1>11
    <2>2. Mirrors(a)
      BY <1>3, <2>1 DEF Inv
    <2>3. Counted(a)' /\ UnderWay(a)' <= 1
      BY <1>2, <1>8, <1>11, <2>1, CountedNext DEF Alone
    <2>4. Base(a)' = Base(a)
      BY <1>2, <1>4, <1>5, <1>6, BaseSame
    <2>5. Updates(a)' # {} /\ current \in Records => Base(a) \in {AsSent(current), Nil}
      <3> SUFFICES ASSUME Updates(a)' # {}, current \in Records PROVE Base(a) \in {AsSent(current), Nil}
        OBVIOUS
      <3>1. answers = <<>>
        BY <1>2, <2>3 DEF Counted
      <3> QED BY <2>2, <3>1, NilIsNoRecord DEF Mirrors
    <2>6. (Base(a) # Nil => \A i \in Updates(a) : MadeFrom(writes[a][i], Base(a)))'
      BY <1>4, <1>5, <1>11, <2>2, <2>4, <2>5, UpdatesMade DEF Mirrors
    <2> QED BY <1>2, <2>1, <2>2, <2>6 DEF Mirrors
  <1> QED BY <1>2, <1>8, <1>9, <1>10, <1>11 DEF Inv

LEMMA NoUpdateNext ==
  Types' =>
    (\A a \in Accounts : AllFirst(a) /\ Updates(a) = {} =>
        \A i \in 1..Len(writes[a]) : writes[a][i].field = "none")'
  <1>1. Types => \A a \in Accounts :
          AllFirst(a) /\ Updates(a) = {} => \A i \in 1..Len(writes[a]) : writes[a][i].field = "none"
    BY NoUpdate
  <1> QED BY <1>1, PTL

LEMMA DeleteUserKeeps ==
  ASSUME Inv, DeleteUser, Observe
  PROVE  Inv'
  <1>1. Types /\ Known
    BY DEF Inv
  <1>2. PICK a \in Accounts : a = auth
    BY <1>1 DEF DeleteUser, Types
  <1>3. PICK q : q = writes[a] /\ q \in Seq(WritesOf(a))
    BY <1>1 DEF Types
  <1>4. PICK w : w = Silent("none", Nil) /\ w \in WritesOf(a) /\ w.field = "none"
    <2>1. Silent("none", Nil).field = "none"
      BY DEF Silent
    <2>2. Silent("none", Nil) \in WritesOf(a)
      BY DEF WritesOf
    <2> QED BY <2>1, <2>2
  <1>5. PICK r : r = Append(q, w)
    OBVIOUS
  <1>6. /\ auth' = auth /\ current' = Nil /\ playerId' = Nil /\ oneSignal' = oneSignal
        /\ users' = users /\ answers' = answers /\ fetches' = fetches
        /\ logins' = logins /\ closed' = closed /\ leaving' = a /\ creating' = creating
        /\ writes' = [writes EXCEPT ![a] = r]
    BY <1>2, <1>3, <1>4, <1>5 DEF DeleteUser, server
  <1>7. /\ r \in Seq(WritesOf(a)) /\ Len(q) \in Nat /\ Len(r) = Len(q) + 1
        /\ r[Len(r)] = w /\ \A i \in 1..Len(q) : r[i] = q[i]
    <2>1. PICK S : S = WritesOf(a)
      OBVIOUS
    <2>2. q \in Seq(S) /\ w \in S
      BY <1>3, <1>4, <2>1
    <2>3. /\ Append(q, w) \in Seq(S) /\ Len(q) \in Nat /\ Len(Append(q, w)) = Len(q) + 1
          /\ Append(q, w)[Len(q) + 1] = w /\ \A i \in 1..Len(q) : Append(q, w)[i] = q[i]
      BY <2>2
    <2> QED BY <1>5, <2>1, <2>3
  <1>8. /\ DOMAIN writes' = Accounts /\ writes'[a] = r
        /\ \A b \in Accounts : b # a => writes'[b] = writes[b]
    BY <1>1, <1>6 DEF Types
  <1>9. Types'
    <2>1. \A b \in Accounts : writes'[b] \in Seq(WritesOf(b))
      BY <1>1, <1>7, <1>8 DEF Types
    <2>2. Calls'
      BY <1>1, <1>6, CallsSame DEF Types
    <2> QED BY <1>1, <1>6, <1>8, <2>1, <2>2 DEF Types
  <1>10. /\ ~stray' => ~stray /\ ~Stray'
         /\ ~overtaken' => ~Crowded'
    BY <1>9, Observed
  <1>11. Known'
    <2>1. AllFirst(a)'
      <3>1. Continues(q, r)
        <4>1. \A i \in 1..Len(r) : i \notin 1..Len(q) => i = Len(r)
          BY <1>7
        <4> QED BY <1>4, <1>7, <4>1 DEF Continues, SameWrite
      <3> QED BY <1>1, <1>3, <1>6, <1>8, <3>1, AllFirstContinues DEF Known
    <2>2. \A b \in Accounts : b # a => AllFirst(b)'
      BY <1>1, <1>6, <1>8, QueueSame DEF Known
    <2>3. a \in logins
      BY <1>1, <1>2, NilIsNoRecord DEF Known
    <2> QED BY <1>1, <1>6, <1>8, <2>1, <2>2, <2>3 DEF Known
  <1>12. ~stray' => Updates(a)' = {} /\ answers' = <<>>
    <2> SUFFICES ASSUME ~stray' PROVE Updates(a)' = {} /\ answers' = <<>>
      OBVIOUS
    <2>1. Straight'
      BY <1>9, <1>10, StraightNext
    <2>2. UnderWay(a)' = 0 /\ Counted(a)'
      BY <1>6, <1>9, <2>1, CountedNext DEF Straight
    <2> QED BY <2>2 DEF Counted
  <1>13. ASSUME ~stray'
         PROVE  Unstrayed'
    <2>1. Unstrayed /\ ~Stray'
      BY <1>10, <1>13 DEF Inv
    <2>2. CopiesOwn(a)'
      BY <1>12, <1>13 DEF CopiesOwn
    <2>3. NoneOnly(a)'
      <3>1. (\A i \in 1..Len(writes[a]) : writes[a][i].field = "none")'
        BY <1>9, <1>11, <1>12, <1>13, NoUpdateNext DEF Known
      <3> QED BY <3>1, <1>6, <1>12, <1>13 DEF NoneOnly
    <2>4. \A b \in Accounts : b # a => CopiesOwn(b)' /\ NoneOnly(b)'
      BY <1>1, <1>2, <1>6, <1>8, <2>1, QueueSame DEF Unstrayed
    <2> QED BY <1>6, <2>1, <2>2, <2>3, <2>4 DEF Unstrayed
  <1>14. ~stray' => \A b \in Accounts : auth' = b => Mirrors(b)'
    BY <1>2, <1>6, <1>12 DEF Mirrors
  <1> QED BY <1>9, <1>10, <1>11, <1>13, <1>14 DEF Inv

LEMMA DeletedKeeps ==
  ASSUME Inv, Deleted, Observe
  PROVE  Inv'
  <1>1. Types /\ Known
    BY DEF Inv
  <1>2. /\ leaving \in Accounts /\ leaving' = Nil /\ leaving \in logins
        /\ logins' = logins \ {leaving} /\ closed' = closed \cup {leaving}
        /\ auth' = IF auth = leaving THEN Nil ELSE auth
        /\ current' = current /\ playerId' = playerId /\ oneSignal' = oneSignal
        /\ users' = users /\ fetches' = fetches /\ creating' = creating
    BY <1>1 DEF Deleted, Types, Known
  <1>3. /\ SameAnswers /\ answers' \in Seq(Completions)
        /\ DOMAIN writes' = Accounts
        /\ \A b \in Accounts : writes'[b] \in Seq(WritesOf(b)) /\ Grown(writes[b], writes'[b], 0)
    <2>1. CASE auth = leaving
      <3>1. ScreenGoes
        BY <2>1 DEF Deleted
      <3> QED BY <1>1, <3>1, ScreenGoesIs
    <2>2. CASE auth # leaving
      <3>1. writes' = writes /\ answers' = answers
        BY <2>2 DEF Deleted
      <3> QED BY <1>1, <3>1, AnswersSame, GrownSame DEF Types
    <2> QED BY <2>1, <2>2
  <1>4. Types'
    <2>1. Calls'
      BY <1>1, <1>2 DEF Types, Calls
    <2> QED BY <1>1, <1>2, <1>3, <2>1 DEF Types
  <1>5. /\ ~stray' => ~stray /\ ~Stray'
        /\ ~overtaken' => ~Crowded' /\ (auth' \in {auth, Nil} => ~overtaken)
    BY <1>4, Observed
  <1>6. ASSUME NEW b \in Accounts, auth' = b
        PROVE  auth = b /\ writes' = writes /\ answers' = answers
    BY <1>2, <1>6, NilIsNoRecord DEF Deleted
  <1>7. ASSUME NEW b \in Accounts
        PROVE  /\ AllFirst(b)' /\ (writes[b] = <<>> => writes'[b] = <<>>)
               /\ CopiesOwn(b) => CopiesOwn(b)'
               /\ NoneOnly(b) => NoneOnly(b)'
    <2>1. PICK q, r : q = writes[b] /\ r = writes'[b] /\ Grown(q, r, 0)
      BY <1>3
    <2>2. /\ AllFirst(b)' /\ (writes[b] = <<>> => writes'[b] = <<>>)
          /\ CopiesOwn(b) => CopiesOwn(b)'
          /\ NoneOnly(b) /\ auth' # b => NoneOnly(b)'
      BY <1>1, <1>2, <1>4, <2>1, OthersSame DEF Known
    <2>3. auth' = b /\ NoneOnly(b) => NoneOnly(b)'
      BY <1>2, <1>6 DEF NoneOnly
    <2> QED BY <2>2, <2>3
  <1>8. Known'
    <2>1. auth' \in logins' \cup {Nil} /\ leaving' \in logins' \cup {Nil}
      BY <1>1, <1>2 DEF Known
    <2>2. Accounts \ (logins' \cup closed') \subseteq Accounts \ (logins \cup closed)
      BY <1>2
    <2> QED BY <1>1, <1>2, <1>7, <2>1, <2>2 DEF Known
  <1>9. ASSUME ~stray'
        PROVE  Unstrayed'
    <2>1. Unstrayed /\ ~Stray'
      BY <1>5, <1>9 DEF Inv
    <2>2. current' = Nil \/ (auth' # Nil /\ current'.id = auth')
      BY <1>2, <2>1, NilIsNoRecord DEF Unstrayed
    <2> QED BY <1>2, <1>7, <2>1, <2>2 DEF Unstrayed
  <1>10. ASSUME ~overtaken', ~stray', NEW b \in Accounts, auth' = b
        PROVE  Mirrors(b)'
    <2>1. auth = b /\ ~overtaken /\ ~stray /\ writes' = writes /\ answers' = answers
      BY <1>2, <1>5, <1>6, <1>10
    <2>2. Mirrors(b) /\ Updates(b)' = Updates(b) /\ Base(b)' = Base(b)
      BY <1>1, <1>2, <2>1, QueueSame DEF Inv
    <2> QED BY <1>2, <2>1, <2>2 DEF Mirrors
  <1> QED BY <1>4, <1>5, <1>8, <1>9, <1>10 DEF Inv

--------------------------------------------------------------------------------
(* Every step keeps the invariant.                                             *)

LEMMA InitInv == Init => Inv
  <1> SUFFICES ASSUME Init PROVE Inv
    OBVIOUS
  <1>1. /\ auth = Nil /\ current = Nil /\ playerId = Nil /\ oneSignal \in OneSignal
        /\ logins = Existing /\ closed = {}
        /\ users = [a \in Accounts |->
                      IF a \in Existing
                      THEN [NewUser(a) EXCEPT !.profile = "full", !.blockedUsers = Blocked]
                      ELSE Nil]
        /\ writes = [a \in Accounts |-> <<>>] /\ answers = <<>>
        /\ fetches = [a \in Accounts |-> 0] /\ leaving = Nil
        /\ screen = "welcome" /\ listening = TRUE /\ creating = NoCalls
    BY DEF Init
  <1>2. ASSUME NEW a \in Accounts
        PROVE  users[a] \in Records \cup {Nil} /\ users[a] \in DocsOf(a)
    <2>1. PICK u : u = [NewUser(a) EXCEPT !.profile = "full", !.blockedUsers = Blocked]
      OBVIOUS
    <2>2. u \in Records /\ u.id = a /\ u.updatedAt = "registered"
      BY <2>1, BlockedAssumption DEF NewUser, Records
    <2> QED BY <1>1, <2>1, <2>2 DEF DocsOf
  <1>3. \A S : <<>> \in Seq(S)
    OBVIOUS
  <1>4. Types
    <2>1. users \in [Accounts -> Records \cup {Nil}]
      BY <1>1, <1>2
    <2>2. answers \in Seq(Completions) /\ \A a \in Accounts : writes[a] \in Seq(WritesOf(a))
      BY <1>1, <1>3
    <2>3. Calls
      BY <1>1 DEF Calls, NoCalls
    <2> QED BY <1>1, <2>1, <2>2, <2>3, AccountAssumption DEF Types
  <1>5. \A a \in Accounts : writes[a] = <<>> /\ Len(writes[a]) = 0 /\ DOMAIN writes[a] = {}
    <2>1. writes = [a \in Accounts |-> <<>>]
      BY <1>1
    <2> QED BY <2>1
  <1>6. Known
    <2>1. \A a \in Accounts \ (logins \cup closed) : users[a] = Nil
      BY <1>1
    <2>2. auth \in logins \cup {Nil} /\ leaving \in logins \cup {Nil}
      BY <1>1
    <2>3. \A a \in Accounts : AllFirst(a)
      BY <1>5 DEF AllFirst
    <2> QED BY <1>1, <1>2, <1>5, <2>1, <2>2, <2>3 DEF Known
  <1>7. Unstrayed
    <2>1. \A a \in Accounts : CopiesOwn(a) /\ NoneOnly(a)
      BY <1>5 DEF CopiesOwn, NoneOnly, Updates
    <2>2. ~Stray
      <3>1. auth = Nil /\ leaving = Nil /\ answers = <<>> /\ fetches = [a \in Accounts |-> 0]
        BY <1>1
      <3> QED BY <3>1 DEF Stray
    <2> QED BY <1>1, <2>1, <2>2 DEF Unstrayed
  <1>8. ~Crowded
    BY <1>1, <1>5 DEF Crowded
  <1>9. \A a \in Accounts : auth # a
    BY <1>1, NilIsNoRecord
  <1> QED BY <1>4, <1>6, <1>7, <1>8, <1>9 DEF Inv

LEMMA Stutter ==
  ASSUME Inv, UNCHANGED vars
  PROVE  Inv'
  <1>1. /\ auth' = auth /\ current' = current /\ playerId' = playerId /\ oneSignal' = oneSignal
        /\ logins' = logins /\ closed' = closed /\ users' = users
        /\ writes' = writes /\ answers' = answers /\ fetches' = fetches /\ leaving' = leaving
        /\ screen' = screen /\ listening' = listening /\ overtaken' = overtaken /\ stray' = stray
        /\ creating' = creating
    BY DEF vars, device, server, traffic, requests, view
  <1>2. Types'
    BY <1>1 DEF Inv, Types, Calls
  <1>3. Known'
    BY <1>1 DEF Inv, Known, AllFirst
  <1>4. \A a \in Accounts : Updates(a)' = Updates(a) /\ UnderWay(a)' = UnderWay(a) /\ Base(a)' = Base(a)
    BY <1>1 DEF Updates, UnderWay, Base
  <1>5. ~stray' => Unstrayed'
    <2>1. Stray' <=> Stray
      BY <1>1 DEF Stray, UnderWay, Updates, Creating
    <2> QED BY <1>1, <1>4, <2>1 DEF Inv, Unstrayed, CopiesOwn, NoneOnly
  <1>6. ~overtaken' => ~Crowded'
    <2>1. Crowded' <=> Crowded
      BY <1>1 DEF Crowded, UnderWay, Updates
    <2> QED BY <1>1, <2>1 DEF Inv
  <1>7. ASSUME ~overtaken', ~stray', NEW a \in Accounts, auth' = a
        PROVE  Mirrors(a)'
    <2>1. Mirrors(a)
      BY <1>1, <1>7 DEF Inv
    <2> QED BY <1>1, <1>4, <2>1 DEF Mirrors
  <1> QED BY <1>2, <1>3, <1>5, <1>6, <1>7 DEF Inv

(* The actions that leave the account, its record and the documents alone.     *)
Aside ==
  \/ Kill \/ BecomeActive \/ EnterBackground \/ OpenRegistration \/ Cancel
  \/ OpenEdit \/ Save \/ LeaveEdit \/ OpenBlocked \/ LeaveBlocked
  \/ \E u \in People : Block(u)
  \/ \E u \in People : Unblock(u) /\ (drawn = listed \/ overtaken')
  \/ \E a \in Accounts : Done(a) \/ RegisterFails(a)
  \/ AuthListener \/ ListAnswer \/ LateListAnswer \/ DeleteFails

LEMMA AsideQuiet ==
  ASSUME Types, Aside
  PROVE  Quiet /\ Types'
  <1>1. CASE Kill
    BY <1>1, RestartQuiet DEF Kill
  <1>2. CASE BecomeActive \/ EnterBackground
    BY <1>2, OnlineQuiet
  <1>3. CASE OpenRegistration \/ ListAnswer \/ DeleteFails
    BY <1>3, ScreensQuiet
  <1>4. CASE OpenEdit \/ OpenBlocked
    <2>1. CASE CurrentUser # Nil
      BY <1>4, <2>1, ScreensQuiet
    <2>2. CASE CurrentUser = Nil
      <3>1. Restart
        BY <1>4, <2>2 DEF OpenEdit, OpenBlocked
      <3> QED BY <3>1, RestartQuiet
    <2> QED BY <2>1, <2>2
  <1>5. CASE LateListAnswer
    <2>1. CASE auth # Nil
      BY <1>5, <2>1, ScreensQuiet
    <2>2. CASE auth = Nil
      <3>1. Restart
        BY <1>5, <2>2 DEF LateListAnswer
      <3> QED BY <3>1, RestartQuiet
    <2> QED BY <2>1, <2>2
  <1>6. CASE Save
    BY <1>6, SaveQuiet
  <1>7. CASE Cancel \/ LeaveEdit \/ LeaveBlocked
    BY <1>7, LeaveQuiet
  <1>8. ASSUME NEW u \in People, Block(u) PROVE Quiet /\ Types'
    BY <1>8, BlockQuiet
  <1>9. ASSUME NEW u \in People, Unblock(u), drawn = listed \/ overtaken' PROVE Quiet /\ Types'
    BY <1>9, UnblockQuiet
  <1>10. ASSUME NEW a \in Accounts, Done(a) \/ RegisterFails(a) PROVE Quiet /\ Types'
    BY <1>10, CreatingQuiet
  <1>11. CASE AuthListener
    BY <1>11, AuthListenerQuiet
  <1> QED BY <1>1, <1>2, <1>3, <1>4, <1>5, <1>6, <1>7, <1>8, <1>9, <1>10, <1>11 DEF Aside

(* The others, one by one. *)
LEMMA NextIs ==
  ASSUME Next
  PROVE  \/ Aside \/ Complete \/ Deleted \/ SignOut \/ SignOutThrows \/ DeleteUser
         \/ \E a \in Accounts : \/ Login(a) \/ Registered(a) \/ RegisteredLate(a)
                               \/ Apply(a) \/ Reject(a) \/ FetchAnswer(a) \/ FetchFails(a)
  <1>1. ASSUME NEW u \in People, Unblock(u) PROVE drawn = listed \/ overtaken'
    BY <1>1 DEF Next, Observe
  <1> QED BY <1>1 DEF Next, User, Callback, Aside

LEMMA NextInv ==
  ASSUME Inv, [Next]_vars
  PROVE  Inv'
  <1>1. CASE UNCHANGED vars
    BY <1>1, Stutter
  <1> SUFFICES ASSUME Next, Observe PROVE Inv'
    BY <1>1 DEF Next
  <1>2. CASE Aside
    <2>1. Types
      BY DEF Inv
    <2>2. Quiet /\ Types'
      BY <1>2, <2>1, AsideQuiet
    <2> QED BY <2>2, InvQuiet
  <1>3. ASSUME NEW a \in Accounts, Login(a) PROVE Inv'
    BY <1>3, LoginKeeps
  <1>4. ASSUME NEW a \in Accounts, Registered(a) \/ RegisteredLate(a) PROVE Inv'
    BY <1>4, RegisterKeeps
  <1>5. CASE SignOut
    <2>1. LogOut(FALSE)
      BY <1>5 DEF SignOut
    <2> QED BY <2>1, LogOutKeeps
  <1>6. CASE SignOutThrows
    <2>1. LogOut(TRUE)
      BY <1>6 DEF SignOutThrows
    <2> QED BY <2>1, LogOutKeeps
  <1>7. CASE DeleteUser
    BY <1>7, DeleteUserKeeps
  <1>8. CASE Complete
    BY <1>8, CompleteKeeps
  <1>9. CASE Deleted
    BY <1>9, DeletedKeeps
  <1>10. ASSUME NEW a \in Accounts, Apply(a) \/ Reject(a) PROVE Inv'
    BY <1>10, TakenKeeps
  <1>11. ASSUME NEW a \in Accounts, FetchAnswer(a) \/ FetchFails(a) PROVE Inv'
    BY <1>11, FetchKeeps
  <1> QED BY NextIs, <1>2, <1>3, <1>4, <1>5, <1>6, <1>7, <1>8, <1>9, <1>10, <1>11

(* The invariant holds in every state of every behaviour: what is sent and     *)
(* answered is of the types above, whose account has no login is unknown to    *)
(* the server, the copies under way are the account's own, and of two          *)
(* exchanges with the document one waits for the other.                        *)
THEOREM SessionInvariant == Spec => []Inv
  BY InitInv, NextInv, PTL DEF Spec

(* LocalIsOwn: the record every screen takes for the current user's is his own *)
(* or none, however many accounts use the device, as long as nothing under way *)
(* outlives the sign-in it belongs to.                                         *)
THEOREM OwnRecord == Spec => []LocalIsOwn
  <1>1. Inv => LocalIsOwn
    BY DEF Inv, Unstrayed, LocalIsOwn
  <1> QED BY <1>1, SessionInvariant, PTL

(* LocalMirrors: when nothing is under way and nothing overtook anything since *)
(* the sign-in, the local record is the document in all but the date of its    *)
(* update, which is never sent, or there is no document: after any number of   *)
(* updates, rejected or not, and of restarts.                                  *)
THEOREM MirrorsDocument == Spec => []LocalMirrors
  <1>1. Inv => LocalMirrors
    <2> SUFFICES ASSUME Inv, auth # Nil, UnderWay(auth) = 0, ~overtaken, ~stray, current # Nil
                 PROVE  users[auth] \in {AsSent(current), Nil}
      BY DEF LocalMirrors
    <2>1. PICK a \in Accounts : a = auth
      BY DEF Inv, Types
    <2>2. Types /\ AllFirst(a) /\ Mirrors(a)
      BY <2>1 DEF Inv, Known
    <2>3. Updates(a) = {} /\ answers = <<>>
      BY <2>1, <2>2, UpdatesCounted DEF Counted
    <2>4. Base(a) = users[a]
      BY <2>2, <2>3, NoUpdate
    <2> QED BY <2>1, <2>2, <2>3, <2>4 DEF Mirrors
  <1> QED BY <1>1, SessionInvariant, PTL

(* A document that stays one is changed by an update only. *)
LEMMA DocumentsChange ==
  ASSUME Inv, Next, NEW a \in Accounts, users'[a] # users[a]
  PROVE  Apply(a) \/ Reject(a)
  <1>1. Types
    BY DEF Inv
  <1>2. CASE Aside
    BY <1>1, <1>2, AsideQuiet DEF Quiet
  <1>3. CASE Complete
    BY <1>1, <1>3, CompletionIs DEF Completing, RestartWith
  <1>4. ASSUME NEW b \in Accounts,
               \/ Login(b) \/ Registered(b) \/ RegisteredLate(b) \/ FetchAnswer(b) \/ FetchFails(b)
        PROVE  FALSE
    BY <1>4 DEF Login, Registered, RegisteredLate, RestartWith, FetchAnswer, FetchFails, server
  <1>5. CASE SignOut \/ SignOutThrows \/ DeleteUser \/ Deleted
    BY <1>5 DEF SignOut, SignOutThrows, LogOut, DeleteUser, Deleted, server
  <1>6. ASSUME NEW b \in Accounts, Apply(b) \/ Reject(b) PROVE b = a
    BY <1>6, WritesTaken DEF Inv, Taken
  <1> QED BY NextIs, <1>2, <1>3, <1>4, <1>5, <1>6

(* OnlyMeantMove: as long as exchanges do not overtake each other, the list of *)
(* blocked users at the server loses or gains nobody but the user whose button *)
(* was pressed, although every block writes the whole list.                    *)
THEOREM BlocksAsMeant == Spec => OnlyMeantMove
  <1>1. ASSUME Inv, Next, NEW a \in Accounts, users[a] # Nil, users'[a] # Nil, ~overtaken, ~stray,
               users'[a].blockedUsers # users[a].blockedUsers
        PROVE  users'[a].blockedUsers = Toggled(users[a].blockedUsers, Head(writes[a]).about)
    <2>1. Apply(a) \/ Reject(a)
      BY <1>1, DocumentsChange
    <2>2. PICK w, failed : Taken(a, w, failed)
      BY <1>1, <2>1, WritesTaken DEF Inv
    <2>3. Types /\ Known /\ AllFirst(a) /\ Mirrors(a) /\ w \in WritesOf(a) /\ Head(writes[a]) = w
      BY <1>1, <2>2 DEF Inv, Known, Taken
    <2>4. ~failed /\ users'[a] = Applied(users[a], w)
      BY <1>1, <2>2 DEF Taken
    <2>5. PICK d \in DocsOf(a) : d = users[a]
      BY <2>3 DEF Types, Known
    <2>6. w.field # "none"
      BY <1>1, <2>3, <2>4, <2>5, AppliedIs
    <2>7. w.field # "all"
      BY <1>1, <2>2, <2>3 DEF AllFirst, Taken
    <2>8. IsUpdate(w)
      BY <2>3, <2>6, <2>7, WriteIs
    <2>9. MadeFrom(w, d) /\ users'[a] = AsSent(w.copy)
      BY <2>2, <2>3, <2>4, <2>5, <2>8, UpdateTaken
    <2>10. /\ AsSent(w.copy) = [d EXCEPT ![w.field] = w.copy[w.field]] /\ d \in Records
           /\ AsSent(w.copy).blockedUsers = w.copy.blockedUsers
      BY <1>1, <2>3, <2>5, <2>8, <2>9, WriteIs, AsSentIs DEF MadeFrom, DocsOf
    <2>11. w.field = "blockedUsers"
      <3> SUFFICES ASSUME w.field # "blockedUsers" PROVE FALSE
        OBVIOUS
      <3>1. [d EXCEPT ![w.field] = w.copy[w.field]].blockedUsers = d.blockedUsers
        BY <2>10 DEF Records
      <3> QED BY <1>1, <2>5, <2>9, <2>10, <3>1
    <2> QED BY <2>3, <2>5, <2>9, <2>10, <2>11 DEF MadeFrom
  <1>2. Inv /\ [Next]_vars =>
          [\A a \in Accounts :
             (users[a] # Nil /\ users'[a] # Nil /\ ~overtaken /\ ~stray
                 /\ users'[a].blockedUsers # users[a].blockedUsers)
             => users'[a].blockedUsers
                   = Toggled(users[a].blockedUsers, Head(writes[a]).about)]_vars
    BY <1>1
  <1> QED BY <1>2, SessionInvariant, PTL DEF Spec, OnlyMeantMove

================================================================================
