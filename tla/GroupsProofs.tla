----------------------------- MODULE GroupsProofs ------------------------------
(* Theorems about Groups, for any number of users, of chats on a stack, of     *)
(* things users do or fail: the group is what was meant, its recents follow,   *)
(* and everybody invited has one.                                              *)
EXTENDS Groups, NaturalsInduction, WellFoundedInduction, FiniteSetTheorems, TLAPS

--------------------------------------------------------------------------------
(* Types.                                                                      *)

GroupFields == {"name", "members", "push"}
RecentFields == GroupFields \cup {"shown"}

IsGroup(g) == g \in GroupDocs /\ g.push = g.members

(* What a screen holds of the group; nobody was invited who is in it. *)
Chats == {chat \in [group : GroupDocs \cup {Nil}, loading : BOOLEAN, invited : SUBSET Users] :
            /\ chat.group # Nil => /\ IsGroup(chat.group) /\ ~chat.loading
                                   /\ chat.invited \cap ToSet(chat.group.members) = {}
            /\ chat.group = Nil => chat.invited = {}}

IsGroupWrite(w) ==
  \/ w.op = "set" /\ IsGroup(w.fields)
  \/ w.op = "update" /\ w.fields \in [name : Nat]
  \/ /\ w.op = "update" /\ w.fields \in [members : Seq(Users), push : Seq(Users)]
     /\ w.fields.push = w.fields.members

IsRecentWrite(w) ==
  \/ w.op = "set" /\ DOMAIN w.fields = RecentFields
  \/ w.op = "update" /\ DOMAIN w.fields \subseteq GroupFields
  \/ w.op = "delete" /\ DOMAIN w.fields = {}

IsBatch(b) ==
  \/ b.on = "group" /\ IsGroupWrite(b.write)
  \/ b.on = "recents" /\ \A id \in DOMAIN b.writes : IsRecentWrite(b.writes[id])

Elements(q) == {q[i] : i \in 1..Len(q)}

IsQueue(q) == q \in Seq(Elements(q)) /\ \A b \in Elements(q) : IsBatch(b)

IsStore(s) ==
  /\ s = [group |-> s.group, recents |-> s.recents]
  /\ s.group # Nil => IsGroup(s.group)
  /\ \A id \in DOMAIN s.recents : DOMAIN s.recents[id] = RecentFields

IsCall(c) ==
  \/ c.kind = "create"
  \/ c.kind = "values" /\ DOMAIN c.values \subseteq GroupFields

QueuesTyped == DOMAIN writes = Users /\ \A u \in Users : IsQueue(writes[u])

CallsTyped == DOMAIN calls = Users /\ \A u \in Users : \A c \in calls[u] : IsCall(c)

Types ==
  /\ IsStore(store) /\ QueuesTyped /\ CallsTyped
  /\ screens \in [Users -> Seq(Chats)]
  /\ inputs \in Nat
  /\ meant \in {Nil} \cup [name : Nat, members : SUBSET Users]
  /\ crossed \in BOOLEAN /\ muted \in BOOLEAN /\ gone \subseteq Users /\ lost \in BOOLEAN

--------------------------------------------------------------------------------
(* The invariant.                                                              *)

Untouched ==
  /\ store.group = Nil /\ DOMAIN store.recents = {}
  /\ \A u \in Users : writes[u] = <<>> /\ calls[u] = {} /\ screens[u] = <<>>

(* The batches that have not reached the server, the calls without an answer.  *)
OnWay == UNION {Elements(writes[u]) : u \in Users}
Asked == UNION {calls[u] : u \in Users}

SetsRecent(b, id) == b.on = "recents" /\ id \in DOMAIN b.writes /\ b.writes[id].op = "set"

Deletes(b, id) == b.on = "recents" /\ id \in DOMAIN b.writes /\ b.writes[id].op = "delete"

(* A recent is deleted by nobody but its owner. *)
OwnDeleted == \A b \in OnWay : \A id : Deletes(b, id) => id.owner \in gone

(* What a field should be when list are the group's members. *)
Right(list, f, value) ==
  /\ f = "name" => value = meant.name
  /\ f \in {"members", "push"} => value = list

FieldsRight(list, F, doc) == \A f \in F \cap DOMAIN doc : Right(list, f, doc[f])

(* The group's document is right wherever no write will make it so. *)
GroupFollows(list) ==
  /\ \A b \in OnWay : b.on = "group" => FieldsRight(list, GroupFields, b.write.fields)
  /\ store.group = Nil => \E b \in OnWay : b.on = "group" /\ b.write.op = "set"
  /\ \A f \in GroupFields :
        \/ store.group # Nil /\ Right(list, f, store.group[f])
        \/ \E b \in OnWay : b.on = "group" /\ f \in DOMAIN b.write.fields

(* Muting changes the lists; the name is right all the same. *)
Followed == IF muted THEN {"name"} ELSE GroupFields

CallRight(list, c) ==
  /\ c.kind = "create" =>
        FieldsRight(list, Followed, [name |-> c.name, members |-> c.list, push |-> c.list])
  /\ c.kind = "values" => FieldsRight(list, Followed, c.values)

BatchRight(list, b) ==
  b.on = "recents" => \A id \in DOMAIN b.writes : FieldsRight(list, Followed, b.writes[id].fields)

(* b writes field f of the recent id, or deletes it. *)
Rewrites(b, id, f) ==
  /\ b.on = "recents" /\ id \in DOMAIN b.writes
  /\ b.writes[id].op = "delete" \/ f \in DOMAIN b.writes[id].fields

AllFollow(list) ==
  /\ \A b \in OnWay : BatchRight(list, b)
  /\ \A c \in Asked : CallRight(list, c)
  /\ \A id \in DOMAIN store.recents, f \in Followed :
        \/ Right(list, f, store.recents[id][f])
        \/ \E b \in OnWay : Rewrites(b, id, f)
        \/ \E c \in Asked : c.kind = "values" /\ f \in DOMAIN c.values

Agree ==
  \E list \in Seq(Users) : /\ ToSet(list) = meant.members
                           /\ GroupFollows(list)
                           /\ ~lost => AllFollow(list)

(* v has a recent, or will have. *)
Asks(c, v) == c.kind = "create" /\ c.list \in Seq(Users) /\ v \in ToSet(c.list)

Cared(v) ==
  \/ \E id \in DOMAIN store.recents : id.owner = v
  \/ \E b \in OnWay : \E id : SetsRecent(b, id) /\ id.owner = v
  \/ \E c \in Asked : Asks(c, v)

Inv ==
  /\ Types /\ OwnDeleted
  /\ meant = Nil => Untouched
  /\ meant # Nil /\ ~crossed => Agree
  /\ meant # Nil /\ ~lost => \A v \in meant.members \ gone : Cared(v)

--------------------------------------------------------------------------------
(* Data.                                                                       *)

LEMMA SeqIs ==
  ASSUME NEW S
  PROVE  /\ \A s \in Seq(S) : /\ Len(s) \in Nat /\ DOMAIN s = 1..Len(s)
                             /\ \A i \in 1..Len(s) : s[i] \in S
         /\ \A n \in Nat : \A f : f \in [1..n -> S] => f \in Seq(S) /\ Len(f) = n
  OBVIOUS

LEMMA QueueIs ==
  ASSUME NEW q, IsQueue(q)
  PROVE  /\ Len(q) \in Nat
         /\ \A i \in 1..Len(q) : q[i] \in Elements(q)
         /\ \A b \in Elements(q) : IsBatch(b)
         /\ q = <<>> <=> Elements(q) = {}
  <1>1. PICK S : S = Elements(q)
    OBVIOUS
  <1>2. q \in Seq(S)
    BY <1>1 DEF IsQueue
  <1>3. Len(q) \in Nat /\ (q = <<>> <=> Len(q) = 0)
    BY <1>2
  <1>4. q = <<>> <=> Elements(q) = {}
    <2>1. ASSUME Len(q) = 0 PROVE Elements(q) = {}
      BY <2>1 DEF Elements
    <2>2. ASSUME Len(q) # 0 PROVE q[1] \in Elements(q)
      <3>1. 1 \in 1..Len(q)
        BY <2>2, <1>3
      <3> QED BY <3>1 DEF Elements
    <2> QED BY <2>1, <2>2, <1>3
  <1> QED BY <1>3, <1>4 DEF IsQueue, Elements

LEMMA EmptyQueue == IsQueue(<<>>) /\ Elements(<<>>) = {}
  <1>1. Elements(<<>>) = {}
    BY DEF Elements
  <1>2. <<>> \in Seq({})
    OBVIOUS
  <1> QED BY <1>1, <1>2 DEF IsQueue

LEMMA QueueGrows ==
  ASSUME NEW q, IsQueue(q), NEW b, IsBatch(b)
  PROVE  IsQueue(Append(q, b)) /\ Elements(Append(q, b)) = Elements(q) \cup {b}
  <1>1. PICK S : S = Elements(q)
    OBVIOUS
  <1>2. q \in Seq(S)
    BY <1>1 DEF IsQueue
  <1>3. PICK T : T = S \cup {b}
    OBVIOUS
  <1>4. q \in Seq(T) /\ b \in T
    BY <1>2, <1>3
  <1>5. PICK p : p = Append(q, b)
    OBVIOUS
  <1>6. /\ p \in Seq(T) /\ Len(q) \in Nat /\ Len(p) = Len(q) + 1
        /\ \A i \in 1..Len(q) : p[i] = q[i]
        /\ p[Len(q) + 1] = b
    BY <1>4, <1>5
  <1>7. \A i \in 1..Len(p) : i \in 1..Len(q) \/ i = Len(q) + 1
    BY <1>6
  <1>8. Len(q) + 1 \in 1..Len(p) /\ \A i \in 1..Len(q) : i \in 1..Len(p)
    BY <1>6
  <1>9. Elements(p) = Elements(q) \cup {b}
    BY <1>6, <1>7, <1>8 DEF Elements
  <1>10. p \in Seq(Elements(p))
    BY <1>1, <1>3, <1>6, <1>9
  <1>11. \A c \in Elements(p) : IsBatch(c)
    BY <1>9 DEF IsQueue
  <1> QED BY <1>5, <1>9, <1>10, <1>11 DEF IsQueue

LEMMA QueueShrinks ==
  ASSUME NEW q, IsQueue(q), q # <<>>
  PROVE  /\ IsQueue(Tail(q)) /\ Elements(q) = Elements(Tail(q)) \cup {Head(q)}
         /\ IsBatch(Head(q))
  <1>1. PICK S : S = Elements(q)
    OBVIOUS
  <1>2. q \in Seq(S)
    BY <1>1 DEF IsQueue
  <1>3. PICK p : p = Tail(q)
    OBVIOUS
  <1>4. /\ p \in Seq(S) /\ Len(q) \in Nat /\ Len(p) = Len(q) - 1 /\ Len(q) > 0
        /\ \A i \in 1..Len(p) : p[i] = q[i + 1]
        /\ Head(q) = q[1]
    BY <1>2, <1>3
  <1>5. \A i \in 1..Len(q) : i = 1 \/ (i - 1 \in 1..Len(p) /\ i = (i - 1) + 1)
    BY <1>4
  <1>6. 1 \in 1..Len(q) /\ \A i \in 1..Len(p) : i + 1 \in 1..Len(q)
    BY <1>4
  <1>7. Elements(q) = Elements(p) \cup {Head(q)}
    <2>1. ASSUME NEW b \in Elements(q) PROVE b \in Elements(p) \cup {Head(q)}
      <3>1. PICK i \in 1..Len(q) : b = q[i]
        BY DEF Elements
      <3>2. CASE i = 1
        BY <3>1, <3>2, <1>4
      <3>3. CASE i # 1
        <4>1. i - 1 \in 1..Len(p) /\ b = p[i - 1]
          BY <3>1, <3>3, <1>4, <1>5
        <4> QED BY <4>1 DEF Elements
      <3> QED BY <3>2, <3>3
    <2>2. ASSUME NEW b \in Elements(p) PROVE b \in Elements(q)
      <3>1. PICK i \in 1..Len(p) : b = p[i]
        BY DEF Elements
      <3>2. b = q[i + 1] /\ i + 1 \in 1..Len(q)
        BY <3>1, <1>4, <1>6
      <3> QED BY <3>2 DEF Elements
    <2>3. Head(q) \in Elements(q)
      BY <1>4, <1>6 DEF Elements
    <2> QED BY <2>1, <2>2, <2>3
  <1>8. p \in Seq(Elements(p))
    <2>1. \A i \in 1..Len(p) : p[i] \in Elements(p)
      BY DEF Elements
    <2> QED BY <2>1, <1>4
  <1> QED BY <1>3, <1>7, <1>8 DEF IsQueue

LEMMA NilIs == Nil \notin GroupDocs /\ Nil \notin [name : Nat, members : SUBSET Users]
  BY NilAssumption

(* What a write makes of the group's document. *)
LEMMA WrittenGroupIs ==
  ASSUME NEW g, g # Nil => IsGroup(g), NEW w, IsGroupWrite(w)
  PROVE  LET h == WrittenGroup(g, w)
         IN  /\ h # Nil => IsGroup(h)
             /\ h = Nil <=> g = Nil /\ w.op # "set"
             /\ DOMAIN w.fields \subseteq GroupFields
             /\ w.op = "set" => DOMAIN w.fields = GroupFields
             /\ h # Nil => \A f \in GroupFields :
                              h[f] = IF f \in DOMAIN w.fields THEN w.fields[f] ELSE g[f]
  <1> DEFINE h == WrittenGroup(g, w)
  <1>1. CASE w.op = "set"
    <2>1. h = w.fields /\ IsGroup(w.fields)
      BY <1>1 DEF WrittenGroup, IsGroupWrite
    <2>2. DOMAIN w.fields = GroupFields
      BY <2>1 DEF IsGroup, GroupDocs, GroupFields
    <2>3. h # Nil
      BY <2>1, NilIs DEF IsGroup
    <2> QED BY <1>1, <2>1, <2>2, <2>3
  <1>2. CASE w.op = "update" /\ w.fields \in [name : Nat]
    <2>1. DOMAIN w.fields = {"name"} /\ w.fields.name \in Nat
      BY <1>2
    <2>2. CASE g = Nil
      BY <1>2, <2>1, <2>2 DEF WrittenGroup, GroupFields
    <2>3. CASE g # Nil
      <3>1. g \in GroupDocs /\ g.push = g.members
        BY <2>3 DEF IsGroup
      <3>2. h = [f \in GroupFields |-> IF f = "name" THEN w.fields["name"] ELSE g[f]]
        BY <1>2, <2>1, <2>3, <3>1 DEF WrittenGroup, Merged, GroupDocs, GroupFields
      <3>3. h \in GroupDocs
        BY <3>1, <3>2, <2>1 DEF GroupDocs, GroupFields
      <3>4. h.push = h.members
        BY <3>1, <3>2 DEF GroupFields
      <3>5. \A f \in GroupFields : h[f] = IF f \in DOMAIN w.fields THEN w.fields[f] ELSE g[f]
        BY <3>2, <2>1
      <3>6. h # Nil
        BY <3>3, NilIs
      <3> QED BY <1>2, <2>1, <2>3, <3>3, <3>4, <3>5, <3>6 DEF IsGroup, GroupFields
    <2> QED BY <2>2, <2>3
  <1>3. CASE /\ w.op = "update" /\ w.fields \in [members : Seq(Users), push : Seq(Users)]
             /\ w.fields.push = w.fields.members
    <2>1. /\ DOMAIN w.fields = {"members", "push"}
          /\ w.fields["members"] \in Seq(Users) /\ w.fields["push"] \in Seq(Users)
          /\ w.fields["push"] = w.fields["members"]
      BY <1>3
    <2>2. CASE g = Nil
      BY <1>3, <2>1, <2>2 DEF WrittenGroup, GroupFields
    <2>3. CASE g # Nil
      <3>1. g \in GroupDocs /\ g.push = g.members
        BY <2>3 DEF IsGroup
      <3>2. h = [f \in GroupFields |-> IF f \in {"members", "push"} THEN w.fields[f] ELSE g[f]]
        BY <1>3, <2>1, <2>3, <3>1 DEF WrittenGroup, Merged, GroupDocs, GroupFields
      <3>3. h \in GroupDocs
        BY <3>1, <3>2, <2>1 DEF GroupDocs, GroupFields
      <3>4. h.push = h.members
        BY <3>2, <2>1 DEF GroupFields
      <3>5. \A f \in GroupFields : h[f] = IF f \in DOMAIN w.fields THEN w.fields[f] ELSE g[f]
        BY <3>2, <2>1
      <3>6. h # Nil
        BY <3>3, NilIs
      <3> QED BY <1>3, <2>1, <2>3, <3>3, <3>4, <3>5, <3>6 DEF IsGroup, GroupFields
    <2> QED BY <2>2, <2>3
  <1> QED BY <1>1, <1>2, <1>3 DEF IsGroupWrite

(* What a batch makes of the documents. *)
LEMMA AppliedIs ==
  ASSUME NEW s, IsStore(s), NEW b, IsBatch(b)
  PROVE  LET t == Applied(s, b)
         IN  /\ IsStore(t)
             /\ b.on = "group" => /\ IsGroupWrite(b.write) /\ t.recents = s.recents
                                  /\ t.group = WrittenGroup(s.group, b.write)
             /\ b.on = "recents" => t.group = s.group
             /\ \A id : id \in DOMAIN t.recents <=>
                   SetsRecent(b, id) \/ (id \in DOMAIN s.recents /\ ~Deletes(b, id))
             /\ b.on = "recents" => \A id \in DOMAIN t.recents, f \in GroupFields :
                   t.recents[id][f] =
                      IF id \in DOMAIN b.writes /\ f \in DOMAIN b.writes[id].fields
                      THEN b.writes[id].fields[f] ELSE s.recents[id][f]
  <1> DEFINE t == Applied(s, b)
  <1>0. /\ s = [group |-> s.group, recents |-> s.recents]
        /\ s.group # Nil => IsGroup(s.group)
        /\ \A id \in DOMAIN s.recents : DOMAIN s.recents[id] = RecentFields
    BY DEF IsStore
  <1>1. CASE b.on = "group"
    <2>1. IsGroupWrite(b.write)
      BY <1>1 DEF IsBatch
    <2>2. t = [group |-> WrittenGroup(s.group, b.write), recents |-> s.recents]
      BY <1>0, <1>1 DEF Applied
    <2>3. WrittenGroup(s.group, b.write) # Nil => IsGroup(WrittenGroup(s.group, b.write))
      BY <2>1, <1>0, WrittenGroupIs
    <2>4. IsStore(t)
      BY <2>2, <2>3, <1>0 DEF IsStore
    <2> QED BY <1>1, <2>1, <2>2, <2>4 DEF SetsRecent, Deletes
  <1>2. CASE b.on = "recents"
    <2> DEFINE ws == b.writes
               r == WrittenRecents(s.recents, ws)
    <2>1. t = [group |-> s.group, recents |-> r]
      BY <1>0, <1>2 DEF Applied
    <2>2. \A id \in DOMAIN ws : IsRecentWrite(ws[id])
      BY <1>2 DEF IsBatch
    <2>3. \A id : /\ SetsRecent(b, id) <=> id \in DOMAIN ws /\ ws[id].op = "set"
                  /\ Deletes(b, id) <=> id \in DOMAIN ws /\ ws[id].op = "delete"
      BY <1>2 DEF SetsRecent, Deletes
    <2> DEFINE made == {id \in DOMAIN ws : ws[id].op = "set"}
               deleted == {id \in DOMAIN ws : ws[id].op = "delete"}
    <2>4. r = [id \in (DOMAIN s.recents \ deleted) \cup made |->
                  IF id \in made THEN ws[id].fields
                  ELSE IF id \in DOMAIN ws THEN Merged(s.recents[id], ws[id].fields)
                  ELSE s.recents[id]]
      BY DEF WrittenRecents
    <2> HIDE DEF r
    <2>5. \A id : id \in DOMAIN r <=> SetsRecent(b, id) \/ (id \in DOMAIN s.recents /\ ~Deletes(b, id))
      BY <2>3, <2>4
    <2>6. ASSUME NEW id \in DOMAIN r
          PROVE  /\ DOMAIN r[id] = RecentFields
                 /\ \A f \in GroupFields :
                      r[id][f] = IF id \in DOMAIN ws /\ f \in DOMAIN ws[id].fields
                                 THEN ws[id].fields[f] ELSE s.recents[id][f]
      <3>1. CASE SetsRecent(b, id)
        <4>1. r[id] = ws[id].fields /\ id \in DOMAIN ws /\ ws[id].op = "set"
          BY <2>3, <2>4, <3>1
        <4>2. DOMAIN ws[id].fields = RecentFields
          BY <4>1, <2>2 DEF IsRecentWrite
        <4> QED BY <4>1, <4>2 DEF RecentFields
      <3>2. CASE ~SetsRecent(b, id) /\ id \in DOMAIN ws
        <4>1. id \in DOMAIN s.recents /\ ws[id].op # "set" /\ ws[id].op # "delete"
          BY <2>3, <2>5, <3>2
        <4>2. r[id] = Merged(s.recents[id], ws[id].fields)
          BY <2>4, <3>2, <4>1
        <4>3. DOMAIN s.recents[id] = RecentFields
          BY <4>1, <1>0
        <4>4. r[id] = [f \in RecentFields |-> IF f \in DOMAIN ws[id].fields THEN ws[id].fields[f]
                                              ELSE s.recents[id][f]]
          BY <4>2, <4>3 DEF Merged
        <4> QED BY <4>4, <3>2 DEF RecentFields
      <3>3. CASE id \notin DOMAIN ws
        <4>1. id \in DOMAIN s.recents /\ r[id] = s.recents[id]
          BY <2>3, <2>4, <2>5, <3>3
        <4> QED BY <4>1, <3>3, <1>0
      <3> QED BY <3>1, <3>2, <3>3
    <2>7. IsStore(t)
      BY <2>1, <2>6, <1>0 DEF IsStore
    <2> QED BY <1>2, <2>1, <2>5, <2>6, <2>7
  <1> QED BY <1>1, <1>2 DEF IsBatch

LEMMA SetInduction ==
  ASSUME NEW T, 0 \in T, \A n \in Nat : n \in T => n + 1 \in T
  PROVE  \A n \in Nat : n \in T
  <1> SUFFICES ASSUME NEW n \in Nat, n \notin T PROVE FALSE
    OBVIOUS
  <1> DEFINE M == {k \in Nat : k \notin T}
  <1>1. M # {} /\ M \subseteq Nat
    OBVIOUS
  <1>2. IsWellFoundedOn(OpToRel(<, Nat), Nat)
    BY NatLessThanWellFounded
  <1> HIDE DEF M
  <1>3. \E x \in M : \A y \in M : ~ (<<y, x>> \in OpToRel(<, Nat))
    BY <1>1, <1>2, WFMin
  <1>4. PICK x \in M : \A y \in M : ~ (y < x)
    BY <1>3, <1>1 DEF OpToRel
  <1>5. x \in Nat /\ x \notin T /\ x # 0
    BY <1>4 DEF M
  <1>6. x - 1 \in Nat /\ x - 1 < x /\ (x - 1) + 1 = x
    BY <1>5
  <1>7. x - 1 \in T
    BY <1>6, <1>4 DEF M
  <1> QED BY <1>5, <1>6, <1>7

(* after tells what the first n writes of q make of d.                         *)
Afters(after, d, q, n) ==
  /\ after[0] = d
  /\ \A m \in 1..n : after[m] = Applied(after[m - 1], q[m])

LEMMA AftersExist ==
  ASSUME NEW d, NEW q, Len(q) \in Nat
  PROVE  \E after : DOMAIN after = 0..Len(q) /\ after = [n \in 0..Len(q) |-> after[n]]
                    /\ Afters(after, d, q, Len(q))
  <1> DEFINE T == {n \in Nat : \E f : /\ DOMAIN f = 0..n /\ f = [m \in 0..n |-> f[m]]
                                      /\ Afters(f, d, q, n)}
  <1>1. 0 \in T
    <2> DEFINE f == [m \in 0..0 |-> d]
    <2>1. DOMAIN f = 0..0 /\ f = [m \in 0..0 |-> f[m]] /\ Afters(f, d, q, 0)
      BY DEF Afters
    <2> QED BY <2>1
  <1>2. ASSUME NEW n \in Nat, n \in T
        PROVE  n + 1 \in T
    <2>1. PICK f : DOMAIN f = 0..n /\ f = [m \in 0..n |-> f[m]] /\ Afters(f, d, q, n)
      BY <1>2
    <2> DEFINE v == Applied(f[n], q[n + 1])
               g == [m \in 0..(n + 1) |-> IF m <= n THEN f[m] ELSE v]
    <2> HIDE DEF v
    <2>2. /\ DOMAIN g = 0..(n + 1) /\ g = [m \in 0..(n + 1) |-> g[m]]
          /\ \A m \in 0..n : g[m] = f[m]
          /\ g[n + 1] = v
      OBVIOUS
    <2> HIDE DEF g
    <2>3. g[0] = d
      BY <2>1, <2>2 DEF Afters
    <2>4. ASSUME NEW m \in 1..(n + 1)
          PROVE  g[m] = Applied(g[m - 1], q[m])
      <3>1. CASE m <= n
        <4>1. m \in 1..n /\ m \in 0..n /\ m - 1 \in 0..n
          BY <3>1
        <4> QED BY <4>1, <2>1, <2>2 DEF Afters
      <3>2. CASE m = n + 1
        <4>1. m - 1 = n /\ n \in 0..n
          BY <3>2
        <4> QED BY <4>1, <3>2, <2>2 DEF v
      <3> QED BY <3>1, <3>2
    <2>5. Afters(g, d, q, n + 1)
      BY <2>3, <2>4 DEF Afters
    <2> QED BY <2>2, <2>5
  <1> HIDE DEF T
  <1>3. \A n \in Nat : n \in T
    BY <1>1, <1>2, SetInduction
  <1> QED BY <1>3 DEF T

LEMMA SeenAfters ==
  ASSUME NEW u, Len(writes[u]) \in Nat
  PROVE  \E after : /\ Afters(after, store, writes[u], Len(writes[u]))
                    /\ Seen(u) = after[Len(writes[u])]
  <1> DEFINE q == writes[u]
             Eq(f) == f = [n \in 0..Len(q) |->
                        IF n = 0 THEN store ELSE Applied(f[n - 1], q[n])]
             h == CHOOSE f : Eq(f)
  <1>1. PICK g : DOMAIN g = 0..Len(q) /\ g = [n \in 0..Len(q) |-> g[n]]
                 /\ Afters(g, store, q, Len(q))
    BY AftersExist
  <1>2. Eq(g)
    <2>1. ASSUME NEW n \in 0..Len(q)
          PROVE  g[n] = IF n = 0 THEN store ELSE Applied(g[n - 1], q[n])
      <3>1. n = 0 \/ n \in 1..Len(q)
        OBVIOUS
      <3> QED BY <3>1, <1>1 DEF Afters
    <2> QED BY <2>1, <1>1
  <1>3. Eq(h)
    BY <1>2
  <1>4. Seen(u) = h[Len(q)]
    BY DEF Seen
  <1>5. \A n \in 0..Len(q) : h[n] = IF n = 0 THEN store ELSE Applied(h[n - 1], q[n])
    BY <1>3
  <1> HIDE DEF h, Eq
  <1>6. Afters(h, store, q, Len(q))
    <2>1. 0 \in 0..Len(q) /\ \A m \in 1..Len(q) : m \in 0..Len(q) /\ m # 0
      OBVIOUS
    <2> QED BY <2>1, <1>5 DEF Afters
  <1> QED BY <1>4, <1>6

(* What a client sees: documents of the server, less what it deleted, and what *)
(* it set.                                                                     *)
Sees(s, q, n, t) ==
  /\ IsStore(t)
  /\ \A id \in DOMAIN t.recents :
        id \in DOMAIN s.recents \/ \E i \in 1..n : SetsRecent(q[i], id)
  /\ \A id \in DOMAIN s.recents :
        id \in DOMAIN t.recents \/ \E i \in 1..n : Deletes(q[i], id)

LEMMA SeenIs ==
  ASSUME NEW u, IsStore(store), IsQueue(writes[u])
  PROVE  /\ IsStore(Seen(u))
         /\ \A id \in DOMAIN Seen(u).recents :
               id \in DOMAIN store.recents \/ \E b \in Elements(writes[u]) : SetsRecent(b, id)
         /\ \A id \in DOMAIN store.recents :
               id \in DOMAIN Seen(u).recents \/ \E b \in Elements(writes[u]) : Deletes(b, id)
         /\ writes[u] = <<>> => Seen(u) = store
  <1>1. PICK q : q = writes[u]
    OBVIOUS
  <1>2. Len(q) \in Nat /\ \A i \in 1..Len(q) : q[i] \in Elements(q) /\ IsBatch(q[i])
    BY <1>1, QueueIs
  <1>3. PICK after : Afters(after, store, q, Len(q)) /\ Seen(u) = after[Len(q)]
    BY <1>1, <1>2, SeenAfters
  <1> DEFINE T == {n \in Nat : n <= Len(q) => Sees(store, q, n, after[n])}
  <1>4. 0 \in T
    <2>1. after[0] = store
      BY <1>3 DEF Afters
    <2> QED BY <2>1 DEF Sees
  <1>5. ASSUME NEW n \in Nat, n \in T
        PROVE  n + 1 \in T
    <2>1. SUFFICES ASSUME n + 1 <= Len(q) PROVE Sees(store, q, n + 1, after[n + 1])
      OBVIOUS
    <2>2. n <= Len(q) /\ n + 1 \in 1..Len(q) /\ (n + 1) - 1 = n
      BY <1>2, <2>1
    <2>3. Sees(store, q, n, after[n])
      BY <1>5, <2>2
    <2>4. after[n + 1] = Applied(after[n], q[n + 1])
      BY <1>3, <2>2 DEF Afters
    <2>5. IsBatch(q[n + 1]) /\ IsStore(after[n])
      BY <1>2, <2>2, <2>3 DEF Sees
    <2>6. PICK s, b, t : s = after[n] /\ b = q[n + 1] /\ t = after[n + 1]
      OBVIOUS
    <2>7. IsStore(t) /\ \A id : id \in DOMAIN t.recents <=>
             SetsRecent(b, id) \/ (id \in DOMAIN s.recents /\ ~Deletes(b, id))
      BY <2>4, <2>5, <2>6, AppliedIs
    <2>8. n + 1 \in 1..(n + 1) /\ \A i \in 1..n : i \in 1..(n + 1)
      OBVIOUS
    <2> HIDE DEF T
    <2>9. \A id \in DOMAIN t.recents :
             id \in DOMAIN store.recents \/ \E i \in 1..(n + 1) : SetsRecent(q[i], id)
      BY <2>3, <2>6, <2>7, <2>8 DEF Sees
    <2>10. \A id \in DOMAIN store.recents :
             id \in DOMAIN t.recents \/ \E i \in 1..(n + 1) : Deletes(q[i], id)
      BY <2>3, <2>6, <2>7, <2>8 DEF Sees
    <2> QED BY <2>6, <2>7, <2>9, <2>10 DEF Sees
  <1> HIDE DEF T
  <1>6. \A n \in Nat : n \in T
    BY <1>4, <1>5, SetInduction
  <1>7. Sees(store, q, Len(q), Seen(u))
    BY <1>2, <1>3, <1>6 DEF T
  <1>8. writes[u] = <<>> => Seen(u) = store
    <2>1. ASSUME q = <<>> PROVE Seen(u) = store
      <3>1. Len(q) = 0
        BY <2>1
      <3> QED BY <3>1, <1>3 DEF Afters
    <2> QED BY <2>1, <1>1
  <1> QED BY <1>1, <1>2, <1>7, <1>8 DEF Sees

--------------------------------------------------------------------------------
(* What the steps do to queues, calls and screens.                             *)

LEMMA OnWayIs ==
  ASSUME QueuesTyped
  PROVE  /\ \A b \in OnWay : IsBatch(b)
         /\ \A u \in Users : \A b \in Elements(writes[u]) : b \in OnWay
         /\ \A b \in OnWay : \E u \in Users : b \in Elements(writes[u])
  <1>1. \A b \in OnWay : \E u \in Users : b \in Elements(writes[u])
    BY DEF OnWay
  <1>2. \A u \in Users : \A b \in Elements(writes[u]) : IsBatch(b)
    BY DEF QueuesTyped, IsQueue
  <1> QED BY <1>1, <1>2 DEF OnWay

LEMMA AskedIs ==
  ASSUME CallsTyped
  PROVE  /\ \A c \in Asked : IsCall(c)
         /\ \A u \in Users : \A c \in calls[u] : c \in Asked
         /\ \A c \in Asked : \E u \in Users : c \in calls[u]
  BY DEF CallsTyped, Asked

LEMMA QueueStep ==
  ASSUME QueuesTyped, NEW u \in Users, NEW b, IsBatch(b), Queue(u, b)
  PROVE  QueuesTyped' /\ OnWay' = OnWay \cup {b}
  <1>1. /\ DOMAIN writes' = Users /\ writes'[u] = Append(writes[u], b)
        /\ \A v \in Users : v # u => writes'[v] = writes[v]
    BY DEF Queue, QueuesTyped
  <1>2. PICK q, p : q = writes[u] /\ p = writes'[u]
    OBVIOUS
  <1>3. IsQueue(p) /\ Elements(p) = Elements(q) \cup {b}
    BY <1>1, <1>2, QueueGrows DEF QueuesTyped
  <1>4. QueuesTyped'
    BY <1>1, <1>2, <1>3 DEF QueuesTyped
  <1>5. \A v \in Users : Elements(writes'[v]) = IF v = u THEN Elements(writes[v]) \cup {b}
                                                ELSE Elements(writes[v])
    BY <1>1, <1>2, <1>3
  <1>6. OnWay' = UNION {Elements(writes'[v]) : v \in Users}
    BY DEF OnWay
  <1>7. OnWay' = OnWay \cup {b}
    BY <1>5, <1>6 DEF OnWay
  <1> QED BY <1>4, <1>7

LEMMA QueueSomeStep ==
  ASSUME QueuesTyped, NEW u \in Users, NEW ids, NEW b, IsBatch(b), QueueSome(u, ids, b)
  PROVE  /\ QueuesTyped'
         /\ ids = {} => OnWay' = OnWay
         /\ ids # {} => OnWay' = OnWay \cup {b}
  <1>1. CASE ids = {}
    <2>1. writes' = writes
      BY <1>1 DEF QueueSome
    <2> QED BY <1>1, <2>1 DEF QueuesTyped, OnWay
  <1>2. CASE ids # {}
    BY <1>2, QueueStep DEF QueueSome
  <1> QED BY <1>1, <1>2

LEMMA ServeStep ==
  ASSUME QueuesTyped, IsStore(store), NEW u \in Users, Serve(u)
  PROVE  /\ QueuesTyped'
         /\ \E b : /\ IsBatch(b) /\ store' = Applied(store, b)
                   /\ OnWay = OnWay' \cup {b}
  <1>1. /\ DOMAIN writes' = Users /\ writes'[u] = Tail(writes[u]) /\ writes[u] # <<>>
        /\ \A v \in Users : v # u => writes'[v] = writes[v]
    BY DEF Serve, QueuesTyped
  <1>2. PICK q, p : q = writes[u] /\ p = writes'[u]
    OBVIOUS
  <1>3. PICK b : b = Head(q)
    OBVIOUS
  <1>4. IsQueue(p) /\ Elements(q) = Elements(p) \cup {b} /\ IsBatch(b)
    BY <1>1, <1>2, <1>3, QueueShrinks DEF QueuesTyped
  <1>5. QueuesTyped'
    BY <1>1, <1>2, <1>4 DEF QueuesTyped
  <1>6. \A v \in Users : Elements(writes[v]) = IF v = u THEN Elements(writes'[v]) \cup {b}
                                               ELSE Elements(writes'[v])
    BY <1>1, <1>2, <1>4
  <1>7. OnWay' = UNION {Elements(writes'[v]) : v \in Users}
    BY DEF OnWay
  <1>8. OnWay = OnWay' \cup {b}
    BY <1>6, <1>7 DEF OnWay
  <1> QED BY <1>2, <1>3, <1>4, <1>5, <1>8 DEF Serve

LEMMA AskStep ==
  ASSUME CallsTyped, NEW u \in Users, NEW C, \A c \in C : IsCall(c), Ask(u, C)
  PROVE  CallsTyped' /\ Asked' = Asked \cup C
  <1>1. /\ DOMAIN calls' = Users /\ calls'[u] = calls[u] \cup C
        /\ \A v \in Users : v # u => calls'[v] = calls[v]
    BY DEF Ask, CallsTyped
  <1>2. CallsTyped'
    BY <1>1 DEF CallsTyped
  <1>3. Asked' = UNION {calls'[v] : v \in Users}
    BY DEF Asked
  <1>4. Asked' = Asked \cup C
    BY <1>1, <1>3 DEF Asked
  <1> QED BY <1>2, <1>4

LEMMA AnsweredStep ==
  ASSUME CallsTyped, NEW u \in Users, NEW c \in calls[u], Answered(u, c)
  PROVE  CallsTyped' /\ Asked = Asked' \cup {c}
  <1>1. /\ DOMAIN calls' = Users /\ calls'[u] = calls[u] \ {c}
        /\ \A v \in Users : v # u => calls'[v] = calls[v]
    BY DEF Answered, CallsTyped
  <1>2. CallsTyped'
    BY <1>1 DEF CallsTyped
  <1>3. Asked' = UNION {calls'[v] : v \in Users}
    BY DEF Asked
  <1>4. Asked = Asked' \cup {c}
    BY <1>1, <1>3 DEF Asked
  <1> QED BY <1>2, <1>4

LEMMA TopIs ==
  ASSUME screens \in [Users -> Seq(Chats)], NEW u \in Users, screens[u] # <<>>
  PROVE  /\ Top(u) \in Chats /\ Front(screens[u]) \in Seq(Chats)
         /\ \A chat \in Chats : OnTop(u, chat) \in [Users -> Seq(Chats)]
         /\ \A chat \in Chats, next \in Chats :
               Front(screens[u]) \o <<chat, next>> \in Seq(Chats)
  <1>1. PICK S : S = Chats
    OBVIOUS
  <1>2. PICK s : s = screens[u]
    OBVIOUS
  <1>3. s \in Seq(S) /\ Len(s) \in Nat /\ Len(s) > 0
    BY <1>1, <1>2
  <1>4. s[Len(s)] \in S
    BY <1>3
  <1>5. SubSeq(s, 1, Len(s) - 1) \in Seq(S)
    BY <1>3
  <1>6. Front(s) \in Seq(S)
    BY <1>5 DEF Front
  <1>7. \A chat \in S : Append(Front(s), chat) \in Seq(S)
    BY <1>6
  <1>8. \A chat \in S, next \in S : Front(s) \o <<chat, next>> \in Seq(S)
    BY <1>6
  <1>9. \A chat \in S : OnTop(u, chat) \in [Users -> Seq(S)]
    BY <1>1, <1>2, <1>7 DEF OnTop
  <1> QED BY <1>1, <1>2, <1>4, <1>6, <1>8, <1>9 DEF Top

LEMMA NewChatIs == NewChat \in Chats
  BY DEF NewChat, Chats

(* Before there is a group nothing happens but that it is created. *)
LEMMA OnlyCreate ==
  ASSUME Types, Untouched, NEW u \in Users
  PROVE  screens[u] = <<>> /\ calls[u] = {} /\ writes[u] = <<>> /\ Rows(u) = {}
  <1>1. screens[u] = <<>> /\ calls[u] = {} /\ writes[u] = <<>> /\ DOMAIN store.recents = {}
    BY DEF Untouched
  <1>2. Seen(u) = store
    BY <1>1, SeenIs DEF Types, QueuesTyped
  <1>3. Rows(u) = {}
    BY <1>1, <1>2 DEF Rows
  <1> QED BY <1>1, <1>3

--------------------------------------------------------------------------------
(* Ways in which the parts of the invariant are kept.                          *)

(* What Inv says once there is a group. *)
Founded ==
  /\ Types /\ OwnDeleted
  /\ meant # Nil
  /\ ~crossed => Agree
  /\ ~lost => \A v \in meant.members \ gone : Cared(v)

LEMMA FoundedIsInv ==
  /\ Founded => Inv
  /\ Inv /\ meant # Nil => Founded
  BY DEF Founded, Inv

LEMMA GroupKept ==
  ASSUME NEW list, GroupFollows(list), store'.group = store.group, meant' = meant,
         \A b : b.on = "group" => (b \in OnWay' <=> b \in OnWay)
  PROVE  GroupFollows(list)'
  <1>1. \A F, doc : FieldsRight(list, F, doc)' <=> FieldsRight(list, F, doc)
    BY DEF FieldsRight, Right
  <1>2. \A b \in OnWay' : b.on = "group" => FieldsRight(list, GroupFields, b.write.fields)'
    BY <1>1 DEF GroupFollows
  <1>3. store'.group = Nil => \E b \in OnWay' : b.on = "group" /\ b.write.op = "set"
    BY DEF GroupFollows
  <1>4. \A f \in GroupFields :
          \/ store'.group # Nil /\ Right(list, f, store.group[f])'
          \/ \E b \in OnWay' : b.on = "group" /\ f \in DOMAIN b.write.fields
    BY DEF GroupFollows, Right
  <1> QED BY <1>2, <1>3, <1>4 DEF GroupFollows

(* A step that serves nothing, and what it queues and asks is right. *)
LEMMA AllFollowKept ==
  ASSUME NEW list, AllFollow(list), meant' = meant, Followed' \subseteq Followed,
         OnWay \subseteq OnWay',
         \A b \in OnWay' : b \in OnWay \/ BatchRight(list, b)',
         \A c \in Asked' : c \in Asked \/ CallRight(list, c)',
         \A id \in DOMAIN store'.recents :
            /\ id \in DOMAIN store.recents
            /\ \A f \in GroupFields : store'.recents[id][f] = store.recents[id][f],
         \A id \in DOMAIN store.recents, f \in GroupFields : \A c \in Asked :
            c.kind = "values" /\ f \in DOMAIN c.values =>
               c \in Asked' \/ \E b \in OnWay' : Rewrites(b, id, f)
  PROVE  AllFollow(list)'
  <1>1. Followed \subseteq GroupFields
    BY DEF Followed, GroupFields
  <1>2. \A doc : FieldsRight(list, Followed, doc) => FieldsRight(list, Followed, doc)'
    BY DEF FieldsRight, Right
  <1>3. \A b \in OnWay' : BatchRight(list, b)'
    <2>1. \A b : BatchRight(list, b) => BatchRight(list, b)'
      BY <1>2 DEF BatchRight
    <2> QED BY <2>1 DEF AllFollow
  <1>4. \A c \in Asked' : CallRight(list, c)'
    <2>1. \A c : CallRight(list, c) => CallRight(list, c)'
      BY <1>2 DEF CallRight
    <2> QED BY <2>1 DEF AllFollow
  <1>5. ASSUME NEW id \in DOMAIN store'.recents, NEW f \in Followed'
        PROVE  \/ Right(list, f, store.recents[id][f])'
               \/ \E b \in OnWay' : Rewrites(b, id, f)
               \/ \E c \in Asked' : c.kind = "values" /\ f \in DOMAIN c.values
    <2>1. f \in Followed /\ f \in GroupFields /\ id \in DOMAIN store.recents
      BY <1>1
    <2>2. CASE Right(list, f, store.recents[id][f])
      <3>1. store'.recents[id][f] = store.recents[id][f]
        BY <2>1
      <3> QED BY <2>2, <3>1 DEF Right
    <2>3. CASE \E b \in OnWay : Rewrites(b, id, f)
      BY <2>3
    <2>4. CASE \E c \in Asked : c.kind = "values" /\ f \in DOMAIN c.values
      BY <2>1, <2>4
    <2> QED BY <2>1, <2>2, <2>3, <2>4 DEF AllFollow
  <1>6. \A b, id, f : Rewrites(b, id, f)' <=> Rewrites(b, id, f)
    BY DEF Rewrites
  <1>7. \A id \in DOMAIN store'.recents, f \in Followed' :
          \/ Right(list, f, store.recents[id][f])'
          \/ \E b \in OnWay' : Rewrites(b, id, f)'
          \/ \E c \in Asked' : c.kind = "values" /\ f \in DOMAIN c.values
    BY <1>5, <1>6
  <1> QED BY <1>3, <1>4, <1>7 DEF AllFollow

LEMMA AgreeKept ==
  ASSUME Agree, store'.group = store.group, meant' = meant,
         \A b : b.on = "group" => (b \in OnWay' <=> b \in OnWay),
         ~lost' => ~lost /\ \A list : AllFollow(list) => AllFollow(list)'
  PROVE  Agree'
  <1>1. PICK list \in Seq(Users) :
           ToSet(list) = meant.members /\ GroupFollows(list) /\ (~lost => AllFollow(list))
    BY DEF Agree
  <1>2. GroupFollows(list)'
    BY <1>1, GroupKept
  <1>3. ~lost' => AllFollow(list)'
    BY <1>1
  <1>4. ToSet(list) = meant'.members
    BY <1>1
  <1> QED BY <1>2, <1>3, <1>4 DEF Agree

LEMMA CaredKept ==
  ASSUME NEW v, Cared(v), OnWay \subseteq OnWay',
         DOMAIN store.recents \subseteq DOMAIN store'.recents,
         \A c \in Asked : Asks(c, v) => c \in Asked' \/ Cared(v)'
  PROVE  Cared(v)'
  <1>1. CASE \E id \in DOMAIN store.recents : id.owner = v
    BY <1>1 DEF Cared
  <1>2. CASE \E b \in OnWay : \E id : SetsRecent(b, id) /\ id.owner = v
    <2>1. \E b \in OnWay' : \E id : SetsRecent(b, id) /\ id.owner = v
      BY <1>2
    <2> QED BY <2>1 DEF Cared, SetsRecent
  <1>3. CASE \E c \in Asked : Asks(c, v)
    <2>1. PICK c \in Asked : Asks(c, v)
      BY <1>3
    <2>2. CASE c \in Asked'
      BY <2>1, <2>2 DEF Cared, Asks
    <2> QED BY <2>1, <2>2
  <1> QED BY <1>1, <1>2, <1>3 DEF Cared

LEMMA OwnDeletedKept ==
  ASSUME OwnDeleted, gone \subseteq gone',
         \A b \in OnWay' : b \in OnWay \/ \A id : Deletes(b, id) => id.owner \in gone'
  PROVE  OwnDeleted'
  <1>1. \A b \in OnWay' : \A id : Deletes(b, id) => id.owner \in gone'
    BY DEF OwnDeleted
  <1> QED BY <1>1 DEF OwnDeleted, Deletes

(* All documents, queues and calls as they were. *)
LEMMA SameKept ==
  ASSUME Founded, Types',
         OnWay' = OnWay, Asked' = Asked, store' = store,
         meant' = meant, muted' = muted, gone' = gone,
         crossed' = crossed, lost' = lost
  PROVE  Founded'
  <1>1. OwnDeleted'
    BY OwnDeletedKept DEF Founded
  <1>2. ASSUME NEW list, AllFollow(list) PROVE AllFollow(list)'
    <2>1. Followed' = Followed
      BY DEF Followed
    <2> QED BY <1>2, <2>1, AllFollowKept
  <1>3. ~crossed' => Agree'
    BY <1>2, AgreeKept DEF Founded
  <1>4. \A v : Cared(v) => Cared(v)'
    BY CaredKept
  <1> QED BY <1>1, <1>3, <1>4 DEF Founded

--------------------------------------------------------------------------------
(* Steps that leave what is meant: screens and calls.                          *)

LEMMA BackKeeps ==
  ASSUME Founded, NEW u \in Users, Back(u), crossed' = crossed
  PROVE  Founded'
  <1>1. Front(screens[u]) \in Seq(Chats)
    BY TopIs DEF Founded, Types, Back
  <1>2. PICK S : S = Seq(Chats)
    OBVIOUS
  <1>3. screens' \in [Users -> Seq(Chats)]
    BY <1>1, <1>2 DEF Founded, Types, Back
  <1>4. UNCHANGED <<store, writes, calls, inputs, meant, muted, gone, lost>>
    BY DEF Back
  <1>5. Types'
    BY <1>3, <1>4 DEF Founded, Types, QueuesTyped, CallsTyped
  <1>6. OnWay' = OnWay /\ Asked' = Asked
    BY <1>4 DEF OnWay, Asked
  <1> QED BY <1>4, <1>5, <1>6, SameKept

LEMMA LoadKeeps ==
  ASSUME Founded, NEW u \in Users, crossed' = crossed,
         GroupLoaded(u) \/ GroupNotLoaded(u)
  PROVE  Founded'
  <1>1. PICK group : Load(u, group) /\ group \in {Nil, Seen(u).group} /\ inputs' \in Nat
    BY DEF GroupLoaded, GroupNotLoaded, Input, Founded, Types
  <1>2. group # Nil => IsGroup(group)
    <2>1. IsStore(Seen(u))
      BY SeenIs DEF Founded, Types, QueuesTyped
    <2> QED BY <1>1, <2>1 DEF IsStore
  <1>3. /\ screens[u] # <<>> /\ Top(u).loading
        /\ screens' = OnTop(u, [Top(u) EXCEPT !.group = group, !.loading = FALSE])
        /\ UNCHANGED <<store, writes, calls, meant, muted, gone, lost>>
    BY <1>1 DEF Load
  <1>4. PICK chat : chat = Top(u)
    OBVIOUS
  <1>5. chat \in Chats
    BY <1>3, <1>4, TopIs DEF Founded, Types
  <1>6. chat.group = Nil /\ chat.invited = {}
    BY <1>3, <1>4, <1>5 DEF Chats
  <1>7. [chat EXCEPT !.group = group, !.loading = FALSE] \in Chats
    BY <1>2, <1>5, <1>6 DEF Chats, IsGroup
  <1>8. screens' \in [Users -> Seq(Chats)]
    BY <1>3, <1>4, <1>7, TopIs DEF Founded, Types
  <1>9. Types'
    BY <1>1, <1>3, <1>8 DEF Founded, Types, QueuesTyped, CallsTyped
  <1>10. OnWay' = OnWay /\ Asked' = Asked
    BY <1>3 DEF OnWay, Asked
  <1> QED BY <1>3, <1>9, <1>10, SameKept

LEMMA SendKeeps ==
  ASSUME Founded, NEW u \in Users, Send(u), crossed' = crossed
  PROVE  Founded'
  <1> DEFINE new == Shown(store.recents)
  <1>1. /\ store' = [store EXCEPT !.recents = new] /\ inputs' \in Nat
        /\ UNCHANGED <<writes, calls, screens, meant, muted, gone, lost>>
    BY DEF Send, Input, Founded, Types
  <1>2. /\ DOMAIN new = DOMAIN store.recents
        /\ \A id \in DOMAIN new : new[id] = [store.recents[id] EXCEPT !.shown = TRUE]
    BY DEF Shown
  <1>3. /\ store = [group |-> store.group, recents |-> store.recents]
        /\ store.group # Nil => IsGroup(store.group)
        /\ \A id \in DOMAIN store.recents : DOMAIN store.recents[id] = RecentFields
    BY DEF Founded, Types, IsStore
  <1> HIDE DEF new
  <1>4. store' = [group |-> store.group, recents |-> new]
    BY <1>1, <1>3
  <1>5. \A id \in DOMAIN new : /\ DOMAIN new[id] = RecentFields
                               /\ \A f \in GroupFields : new[id][f] = store.recents[id][f]
    BY <1>2, <1>3 DEF GroupFields, RecentFields
  <1>6. IsStore(store)'
    BY <1>3, <1>4, <1>5 DEF IsStore
  <1>7. Types'
    BY <1>1, <1>6 DEF Founded, Types, QueuesTyped, CallsTyped
  <1>8. OnWay' = OnWay /\ Asked' = Asked /\ Followed' = Followed
    BY <1>1 DEF OnWay, Asked, Followed
  <1>9. OwnDeleted'
    BY <1>1, <1>8, OwnDeletedKept DEF Founded
  <1>10. ASSUME NEW list, AllFollow(list) PROVE AllFollow(list)'
    BY <1>1, <1>2, <1>4, <1>5, <1>8, <1>10, AllFollowKept
  <1>11. ~crossed' => Agree'
    BY <1>1, <1>4, <1>8, <1>10, AgreeKept DEF Founded
  <1>12. \A v : Cared(v) => Cared(v)'
    BY <1>2, <1>4, <1>8, CaredKept
  <1> QED BY <1>1, <1>7, <1>9, <1>11, <1>12 DEF Founded

LEMMA CrashKeeps ==
  ASSUME Founded, NEW u \in Users, Crash(u), inputs' \in Nat, crossed' = crossed
  PROVE  Founded'
  <1>1. /\ screens' = [screens EXCEPT ![u] = <<>>]
        /\ calls' = [calls EXCEPT ![u] = {}]
        /\ lost' = (lost \/ calls[u] # {})
        /\ UNCHANGED <<store, writes, meant, muted, gone>>
    BY DEF Crash
  <1>2. screens' \in [Users -> Seq(Chats)]
    <2>1. PICK S : S = Chats
      OBVIOUS
    <2>2. <<>> \in Seq(S)
      OBVIOUS
    <2>3. PICK T : T = Seq(S)
      OBVIOUS
    <2>4. screens \in [Users -> T] /\ <<>> \in T
      BY <2>1, <2>2, <2>3 DEF Founded, Types
    <2>5. screens' \in [Users -> T]
      BY <1>1, <2>4
    <2> QED BY <2>1, <2>3, <2>5
  <1>3. CallsTyped' /\ Asked' \subseteq Asked
    <2>1. /\ DOMAIN calls' = Users /\ calls'[u] = {}
          /\ \A v \in Users : v # u => calls'[v] = calls[v]
      BY <1>1 DEF Founded, Types, CallsTyped
    <2>2. Asked' = UNION {calls'[v] : v \in Users}
      BY DEF Asked
    <2>3. CallsTyped'
      BY <2>1 DEF Founded, Types, CallsTyped
    <2>4. Asked' \subseteq Asked
      BY <2>1, <2>2 DEF Asked
    <2> QED BY <2>3, <2>4
  <1>4. Types'
    BY <1>1, <1>2, <1>3 DEF Founded, Types, QueuesTyped
  <1>5. OnWay' = OnWay
    BY <1>1 DEF OnWay
  <1>6. CASE calls[u] = {}
    <2>1. lost' = lost
      BY <1>1, <1>6 DEF Founded, Types
    <2>2. Asked' = Asked
      <3>1. \A v \in Users : calls'[v] = calls[v]
        BY <1>1, <1>6 DEF Founded, Types, CallsTyped
      <3>2. Asked' = UNION {calls'[v] : v \in Users}
        BY DEF Asked
      <3> QED BY <3>1, <3>2 DEF Asked
    <2> QED BY <1>1, <1>4, <1>5, <2>1, <2>2, SameKept
  <1>7. CASE calls[u] # {}
    <2>1. lost'
      BY <1>1, <1>7
    <2>2. OwnDeleted'
      BY <1>1, <1>5, OwnDeletedKept DEF Founded
    <2>3. ~crossed' => Agree'
      BY <1>1, <1>5, <2>1, AgreeKept DEF Founded
    <2> QED BY <1>1, <1>4, <2>1, <2>2, <2>3 DEF Founded
  <1> QED BY <1>6, <1>7

LEMMA FailKeeps ==
  ASSUME Founded, NEW u \in Users, NEW c \in calls[u], Fail(u, c), crossed' = crossed
  PROVE  Founded'
  <1>1. /\ Answered(u, c) /\ lost' = TRUE /\ inputs' \in Nat
        /\ UNCHANGED <<writes, store, screens, meant, muted, gone>>
    BY DEF Fail, Answered, Input, Founded, Types
  <1>2. CallsTyped'
    BY <1>1, AnsweredStep DEF Founded, Types
  <1>3. Types'
    BY <1>1, <1>2 DEF Founded, Types, QueuesTyped
  <1>4. OnWay' = OnWay
    BY <1>1 DEF OnWay
  <1>5. OwnDeleted'
    BY <1>1, <1>4, OwnDeletedKept DEF Founded
  <1>6. ~crossed' => Agree'
    BY <1>1, <1>4, AgreeKept DEF Founded
  <1> QED BY <1>1, <1>3, <1>5, <1>6 DEF Founded

LEMMA MuteKeeps ==
  ASSUME Founded, NEW u \in Users, NEW id, Mute(u, id), crossed' = crossed
  PROVE  Founded'
  <1>1. PICK list : Ask(u, {ValuesCall([push |-> list])})
    BY DEF Mute
  <1>2. /\ muted' = TRUE /\ inputs' \in Nat
        /\ UNCHANGED <<store, writes, screens, meant, gone, lost>>
    BY DEF Mute, Input, Founded, Types
  <1>3. PICK c : c = ValuesCall([push |-> list])
    OBVIOUS
  <1>4. c.kind = "values" /\ c.values = [push |-> list] /\ DOMAIN c.values = {"push"}
    BY <1>3 DEF ValuesCall
  <1>5. IsCall(c)
    BY <1>4 DEF IsCall, GroupFields
  <1>6. CallsTyped' /\ Asked' = Asked \cup {c}
    BY <1>1, <1>3, <1>5, AskStep DEF Founded, Types
  <1>7. Types'
    BY <1>2, <1>6 DEF Founded, Types, QueuesTyped
  <1>8. OnWay' = OnWay /\ Followed' = {"name"} /\ Followed' \subseteq Followed
    BY <1>2 DEF OnWay, Followed, GroupFields
  <1>9. OwnDeleted'
    BY <1>2, <1>8, OwnDeletedKept DEF Founded
  <1>10. ASSUME NEW all, AllFollow(all) PROVE AllFollow(all)'
    <2>1. CallRight(all, c)'
      BY <1>4, <1>8 DEF CallRight, FieldsRight
    <2> QED BY <1>2, <1>6, <1>8, <1>10, <2>1, AllFollowKept
  <1>11. ~crossed' => Agree'
    BY <1>2, <1>8, <1>10, AgreeKept DEF Founded
  <1>12. \A v : Cared(v) => Cared(v)'
    BY <1>2, <1>6, <1>8, CaredKept
  <1> QED BY <1>2, <1>7, <1>9, <1>11, <1>12 DEF Founded

LEMMA DeleteRowKeeps ==
  ASSUME Founded, NEW u \in Users, NEW id \in Rows(u), DeleteRow(u, id), crossed' = crossed
  PROVE  Founded'
  <1>1. /\ Queue(u, DeleteRecent(id)) /\ gone' = gone \cup {u} /\ inputs' \in Nat
        /\ UNCHANGED <<store, calls, screens, meant, muted, lost>>
    BY DEF DeleteRow, Input, Founded, Types
  <1>2. PICK b : b = DeleteRecent(id)
    OBVIOUS
  <1>3. /\ b.on = "recents" /\ DOMAIN b.writes = {id} /\ b.writes[id].op = "delete"
        /\ DOMAIN b.writes[id].fields = {}
    BY <1>2 DEF DeleteRecent, RecentBatch, Write
  <1>4. IsBatch(b)
    BY <1>3 DEF IsBatch, IsRecentWrite
  <1>5. QueuesTyped' /\ OnWay' = OnWay \cup {b}
    BY <1>1, <1>2, <1>4, QueueStep DEF Founded, Types
  <1>6. Types'
    BY <1>1, <1>5 DEF Founded, Types, CallsTyped
  <1>7. Asked' = Asked /\ Followed' = Followed
    BY <1>1 DEF Asked, Followed
  <1>8. id.owner = u
    BY DEF Rows
  <1>9. OwnDeleted'
    <2>1. \A i : Deletes(b, i) => i.owner \in gone'
      BY <1>1, <1>3, <1>8 DEF Deletes
    <2> QED BY <1>1, <1>5, <2>1, OwnDeletedKept DEF Founded
  <1>10. ASSUME NEW list, AllFollow(list) PROVE AllFollow(list)'
    <2>1. BatchRight(list, b)'
      BY <1>3 DEF BatchRight, FieldsRight
    <2> QED BY <1>1, <1>5, <1>7, <1>10, <2>1, AllFollowKept
  <1>11. ~crossed' => Agree'
    <2>1. \A c : c.on = "group" => (c \in OnWay' <=> c \in OnWay)
      BY <1>3, <1>5
    <2> QED BY <1>1, <1>10, <2>1, AgreeKept DEF Founded
  <1>12. \A v : Cared(v) => Cared(v)'
    BY <1>1, <1>5, <1>7, CaredKept
  <1> QED BY <1>1, <1>6, <1>9, <1>11, <1>12 DEF Founded

--------------------------------------------------------------------------------
(* Answers and the server.                                                     *)

LEMMA MissingIs ==
  ASSUME NEW u, NEW list \in Seq(Users), NEW v \in ToSet(list),
         \A id \in DOMAIN Seen(u).recents : id.owner # v
  PROVE  Missing(u, list, v) \in Nat \ {0}
  <1> DEFINE S == {i \in DOMAIN list : list[i] = v}
  <1>1. Has(u, v) = 0
    <2>1. {i \in DOMAIN Seen(u).recents : i.owner = v} = {}
      OBVIOUS
    <2> QED BY <2>1, FS_EmptySet DEF Has
  <1>2. Len(list) \in Nat /\ DOMAIN list = 1..Len(list)
    OBVIOUS
  <1>3. IsFiniteSet(S)
    <2>1. IsFiniteSet(1..Len(list))
      BY <1>2, FS_Interval
    <2> QED BY <1>2, <2>1, FS_Subset
  <1>4. S # {}
    BY DEF ToSet
  <1>5. Cardinality(S) \in Nat /\ Cardinality(S) # 0
    BY <1>3, <1>4, FS_CardinalityType, FS_EmptySet
  <1>6. Occurrences(list, v) \in Nat \ {0}
    BY <1>5 DEF Occurrences
  <1> QED BY <1>1, <1>6 DEF Missing

LEMMA CreateRecentsKeeps ==
  ASSUME Founded, NEW u \in Users, NEW c \in calls[u], CreateRecents(u, c), crossed' = crossed
  PROVE  Founded'
  <1> DEFINE new == UNION {{[call |-> c.n, owner |-> v, copy |-> k] :
                              k \in 1..Missing(u, c.list, v)} : v \in ToSet(c.list)}
             doc == [name |-> c.name, members |-> c.list, push |-> c.list, shown |-> FALSE]
  <1>1. /\ c.kind = "create" /\ Answered(u, c) /\ QueueSome(u, new, SetRecents(new, doc))
        /\ UNCHANGED <<store, screens, inputs, meant, muted, gone, lost>>
    BY DEF CreateRecents, Answered
  <1>2. \A v \in ToSet(c.list) : Missing(u, c.list, v) \in Nat \ {0} =>
           \E id \in new : id.owner = v
    <2>1. ASSUME NEW v \in ToSet(c.list), Missing(u, c.list, v) \in Nat \ {0}
          PROVE  \E id \in new : id.owner = v
      <3>1. 1 \in 1..Missing(u, c.list, v)
        BY <2>1
      <3> DEFINE id == [call |-> c.n, owner |-> v, copy |-> 1]
      <3>2. id \in new /\ id.owner = v
        BY <3>1
      <3> QED BY <3>2
    <2> QED BY <2>1
  <1>3. PICK b : b = SetRecents(new, doc)
    OBVIOUS
  <1> HIDE DEF new
  <1>4. /\ b.on = "recents" /\ DOMAIN b.writes = new
        /\ \A id \in new : b.writes[id].op = "set" /\ b.writes[id].fields = doc
    BY <1>3 DEF SetRecents, RecentBatch, Write
  <1>5. DOMAIN doc = RecentFields
    BY DEF RecentFields, GroupFields
  <1>6. /\ doc["name"] = c.name /\ doc["members"] = c.list /\ doc["push"] = c.list
    OBVIOUS
  <1> HIDE DEF doc
  <1>7. IsBatch(b)
    BY <1>4, <1>5 DEF IsBatch, IsRecentWrite
  <1>8. /\ QueuesTyped'
        /\ new = {} => OnWay' = OnWay
        /\ new # {} => OnWay' = OnWay \cup {b}
    BY <1>1, <1>3, <1>7, QueueSomeStep DEF Founded, Types
  <1>9. CallsTyped' /\ Asked = Asked' \cup {c}
    BY <1>1, AnsweredStep DEF Founded, Types
  <1>10. Types'
    BY <1>1, <1>8, <1>9 DEF Founded, Types
  <1>11. OnWay \subseteq OnWay' /\ \A a \in OnWay' : a \in OnWay \/ a = b
    BY <1>8
  <1>12. OwnDeleted'
    <2>1. \A id : ~Deletes(b, id)
      BY <1>4 DEF Deletes
    <2> QED BY <1>1, <1>11, <2>1, OwnDeletedKept DEF Founded
  <1>13. Followed' = Followed /\ Followed \subseteq GroupFields
    BY <1>1 DEF Followed, GroupFields
  <1>14. ASSUME NEW list, AllFollow(list) PROVE AllFollow(list)'
    <2> DEFINE asked == [name |-> c.name, members |-> c.list, push |-> c.list]
    <2>1. FieldsRight(list, Followed, asked)
      BY <1>1, <1>9, <1>14 DEF AllFollow, CallRight
    <2>2. /\ DOMAIN asked = GroupFields
          /\ asked["name"] = c.name /\ asked["members"] = c.list /\ asked["push"] = c.list
      BY DEF GroupFields
    <2> HIDE DEF asked
    <2>3. \A f \in GroupFields : doc[f] = asked[f]
      BY <1>6, <2>2 DEF GroupFields
    <2>4. FieldsRight(list, Followed, doc)'
      BY <1>1, <1>13, <2>1, <2>2, <2>3 DEF FieldsRight, Right
    <2>5. BatchRight(list, b)'
      BY <1>4, <2>4 DEF BatchRight
    <2> QED BY <1>1, <1>9, <1>11, <1>13, <1>14, <2>5, AllFollowKept
  <1>15. ~crossed' => Agree'
    <2>1. \A a : a.on = "group" => (a \in OnWay' <=> a \in OnWay)
      BY <1>4, <1>11
    <2> QED BY <1>1, <1>14, <2>1, AgreeKept DEF Founded
  <1>16. ASSUME NEW v, Cared(v) PROVE Cared(v)'
    <2>1. ASSUME Asks(c, v) PROVE Cared(v)'
      <3>1. c.list \in Seq(Users) /\ v \in ToSet(c.list)
        BY <2>1 DEF Asks
      <3>2. CASE \E id \in DOMAIN Seen(u).recents : id.owner = v
        <4>1. PICK id \in DOMAIN Seen(u).recents : id.owner = v
          BY <3>2
        <4>2. id \in DOMAIN store.recents \/ \E a \in Elements(writes[u]) : SetsRecent(a, id)
          BY <4>1, SeenIs DEF Founded, Types, QueuesTyped
        <4>3. id \in DOMAIN store.recents \/ \E a \in OnWay : SetsRecent(a, id)
          BY <4>2, OnWayIs DEF Founded, Types
        <4>4. id \in DOMAIN store'.recents \/ \E a \in OnWay' : SetsRecent(a, id)'
          BY <4>3, <1>1, <1>11 DEF SetsRecent
        <4> QED BY <4>1, <4>4 DEF Cared
      <3>3. CASE \A id \in DOMAIN Seen(u).recents : id.owner # v
        <4>1. Missing(u, c.list, v) \in Nat \ {0}
          BY <3>1, <3>3, MissingIs
        <4>2. PICK id \in new : id.owner = v
          BY <1>2, <3>1, <4>1
        <4>3. SetsRecent(b, id)' /\ b \in OnWay'
          BY <1>4, <1>8, <4>2 DEF SetsRecent
        <4> QED BY <4>2, <4>3 DEF Cared
      <3> QED BY <3>2, <3>3
    <2> QED BY <1>1, <1>9, <1>11, <1>16, <2>1, CaredKept
  <1> QED BY <1>1, <1>10, <1>12, <1>15, <1>16 DEF Founded

LEMMA UpdateRecentsKeeps ==
  ASSUME Founded, NEW u \in Users, NEW c \in calls[u], UpdateRecents(u, c), crossed' = crossed
  PROVE  Founded'
  <1> DEFINE ids == DOMAIN Seen(u).recents
  <1>1. /\ c.kind = "values" /\ Answered(u, c) /\ QueueSome(u, ids, UpdateAll(ids, c.values))
        /\ UNCHANGED <<store, screens, inputs, meant, muted, gone, lost>>
    BY DEF UpdateRecents, Answered
  <1>2. \A id \in DOMAIN store.recents :
           id \in ids \/ \E a \in Elements(writes[u]) : Deletes(a, id)
    BY SeenIs DEF Founded, Types, QueuesTyped
  <1>3. PICK b : b = UpdateAll(ids, c.values)
    OBVIOUS
  <1> HIDE DEF ids
  <1>4. /\ b.on = "recents" /\ DOMAIN b.writes = ids
        /\ \A id \in ids : b.writes[id].op = "update" /\ b.writes[id].fields = c.values
    BY <1>3 DEF UpdateAll, RecentBatch, Write
  <1>5. DOMAIN c.values \subseteq GroupFields
    BY <1>1 DEF Founded, Types, CallsTyped, IsCall
  <1>6. IsBatch(b)
    BY <1>4, <1>5 DEF IsBatch, IsRecentWrite
  <1>7. /\ QueuesTyped'
        /\ ids = {} => OnWay' = OnWay
        /\ ids # {} => OnWay' = OnWay \cup {b}
    BY <1>1, <1>3, <1>6, QueueSomeStep DEF Founded, Types
  <1>8. CallsTyped' /\ Asked = Asked' \cup {c}
    BY <1>1, AnsweredStep DEF Founded, Types
  <1>9. Types'
    BY <1>1, <1>7, <1>8 DEF Founded, Types
  <1>10. OnWay \subseteq OnWay' /\ \A a \in OnWay' : a \in OnWay \/ a = b
    BY <1>7
  <1>11. OwnDeleted'
    <2>1. \A id : ~Deletes(b, id)
      BY <1>4 DEF Deletes
    <2> QED BY <1>1, <1>10, <2>1, OwnDeletedKept DEF Founded
  <1>12. Followed' = Followed /\ Followed \subseteq GroupFields
    BY <1>1 DEF Followed, GroupFields
  <1>13. ASSUME NEW list, AllFollow(list) PROVE AllFollow(list)'
    <2>1. FieldsRight(list, Followed, c.values)
      BY <1>1, <1>8, <1>13 DEF AllFollow, CallRight
    <2>2. FieldsRight(list, Followed, c.values)'
      BY <1>1, <1>12, <2>1 DEF FieldsRight, Right
    <2>3. BatchRight(list, b)'
      BY <1>4, <2>2 DEF BatchRight
    <2>4. ASSUME NEW id \in DOMAIN store.recents, NEW f \in GroupFields,
                 f \in DOMAIN c.values
          PROVE  \E a \in OnWay' : Rewrites(a, id, f)
      <3>1. CASE id \in ids
        <4>1. b \in OnWay' /\ Rewrites(b, id, f)
          BY <1>4, <1>7, <2>4, <3>1 DEF Rewrites
        <4> QED BY <4>1
      <3>2. CASE id \notin ids
        <4>1. PICK a \in Elements(writes[u]) : Deletes(a, id)
          BY <1>2, <3>2
        <4>2. a \in OnWay
          BY OnWayIs DEF Founded, Types
        <4>3. a \in OnWay' /\ Rewrites(a, id, f)
          BY <1>10, <4>1, <4>2 DEF Rewrites, Deletes
        <4> QED BY <4>3
      <3> QED BY <3>1, <3>2
    <2>5. \A id \in DOMAIN store.recents, f \in GroupFields : \A a \in Asked :
             a.kind = "values" /\ f \in DOMAIN a.values =>
                a \in Asked' \/ \E d \in OnWay' : Rewrites(d, id, f)
      BY <1>8, <2>4
    <2> QED BY <1>1, <1>10, <1>8, <1>12, <1>13, <2>3, <2>5, AllFollowKept
  <1>14. ~crossed' => Agree'
    <2>1. \A a : a.on = "group" => (a \in OnWay' <=> a \in OnWay)
      BY <1>4, <1>10
    <2> QED BY <1>1, <1>13, <2>1, AgreeKept DEF Founded
  <1>15. ASSUME NEW v, Cared(v) PROVE Cared(v)'
    <2>1. ~Asks(c, v)
      BY <1>1 DEF Asks
    <2> QED BY <1>1, <1>8, <1>10, <1>15, <2>1, CaredKept
  <1> QED BY <1>1, <1>9, <1>11, <1>14, <1>15 DEF Founded

(* A batch reaches the server. *)
LEMMA ServeKeepsGroup ==
  ASSUME NEW list, GroupFollows(list), Types, NEW b, IsBatch(b), store' = Applied(store, b),
         OnWay = OnWay' \cup {b}, meant' = meant
  PROVE  GroupFollows(list)'
  <1>1. /\ b.on = "group" => /\ IsGroupWrite(b.write)
                             /\ store'.group = WrittenGroup(store.group, b.write)
        /\ b.on # "group" => store'.group = store.group
    <2>1. PICK s, t : s = store /\ t = store' /\ IsStore(s)
      BY DEF Types
    <2> QED BY <2>1, AppliedIs DEF IsBatch
  <1>2. CASE b.on # "group"
    BY <1>1, <1>2, GroupKept
  <1>3. CASE b.on = "group"
    <2> DEFINE g == store.group
               h == store'.group
               w == b.write
    <2>1. /\ h = Nil <=> g = Nil /\ w.op # "set"
          /\ w.op = "set" => DOMAIN w.fields = GroupFields
          /\ h # Nil => \A f \in GroupFields :
                           h[f] = IF f \in DOMAIN w.fields THEN w.fields[f] ELSE g[f]
      <3>1. PICK x, y : x = g /\ y = h /\ (x # Nil => IsGroup(x))
        BY DEF Types, IsStore
      <3> QED BY <1>1, <1>3, <3>1, WrittenGroupIs
    <2>2. \A a \in OnWay : a.on = "group" => FieldsRight(list, GroupFields, a.write.fields)
      BY DEF GroupFollows
    <2>3. h = Nil => \E a \in OnWay' : a.on = "group" /\ a.write.op = "set"
      BY <2>1 DEF GroupFollows
    <2>4. ASSUME NEW f \in GroupFields
          PROVE  \/ h # Nil /\ Right(list, f, h[f])
                 \/ \E a \in OnWay' : a.on = "group" /\ f \in DOMAIN a.write.fields
      <3>1. CASE h = Nil
        <4>1. PICK a \in OnWay' : a.on = "group" /\ a.write.op = "set"
          BY <2>3, <3>1
        <4>2. IsGroupWrite(a.write)
          <5>1. a \in OnWay
            OBVIOUS
          <5>2. IsBatch(a)
            BY <5>1, OnWayIs DEF Types
          <5> QED BY <4>1, <5>2 DEF IsBatch
        <4>3. DOMAIN a.write.fields = GroupFields
          BY <4>1, <4>2 DEF IsGroupWrite, IsGroup, GroupDocs, GroupFields
        <4> QED BY <4>1, <4>3
      <3>2. CASE h # Nil /\ f \in DOMAIN w.fields
        <4>1. h[f] = w.fields[f]
          BY <2>1, <3>2
        <4>2. Right(list, f, w.fields[f])
          BY <1>3, <2>2, <3>2 DEF FieldsRight
        <4> QED BY <3>2, <4>1, <4>2
      <3>3. CASE h # Nil /\ f \notin DOMAIN w.fields
        <4>1. h[f] = g[f] /\ g # Nil
          BY <2>1, <3>3
        <4>2. \/ g # Nil /\ Right(list, f, g[f])
              \/ \E a \in OnWay : a.on = "group" /\ f \in DOMAIN a.write.fields
          BY DEF GroupFollows
        <4> QED BY <3>3, <4>1, <4>2
      <3> QED BY <3>1, <3>2, <3>3
    <2>5. \A a \in OnWay' : a.on = "group" => FieldsRight(list, GroupFields, a.write.fields)'
      BY <2>2 DEF FieldsRight, Right
    <2>6. \A f \in GroupFields :
             \/ h # Nil /\ Right(list, f, store.group[f])'
             \/ \E a \in OnWay' : a.on = "group" /\ f \in DOMAIN a.write.fields
      BY <2>4 DEF Right
    <2> QED BY <2>3, <2>5, <2>6 DEF GroupFollows
  <1> QED BY <1>2, <1>3

LEMMA ServeKeepsRecents ==
  ASSUME NEW list, AllFollow(list), Types, NEW b, IsBatch(b), store' = Applied(store, b),
         OnWay = OnWay' \cup {b}, Asked' = Asked, meant' = meant, muted' = muted
  PROVE  AllFollow(list)'
  <1>1. /\ b.on # "recents" => store'.recents = store.recents
        /\ \A id : id \in DOMAIN store'.recents <=>
              SetsRecent(b, id) \/ (id \in DOMAIN store.recents /\ ~Deletes(b, id))
        /\ b.on = "recents" => \A id \in DOMAIN store'.recents, f \in GroupFields :
              store'.recents[id][f] =
                 IF id \in DOMAIN b.writes /\ f \in DOMAIN b.writes[id].fields
                 THEN b.writes[id].fields[f] ELSE store.recents[id][f]
    <2>1. PICK s, t : s = store /\ t = store' /\ IsStore(s)
      BY DEF Types
    <2> QED BY <2>1, AppliedIs DEF IsBatch
  <1>2. Followed' = Followed /\ Followed \subseteq GroupFields
    BY DEF Followed, GroupFields
  <1>3. \A a \in OnWay' : BatchRight(list, a)'
    BY <1>2 DEF AllFollow, BatchRight, FieldsRight, Right
  <1>4. \A c \in Asked' : CallRight(list, c)'
    <2>1. \A c \in Asked : CallRight(list, c)
      BY DEF AllFollow
    <2> QED BY <1>2, <2>1 DEF CallRight, FieldsRight, Right
  <1>5. ASSUME NEW id \in DOMAIN store'.recents, NEW f \in Followed
        PROVE  \/ Right(list, f, store.recents[id][f])'
               \/ \E a \in OnWay' : Rewrites(a, id, f)
               \/ \E c \in Asked : c.kind = "values" /\ f \in DOMAIN c.values
    <2> DEFINE value == store'.recents[id][f]
    <2>1. f \in GroupFields
      BY <1>2
    <2>2. CASE b.on = "recents" /\ id \in DOMAIN b.writes /\ f \in DOMAIN b.writes[id].fields
      <3>1. value = b.writes[id].fields[f]
        BY <1>1, <2>1, <2>2
      <3>2. Right(list, f, value)
        BY <2>2, <3>1 DEF AllFollow, BatchRight, FieldsRight
      <3> QED BY <3>2 DEF Right
    <2>3. CASE ~(b.on = "recents" /\ id \in DOMAIN b.writes /\ f \in DOMAIN b.writes[id].fields)
      <3>1. ~SetsRecent(b, id)
        <4>1. ASSUME SetsRecent(b, id) PROVE FALSE
          <5>1. DOMAIN b.writes[id].fields = RecentFields
            BY <4>1 DEF SetsRecent, IsBatch, IsRecentWrite
          <5> QED BY <2>1, <2>3, <4>1, <5>1 DEF SetsRecent, RecentFields
        <4> QED BY <4>1
      <3>2. id \in DOMAIN store.recents /\ ~Deletes(b, id)
        BY <1>1, <3>1
      <3>3. value = store.recents[id][f]
        BY <1>1, <2>1, <2>3
      <3>4. ~Rewrites(b, id, f)
        BY <2>3, <3>2 DEF Rewrites, Deletes
      <3>5. \/ Right(list, f, store.recents[id][f])
            \/ \E a \in OnWay : Rewrites(a, id, f)
            \/ \E c \in Asked : c.kind = "values" /\ f \in DOMAIN c.values
        BY <3>2 DEF AllFollow
      <3>6. CASE Right(list, f, store.recents[id][f])
        BY <3>3, <3>6 DEF Right
      <3>7. CASE \E a \in OnWay : Rewrites(a, id, f)
        BY <3>4, <3>7
      <3> QED BY <3>5, <3>6, <3>7
    <2> QED BY <2>2, <2>3
  <1>6. \A a, id, f : Rewrites(a, id, f)' <=> Rewrites(a, id, f)
    BY DEF Rewrites
  <1> QED BY <1>2, <1>3, <1>4, <1>5, <1>6 DEF AllFollow

LEMMA ServeKeeps ==
  ASSUME Founded, NEW u \in Users, Serve(u)
  PROVE  Founded'
  <1>1. UNCHANGED <<calls, screens, inputs, meant, crossed, muted, gone, lost>>
    BY DEF Serve, aux
  <1>2. Types /\ QueuesTyped /\ IsStore(store)
    BY DEF Founded, Types
  <1>3. /\ QueuesTyped'
        /\ \E b : IsBatch(b) /\ store' = Applied(store, b) /\ OnWay = OnWay' \cup {b}
    BY <1>2, ServeStep
  <1>4. PICK b : IsBatch(b) /\ store' = Applied(store, b) /\ OnWay = OnWay' \cup {b}
    BY <1>3
  <1>5. /\ IsStore(store)'
        /\ \A id : id \in DOMAIN store'.recents <=>
              SetsRecent(b, id) \/ (id \in DOMAIN store.recents /\ ~Deletes(b, id))
    <2>1. PICK s, t : s = store /\ t = store' /\ IsStore(s)
      BY <1>2
    <2>2. IsStore(t) /\ \A id : id \in DOMAIN t.recents <=>
              SetsRecent(b, id) \/ (id \in DOMAIN s.recents /\ ~Deletes(b, id))
      BY <1>4, <2>1, AppliedIs
    <2> QED BY <2>1, <2>2 DEF IsStore
  <1>6. Types'
    BY <1>1, <1>3, <1>5 DEF Founded, Types, CallsTyped
  <1>7. Asked' = Asked
    BY <1>1 DEF Asked
  <1>8. OwnDeleted'
    BY <1>1, <1>4, OwnDeletedKept DEF Founded
  <1>9. ~crossed' => Agree'
    <2>1. SUFFICES ASSUME Agree PROVE Agree'
      BY <1>1 DEF Founded
    <2>2. PICK list \in Seq(Users) :
             ToSet(list) = meant.members /\ GroupFollows(list) /\ (~lost => AllFollow(list))
      BY <2>1 DEF Agree
    <2>3. GroupFollows(list)'
      BY <1>1, <1>2, <1>4, <2>2, ServeKeepsGroup
    <2>4. ~lost => AllFollow(list)'
      BY <1>1, <1>2, <1>4, <1>7, <2>2, ServeKeepsRecents
    <2>5. ToSet(list) = meant'.members
      BY <1>1, <2>2
    <2> QED BY <1>1, <2>3, <2>4, <2>5 DEF Agree
  <1>10. ASSUME NEW v \in meant.members \ gone, Cared(v)
         PROVE  Cared(v)'
    <2>1. CASE \E id \in DOMAIN store.recents : id.owner = v
      <3>1. PICK id \in DOMAIN store.recents : id.owner = v
        BY <2>1
      <3>2. ~Deletes(b, id)
        BY <1>4, <1>10, <3>1 DEF Founded, OwnDeleted
      <3>3. id \in DOMAIN store'.recents
        BY <1>5, <3>2
      <3> QED BY <3>1, <3>3 DEF Cared
    <2>2. CASE \E a \in OnWay : \E id : SetsRecent(a, id) /\ id.owner = v
      <3>0. PICK a \in OnWay : \E id : SetsRecent(a, id) /\ id.owner = v
        BY <2>2
      <3>1. PICK id : SetsRecent(a, id) /\ id.owner = v
        BY <3>0
      <3>2. CASE a = b
        <4>1. id \in DOMAIN store'.recents
          BY <1>5, <3>1, <3>2
        <4> QED BY <3>1, <4>1 DEF Cared
      <3>3. CASE a # b
        <4>1. a \in OnWay' /\ SetsRecent(a, id)'
          BY <1>4, <3>1, <3>3 DEF SetsRecent
        <4> QED BY <3>1, <4>1 DEF Cared
      <3> QED BY <3>2, <3>3
    <2>3. CASE \E c \in Asked : Asks(c, v)
      BY <1>7, <2>3 DEF Cared, Asks
    <2> QED BY <1>10, <2>1, <2>2, <2>3 DEF Cared
  <1> QED BY <1>1, <1>6, <1>8, <1>9, <1>10 DEF Founded

--------------------------------------------------------------------------------
(* Edits.                                                                      *)

LEMMA SettledIs ==
  ASSUME Types, Settled
  PROVE  OnWay = {} /\ Asked = {} /\ \A u \in Users : Seen(u) = store
  <1>1. \A u \in Users : calls[u] = {} /\ writes[u] = <<>>
    BY DEF Settled
  <1>2. OnWay = {}
    BY <1>1, EmptyQueue DEF OnWay
  <1>3. \A u \in Users : Seen(u) = store
    <2>1. ASSUME NEW u \in Users PROVE Seen(u) = store
      <3>1. IsStore(store) /\ IsQueue(writes[u]) /\ writes[u] = <<>>
        BY <1>1 DEF Types, QueuesTyped
      <3> QED BY <3>1, SeenIs
    <2> QED BY <2>1
  <1> QED BY <1>1, <1>2, <1>3 DEF Asked

(* What is right when everything has settled. *)
LEMMA SettledRight ==
  ASSUME OnWay = {}, Asked = {}, NEW list, GroupFollows(list)
  PROVE  /\ store.group # Nil /\ \A f \in GroupFields : Right(list, f, store.group[f])
         /\ AllFollow(list) => \A id \in DOMAIN store.recents, f \in Followed :
               Right(list, f, store.recents[id][f])
  <1>1. store.group # Nil /\ \A f \in GroupFields : Right(list, f, store.group[f])
    BY DEF GroupFollows
  <1>2. AllFollow(list) => \A id \in DOMAIN store.recents, f \in Followed :
           Right(list, f, store.recents[id][f])
    BY DEF AllFollow
  <1> QED BY <1>1, <1>2

LEMMA OpenRowKeeps ==
  ASSUME Founded, NEW u \in Users, NEW id \in Rows(u), OpenRow(u, id),
         crossed' = (crossed \/ ~Settled)
  PROVE  Founded'
  <1> DEFINE recent == Seen(u).recents[id]
  <1>1. /\ Ask(u, {CreateCall(recent.push, recent.name)}) /\ inputs' \in Nat
        /\ screens' = [screens EXCEPT ![u] = <<NewChat>>]
        /\ UNCHANGED <<store, writes, meant, muted, gone, lost>>
    BY DEF OpenRow, Input, Founded, Types
  <1>2. PICK c : c = CreateCall(recent.push, recent.name)
    OBVIOUS
  <1>3. c.kind = "create" /\ c.list = recent.push /\ c.name = recent.name
    BY <1>2 DEF CreateCall
  <1>4. CallsTyped' /\ Asked' = Asked \cup {c}
    <2>1. IsCall(c)
      BY <1>3 DEF IsCall
    <2> QED BY <1>1, <1>2, <2>1, AskStep DEF Founded, Types
  <1>5. screens' \in [Users -> Seq(Chats)]
    <2>1. PICK S, T : S = Chats /\ T = Seq(S)
      OBVIOUS
    <2>2. <<NewChat>> \in T
      BY <2>1, NewChatIs
    <2>3. screens \in [Users -> T]
      BY <2>1 DEF Founded, Types
    <2>4. screens' \in [Users -> T]
      BY <1>1, <2>2, <2>3
    <2> QED BY <2>1, <2>4
  <1>6. Types'
    BY <1>1, <1>4, <1>5 DEF Founded, Types, QueuesTyped
  <1>7. OnWay' = OnWay /\ Followed' = Followed
    BY <1>1 DEF OnWay, Followed
  <1>8. OwnDeleted'
    BY <1>1, <1>7, OwnDeletedKept DEF Founded
  <1>9. ASSUME ~crossed' PROVE Agree'
    <2>1. ~crossed /\ Settled
      BY <1>9
    <2>2. OnWay = {} /\ Asked = {} /\ Seen(u) = store
      BY <2>1, SettledIs DEF Founded
    <2>3. id \in DOMAIN store.recents
      BY <2>2 DEF Rows
    <2>4. PICK list \in Seq(Users) :
             ToSet(list) = meant.members /\ GroupFollows(list) /\ (~lost => AllFollow(list))
      BY <2>1 DEF Founded, Agree
    <2>5. GroupFollows(list)'
      BY <1>1, <1>7, <2>4, GroupKept
    <2>6. ASSUME ~lost PROVE AllFollow(list)'
      <3>1. \A f \in Followed : Right(list, f, recent[f])
        BY <2>2, <2>3, <2>4, <2>6, SettledRight
      <3> DEFINE asked == [name |-> c.name, members |-> c.list, push |-> c.list]
      <3>2. /\ DOMAIN asked = GroupFields
            /\ asked["name"] = recent["name"] /\ asked["members"] = recent["push"]
            /\ asked["push"] = recent["push"]
        BY <1>3 DEF GroupFields
      <3> HIDE DEF asked
      <3>3. \A f \in Followed : Right(list, f, asked[f])
        BY <3>1, <3>2 DEF Followed, Right, GroupFields
      <3>4. FieldsRight(list, Followed, asked)'
        BY <1>1, <1>7, <3>3 DEF FieldsRight, Right
      <3>5. CallRight(list, c)'
        BY <1>3, <3>4 DEF CallRight, asked
      <3> QED BY <1>1, <1>4, <1>7, <2>4, <2>6, <3>5, AllFollowKept
    <2>7. ToSet(list) = meant'.members
      BY <1>1, <2>4
    <2> QED BY <1>1, <2>5, <2>6, <2>7 DEF Agree
  <1>10. \A v : Cared(v) => Cared(v)'
    BY <1>1, <1>4, <1>7, CaredKept
  <1> QED BY <1>1, <1>6, <1>8, <1>9, <1>10 DEF Founded

(* An edit made when everything had settled on list, with values, and with     *)
(* calls C and one to write values to the recents: everything settles on all.  *)
LEMMA EditFollows ==
  ASSUME OnWay = {}, Asked = {}, store' = store, muted' = muted,
         NEW list, GroupFollows(list), NEW all, NEW values, NEW C,
         OnWay' = {UpdateGroup(values)}, Asked' = C \cup {ValuesCall(values)},
         FieldsRight(all, GroupFields, values)',
         \A c \in C : CallRight(all, c)',
         \A f \in GroupFields :
            f \in DOMAIN values \/ \A x : Right(list, f, x) => Right(all, f, x)'
  PROVE  GroupFollows(all)' /\ (AllFollow(list) => AllFollow(all)')
  <1>1. /\ store.group # Nil /\ \A f \in GroupFields : Right(list, f, store.group[f])
        /\ AllFollow(list) => \A id \in DOMAIN store.recents, f \in Followed :
               Right(list, f, store.recents[id][f])
    BY SettledRight
  <1>2. PICK b : b = UpdateGroup(values)
    OBVIOUS
  <1>3. /\ b.on = "group" /\ b.write.fields = values /\ OnWay' = {b}
    BY <1>2 DEF UpdateGroup, GroupBatch, Write
  <1>4. PICK d : d = ValuesCall(values)
    OBVIOUS
  <1>5. d.kind = "values" /\ d.values = values /\ Asked' = C \cup {d}
    BY <1>4 DEF ValuesCall
  <1>6. GroupFollows(all)'
    <2>1. \A a \in OnWay' : a.on = "group" => FieldsRight(all, GroupFields, a.write.fields)'
      BY <1>3
    <2>2. \A f \in GroupFields :
             \/ store'.group # Nil /\ Right(all, f, store.group[f])'
             \/ \E a \in OnWay' : a.on = "group" /\ f \in DOMAIN a.write.fields
      <3>1. ASSUME NEW f \in GroupFields
            PROVE  \/ store'.group # Nil /\ Right(all, f, store.group[f])'
                   \/ \E a \in OnWay' : a.on = "group" /\ f \in DOMAIN a.write.fields
        <4>1. CASE f \in DOMAIN values
          BY <1>3, <4>1
        <4>2. CASE f \notin DOMAIN values
          <5>1. Right(list, f, store.group[f]) /\ \A x : Right(list, f, x) => Right(all, f, x)'
            BY <1>1, <4>2
          <5>2. PICK x : x = store.group[f]
            OBVIOUS
          <5>3. Right(all, f, x)'
            BY <5>1, <5>2
          <5> QED BY <1>1, <5>2, <5>3 DEF Right
        <4> QED BY <4>1, <4>2
      <3> QED BY <3>1
    <2> QED BY <1>1, <2>1, <2>2 DEF GroupFollows
  <1>7. Followed' = Followed /\ Followed \subseteq GroupFields
    BY DEF Followed, GroupFields
  <1>8. ASSUME AllFollow(list) PROVE AllFollow(all)'
    <2>1. \A a \in OnWay' : BatchRight(all, a)'
      BY <1>3 DEF BatchRight
    <2>2. CallRight(all, d)'
      BY <1>5, <1>7 DEF CallRight, FieldsRight
    <2>3. \A c \in Asked' : CallRight(all, c)'
      BY <1>5, <2>2
    <2>4. ASSUME NEW id \in DOMAIN store'.recents, NEW f \in Followed'
          PROVE  \/ Right(all, f, store.recents[id][f])'
                 \/ \E c \in Asked' : c.kind = "values" /\ f \in DOMAIN c.values
      <3>1. CASE f \in DOMAIN values
        BY <1>5, <3>1
      <3>2. CASE f \notin DOMAIN values
        <4>1. id \in DOMAIN store.recents /\ f \in Followed /\ f \in GroupFields
          BY <1>7
        <4>2. Right(list, f, store.recents[id][f]) /\ \A x : Right(list, f, x) => Right(all, f, x)'
          BY <1>1, <1>8, <3>2, <4>1
        <4>3. PICK x : x = store.recents[id][f]
          OBVIOUS
        <4>4. Right(all, f, x)'
          BY <4>2, <4>3
        <4> QED BY <4>3, <4>4 DEF Right
      <3> QED BY <3>1, <3>2
    <2> QED BY <2>1, <2>3, <2>4 DEF AllFollow
  <1> QED BY <1>6, <1>8

LEMMA SaveKeeps ==
  ASSUME Founded, NEW u \in Users, screens[u] # <<>>, Top(u).group # Nil, Save(u),
         crossed' = (crossed \/ ~Settled \/ ~UpToDate(Top(u), Top(u).invited))
  PROVE  Founded'
  <1>1. PICK name \in {Top(u).group.name, inputs} :
           /\ Queue(u, UpdateGroup([name |-> name]))
           /\ Ask(u, {ValuesCall([name |-> name])})
           /\ meant' = [meant EXCEPT !.name = name]
    BY DEF Save
  <1>2. /\ screens' = [screens EXCEPT ![u] = <<>>] /\ inputs' \in Nat
        /\ UNCHANGED <<store, muted, gone, lost>>
    BY DEF Save, Input, Founded, Types
  <1>3. name \in Nat
    <2>1. Top(u) \in Chats
      BY TopIs DEF Founded, Types
    <2>2. Top(u).group.name \in Nat
      BY <2>1 DEF Chats, IsGroup, GroupDocs
    <2> QED BY <1>1, <2>2 DEF Founded, Types
  <1>4. PICK values : values = [name |-> name]
    OBVIOUS
  <1>5. values \in [name : Nat] /\ DOMAIN values = {"name"} /\ values["name"] = name
    BY <1>3, <1>4
  <1>6. PICK b, d : b = UpdateGroup(values) /\ d = ValuesCall(values)
    OBVIOUS
  <1>7. /\ b.on = "group" /\ IsGroupWrite(b.write) /\ IsBatch(b)
        /\ d.kind = "values" /\ IsCall(d)
    BY <1>5, <1>6 DEF UpdateGroup, GroupBatch, Write, IsBatch, IsGroupWrite, ValuesCall, IsCall,
       GroupFields
  <1>8. QueuesTyped' /\ OnWay' = OnWay \cup {b}
    BY <1>1, <1>4, <1>6, <1>7, QueueStep DEF Founded, Types
  <1>9. CallsTyped' /\ Asked' = Asked \cup {d}
    BY <1>1, <1>4, <1>6, <1>7, AskStep DEF Founded, Types
  <1>10. screens' \in [Users -> Seq(Chats)]
    <2>1. PICK S, T : S = Chats /\ T = Seq(S)
      OBVIOUS
    <2>2. <<>> \in T
      BY <2>1
    <2>3. screens \in [Users -> T]
      BY <2>1 DEF Founded, Types
    <2>4. screens' \in [Users -> T]
      BY <1>2, <2>2, <2>3
    <2> QED BY <2>1, <2>4
  <1>11. /\ meant \in [name : Nat, members : SUBSET Users]
         /\ meant' \in [name : Nat, members : SUBSET Users]
         /\ meant'.name = name /\ meant'.members = meant.members
    BY <1>1, <1>3 DEF Founded, Types
  <1>12. meant' # Nil
    BY <1>11, NilIs
  <1>13. Types'
    BY <1>2, <1>8, <1>9, <1>10, <1>11 DEF Founded, Types
  <1>14. OwnDeleted'
    <2>1. \A id : ~Deletes(b, id)
      BY <1>7 DEF Deletes
    <2> QED BY <1>2, <1>8, <2>1, OwnDeletedKept DEF Founded
  <1>15. ASSUME ~crossed' PROVE Agree'
    <2>1. ~crossed /\ Settled
      BY <1>15
    <2>2. OnWay = {} /\ Asked = {}
      BY <2>1, SettledIs DEF Founded
    <2>3. PICK list \in Seq(Users) :
             ToSet(list) = meant.members /\ GroupFollows(list) /\ (~lost => AllFollow(list))
      BY <2>1 DEF Founded, Agree
    <2>4. FieldsRight(list, GroupFields, values)'
      BY <1>5, <1>11 DEF FieldsRight, Right
    <2>5. \A f \in GroupFields :
             f \in DOMAIN values \/ \A x : Right(list, f, x) => Right(list, f, x)'
      BY <1>5 DEF Right
    <2>6. OnWay' = {UpdateGroup(values)} /\ Asked' = {} \cup {ValuesCall(values)}
      BY <1>6, <1>8, <1>9, <2>2
    <2>7. GroupFollows(list)' /\ (AllFollow(list) => AllFollow(list)')
      <3>1. PICK C : C = {}
        OBVIOUS
      <3>2. Asked' = C \cup {ValuesCall(values)} /\ \A c \in C : CallRight(list, c)'
        BY <2>6, <3>1
      <3> QED BY <1>2, <2>2, <2>3, <2>4, <2>5, <2>6, <3>2, EditFollows
    <2>8. ToSet(list) = meant'.members
      BY <1>11, <2>3
    <2> QED BY <1>2, <2>3, <2>7, <2>8 DEF Agree
  <1>16. \A v : Cared(v) => Cared(v)'
    BY <1>2, <1>8, <1>9, CaredKept
  <1> QED BY <1>2, <1>11, <1>12, <1>13, <1>14, <1>15, <1>16 DEF Founded

LEMMA SelectionsAre ==
  ASSUME NEW u \in Users, NEW group, NEW selected \in Selections(u, group)
  PROVE  /\ selected \in Seq(Users)
         /\ ToSet(selected) \subseteq Users \ ToSet(group.members)
  <1>1. PICK S \in SUBSET Eligible(u, group) : selected = SetToSeq(S)
    BY DEF Selections
  <1>2. S \subseteq Users /\ S \cap ToSet(group.members) = {}
    BY <1>1 DEF Eligible
  <1>3. IsFiniteSet(S)
    BY <1>2, OwnerAssumption, FS_Subset
  <1>4. Cardinality(S) \in Nat /\ ExistsBijection(1..Cardinality(S), S)
    BY <1>3, FS_CardinalityType
  <1>5. \E f \in [1..Cardinality(S) -> S] : IsInjective(f)
    <2>1. PICK f : f \in Bijection(1..Cardinality(S), S)
      BY <1>4 DEF ExistsBijection
    <2>2. f \in [1..Cardinality(S) -> S] /\ IsInjective(f)
      BY <2>1 DEF Bijection, Injection, Surjection, IsInjective
    <2> QED BY <2>2
  <1>6. selected \in [1..Cardinality(S) -> S]
    BY <1>1, <1>5 DEF SetToSeq
  <1>7. PICK n : n = Cardinality(S)
    OBVIOUS
  <1>8. n \in Nat /\ selected \in [1..n -> S]
    BY <1>4, <1>6, <1>7
  <1>9. selected \in Seq(S) /\ Len(selected) = n /\ DOMAIN selected = 1..n
    BY <1>8, SeqIs
  <1>10. ToSet(selected) \subseteq S
    BY <1>8, <1>9 DEF ToSet
  <1>11. selected \in Seq(Users)
    BY <1>2, <1>9
  <1> QED BY <1>2, <1>10, <1>11

LEMMA ConcatIs ==
  ASSUME NEW s \in Seq(Users), NEW t \in Seq(Users)
  PROVE  s \o t \in Seq(Users) /\ ToSet(s \o t) = ToSet(s) \cup ToSet(t)
  <1>1. PICK r : r = s \o t
    OBVIOUS
  <1>2. /\ r \in Seq(Users) /\ Len(s) \in Nat /\ Len(t) \in Nat /\ Len(r) = Len(s) + Len(t)
        /\ DOMAIN s = 1..Len(s) /\ DOMAIN t = 1..Len(t) /\ DOMAIN r = 1..Len(r)
    BY <1>1
  <1>3. \A i \in 1..Len(s) : r[i] = s[i] /\ i \in 1..Len(r)
    BY <1>1, <1>2
  <1>4. \A i \in 1..Len(t) : r[Len(s) + i] = t[i] /\ Len(s) + i \in 1..Len(r)
    BY <1>1, <1>2
  <1>5. \A i \in 1..Len(r) :
           i \in 1..Len(s) \/ (i - Len(s) \in 1..Len(t) /\ i = Len(s) + (i - Len(s)))
    BY <1>2
  <1>6. ToSet(s) \subseteq ToSet(r)
    BY <1>2, <1>3 DEF ToSet
  <1>7. ToSet(t) \subseteq ToSet(r)
    BY <1>2, <1>4 DEF ToSet
  <1>8. ASSUME NEW v \in ToSet(r) PROVE v \in ToSet(s) \cup ToSet(t)
    <2>1. PICK i \in 1..Len(r) : v = r[i]
      BY <1>2 DEF ToSet
    <2>2. CASE i \in 1..Len(s)
      BY <1>2, <1>3, <2>1, <2>2 DEF ToSet
    <2>3. CASE i - Len(s) \in 1..Len(t) /\ i = Len(s) + (i - Len(s))
      <3>1. v = t[i - Len(s)]
        BY <1>4, <2>1, <2>3
      <3> QED BY <1>2, <2>3, <3>1 DEF ToSet
    <2> QED BY <1>5, <2>2, <2>3
  <1> QED BY <1>1, <1>2, <1>6, <1>7, <1>8

LEMMA DoneKeeps ==
  ASSUME Founded, NEW u \in Users, screens[u] # <<>>, Top(u).group # Nil,
         NEW selected \in Selections(u, Top(u).group), NEW before \in {{}, Top(u).invited},
         Done(u, selected, before),
         crossed' = (crossed \/ ~Settled \/ ~UpToDate(Top(u), before))
  PROVE  Founded'
  <1>1. PICK chat, group : chat = Top(u) /\ group = chat.group
    OBVIOUS
  <1>2. chat \in Chats
    BY <1>1, TopIs DEF Founded, Types
  <1>3. /\ IsGroup(group) /\ chat.invited \cap ToSet(group.members) = {}
        /\ chat.invited \subseteq Users
    BY <1>1, <1>2 DEF Chats
  <1>4. /\ group.name \in Nat /\ group.members \in Seq(Users) /\ group.push = group.members
    BY <1>3 DEF IsGroup, GroupDocs
  <1>5. selected \in Seq(Users) /\ ToSet(selected) \subseteq Users \ ToSet(group.members)
    BY <1>1, SelectionsAre
  <1>6. PICK all : all = group.members \o selected
    OBVIOUS
  <1>7. all \in Seq(Users) /\ ToSet(all) = ToSet(group.members) \cup ToSet(selected)
    BY <1>4, <1>5, <1>6, ConcatIs
  <1>8. PICK values : values = Invitation(group, selected)
    OBVIOUS
  <1>9. values = [members |-> all, push |-> all]
    BY <1>4, <1>6, <1>8 DEF Invitation
  <1>10. /\ DOMAIN values = {"members", "push"} /\ values["members"] = all /\ values["push"] = all
         /\ values \in [members : Seq(Users), push : Seq(Users)] /\ values.push = values.members
    BY <1>7, <1>9
  <1>11. PICK b, c, d : b = UpdateGroup(values) /\ c = CreateCall(all, group.name)
                        /\ d = ValuesCall(values)
    OBVIOUS
  <1>12. /\ Queue(u, b) /\ Ask(u, {c, d}) /\ inputs' \in Nat
         /\ screens' = [screens EXCEPT ![u] =
               Front(@) \o <<[chat EXCEPT !.invited = ToSet(selected)], NewChat>>]
         /\ meant' = [meant EXCEPT !.members = (@ \ before) \cup ToSet(selected)]
         /\ UNCHANGED <<store, muted, gone, lost>>
    BY <1>1, <1>4, <1>6, <1>8, <1>11 DEF Done, Input, Founded, Types
  <1>13. /\ b.on = "group" /\ IsBatch(b)
         /\ d.kind = "values" /\ IsCall(d)
         /\ c.kind = "create" /\ IsCall(c) /\ c.list = all /\ c.name = group.name
    BY <1>10, <1>11 DEF UpdateGroup, GroupBatch, Write, IsBatch, IsGroupWrite, ValuesCall, IsCall,
       GroupFields, CreateCall
  <1>14. QueuesTyped' /\ OnWay' = OnWay \cup {b}
    BY <1>12, <1>13, QueueStep DEF Founded, Types
  <1>15. CallsTyped' /\ Asked' = Asked \cup {c, d}
    BY <1>12, <1>13, AskStep DEF Founded, Types
  <1>16. screens' \in [Users -> Seq(Chats)]
    <2>1. PICK T : T = Seq(Chats)
      OBVIOUS
    <2>2. [chat EXCEPT !.invited = ToSet(selected)] \in Chats
      BY <1>1, <1>2, <1>5 DEF Chats
    <2>3. Front(screens[u]) \o <<[chat EXCEPT !.invited = ToSet(selected)], NewChat>> \in T
      BY <2>1, <2>2, TopIs, NewChatIs DEF Founded, Types
    <2>4. screens \in [Users -> T]
      BY <2>1 DEF Founded, Types
    <2>5. screens' \in [Users -> T]
      BY <1>12, <2>3, <2>4
    <2> QED BY <2>1, <2>5
  <1>17. /\ meant \in [name : Nat, members : SUBSET Users]
         /\ meant' \in [name : Nat, members : SUBSET Users]
         /\ meant'.name = meant.name
         /\ meant'.members = (meant.members \ before) \cup ToSet(selected)
    BY <1>5, <1>12 DEF Founded, Types
  <1>18. meant' # Nil
    BY <1>17, NilIs
  <1>19. Types'
    BY <1>12, <1>14, <1>15, <1>16, <1>17 DEF Founded, Types
  <1>20. OwnDeleted'
    <2>1. \A id : ~Deletes(b, id)
      BY <1>13 DEF Deletes
    <2> QED BY <1>12, <1>14, <2>1, OwnDeletedKept DEF Founded
  <1>21. ASSUME ~crossed' PROVE Agree'
    <2>1. ~crossed /\ Settled /\ UpToDate(chat, before)
      BY <1>1, <1>21
    <2>2. OnWay = {} /\ Asked = {}
      BY <2>1, SettledIs DEF Founded
    <2>3. PICK list \in Seq(Users) :
             ToSet(list) = meant.members /\ GroupFollows(list) /\ (~lost => AllFollow(list))
      BY <2>1 DEF Founded, Agree
    <2>4. group.name = meant.name /\ ToSet(group.members) \cup before = meant.members
      BY <1>1, <2>1 DEF UpToDate
    <2>5. ToSet(all) = meant'.members
      BY <1>1, <1>3, <1>7, <1>17, <2>4
    <2>6. FieldsRight(all, GroupFields, values)'
      BY <1>10 DEF FieldsRight, Right
    <2>7. \A f \in GroupFields :
             f \in DOMAIN values \/ \A x : Right(list, f, x) => Right(all, f, x)'
      BY <1>10, <1>17 DEF Right, GroupFields
    <2>8. CallRight(all, c)'
      <3> DEFINE asked == [name |-> c.name, members |-> c.list, push |-> c.list]
      <3>1. /\ DOMAIN asked = GroupFields /\ asked["name"] = meant'.name
            /\ asked["members"] = all /\ asked["push"] = all
        BY <1>13, <1>17, <2>4 DEF GroupFields
      <3> HIDE DEF asked
      <3>2. FieldsRight(all, Followed, asked)'
        BY <3>1 DEF FieldsRight, Right, Followed, GroupFields
      <3> QED BY <1>13, <3>2 DEF CallRight, asked
    <2>9. PICK C : C = {c}
      OBVIOUS
    <2>10. /\ OnWay' = {UpdateGroup(values)} /\ Asked' = C \cup {ValuesCall(values)}
           /\ \A a \in C : CallRight(all, a)'
      BY <1>11, <1>14, <1>15, <2>2, <2>8, <2>9
    <2>11. GroupFollows(all)' /\ (AllFollow(list) => AllFollow(all)')
      BY <1>12, <2>2, <2>3, <2>6, <2>7, <2>10, EditFollows
    <2> QED BY <1>7, <1>12, <2>3, <2>5, <2>11 DEF Agree
  <1>22. ASSUME ~lost', NEW v \in meant'.members \ gone' PROVE Cared(v)'
    <2>1. CASE v \in meant.members
      <3>1. Cared(v)
        BY <1>12, <1>22, <2>1 DEF Founded
      <3> QED BY <1>12, <1>14, <1>15, <3>1, CaredKept
    <2>2. CASE v \in ToSet(selected)
      <3>1. Asks(c, v)
        BY <1>7, <1>13, <2>2 DEF Asks
      <3>2. c \in Asked' /\ Asks(c, v)'
        BY <1>15, <3>1 DEF Asks
      <3> QED BY <3>2 DEF Cared
    <2> QED BY <1>17, <1>22, <2>1, <2>2
  <1> QED BY <1>18, <1>19, <1>20, <1>21, <1>22 DEF Founded

(* The group is founded. *)
LEMMA CreateFounds ==
  ASSUME Types, Untouched, Create, UNCHANGED crossed
  PROVE  Founded'
  <1>1. PICK pick \in Picks, presses \in 1..MaxPresses :
           LET list == pick \o [i \in 1..presses |-> Owner]
           IN  /\ Queue(Owner, SaveGroup(NewGroup(0, list)))
               /\ Ask(Owner, {CreateCall(list, 0)})
               /\ meant' = [name |-> 0, members |-> ToSet(list)]
    BY DEF Create
  <1>2. PICK list : list = pick \o [i \in 1..presses |-> Owner]
    OBVIOUS
  <1>3. list \in Seq(Users) /\ ToSet(list) \subseteq Users
    <2>1. PICK again : again = [i \in 1..presses |-> Owner]
      OBVIOUS
    <2>2. presses \in Nat /\ Owner \in Users
      BY BoundAssumption, OwnerAssumption
    <2>3. again \in [1..presses -> Users]
      BY <2>1, <2>2
    <2>4. again \in Seq(Users)
      BY <2>2, <2>3, SeqIs
    <2>5. pick \in Seq(Users)
      BY PicksAssumption
    <2>6. list \in Seq(Users)
      BY <1>2, <2>1, <2>4, <2>5
    <2> QED BY <2>6 DEF ToSet
  <1>4. PICK g, b, c : g = NewGroup(0, list) /\ b = SaveGroup(g) /\ c = CreateCall(list, 0)
    OBVIOUS
  <1>5. /\ Queue(Owner, b) /\ Ask(Owner, {c}) /\ meant' = [name |-> 0, members |-> ToSet(list)]
    BY <1>1, <1>2, <1>4
  <1>6. /\ inputs' \in Nat /\ screens' = [screens EXCEPT ![Owner] = <<NewChat>>]
        /\ UNCHANGED <<store, muted, gone, lost, crossed>>
    BY DEF Create, Input, Types
  <1>7. /\ IsGroup(g) /\ g.name = 0 /\ g.members = list /\ g.push = list
        /\ DOMAIN g = GroupFields
    BY <1>3, <1>4 DEF NewGroup, IsGroup, GroupDocs, GroupFields
  <1>8. b.on = "group" /\ b.write.op = "set" /\ b.write.fields = g
    BY <1>4 DEF SaveGroup, GroupBatch, Write
  <1>9. IsBatch(b)
    BY <1>7, <1>8 DEF IsBatch, IsGroupWrite
  <1>10. c.kind = "create" /\ c.list = list /\ c.name = 0 /\ IsCall(c)
    BY <1>4 DEF CreateCall, IsCall
  <1>11. Owner \in Users
    BY OwnerAssumption
  <1>12. OnWay = {} /\ Asked = {}
    BY EmptyQueue DEF Untouched, OnWay, Asked
  <1>13. QueuesTyped' /\ OnWay' = {b}
    BY <1>5, <1>9, <1>11, <1>12, QueueStep DEF Types
  <1>14. CallsTyped' /\ Asked' = {c}
    <2>1. PICK C : C = {c}
      OBVIOUS
    <2>2. CallsTyped' /\ Asked' = Asked \cup C
      BY <1>5, <1>10, <1>11, <2>1, AskStep DEF Types
    <2> QED BY <1>12, <2>1, <2>2
  <1>15. screens' \in [Users -> Seq(Chats)]
    <2>1. PICK S, T : S = Chats /\ T = Seq(S)
      OBVIOUS
    <2>2. <<NewChat>> \in T
      BY <2>1, NewChatIs
    <2>3. screens \in [Users -> T]
      BY <2>1 DEF Types
    <2>4. screens' \in [Users -> T]
      BY <1>6, <2>2, <2>3
    <2> QED BY <2>1, <2>4
  <1>16. /\ meant' \in [name : Nat, members : SUBSET Users]
         /\ meant'.name = 0 /\ meant'.members = ToSet(list)
    BY <1>3, <1>5
  <1>17. meant' # Nil
    BY <1>16, NilIs
  <1>18. Types'
    BY <1>6, <1>13, <1>14, <1>15, <1>16 DEF Types
  <1>19. OwnDeleted'
    <2>1. \A a \in OnWay' : \A id : ~Deletes(a, id)
      BY <1>8, <1>13 DEF Deletes
    <2> QED BY <2>1 DEF OwnDeleted, Deletes
  <1>20. Agree'
    <2>1. /\ g["name"] = meant'.name /\ g["members"] = list /\ g["push"] = list
      BY <1>7, <1>16
    <2>2. FieldsRight(list, GroupFields, g)'
      BY <2>1 DEF FieldsRight, Right, GroupFields
    <2>3. GroupFollows(list)'
      BY <1>7, <1>8, <1>13, <2>2 DEF GroupFollows
    <2>4. CallRight(list, c)'
      <3> DEFINE asked == [name |-> c.name, members |-> c.list, push |-> c.list]
      <3>1. /\ DOMAIN asked = GroupFields /\ asked["name"] = meant'.name
            /\ asked["members"] = list /\ asked["push"] = list
        BY <1>10, <1>16 DEF GroupFields
      <3> HIDE DEF asked
      <3>2. FieldsRight(list, Followed, asked)'
        BY <3>1 DEF FieldsRight, Right, Followed, GroupFields
      <3> QED BY <1>10, <3>2 DEF CallRight, asked
    <2>5. AllFollow(list)'
      <3>1. \A a \in OnWay' : BatchRight(list, a)'
        BY <1>8, <1>13 DEF BatchRight
      <3>2. DOMAIN store'.recents = {}
        BY <1>6 DEF Untouched
      <3> QED BY <1>14, <2>4, <3>1, <3>2 DEF AllFollow
    <2> QED BY <1>3, <1>16, <2>3, <2>5 DEF Agree
  <1>21. ASSUME NEW v \in meant'.members PROVE Cared(v)'
    <2>1. c \in Asked' /\ Asks(c, v)'
      BY <1>3, <1>10, <1>14, <1>16, <1>21 DEF Asks
    <2> QED BY <2>1 DEF Cared
  <1> QED BY <1>17, <1>18, <1>19, <1>20, <1>21 DEF Founded

--------------------------------------------------------------------------------
(* The theorems.                                                               *)

LEMMA InitInv == Init => Inv
  <1> SUFFICES ASSUME Init PROVE Inv
    OBVIOUS
  <1>1. /\ writes = [u \in Users |-> <<>>] /\ calls = [u \in Users |-> {}]
        /\ inputs = 1 /\ crossed = FALSE /\ muted = FALSE /\ gone = {} /\ lost = FALSE
    BY DEF Init
  <1>2. QueuesTyped /\ CallsTyped /\ OnWay = {} /\ Asked = {}
    BY <1>1, EmptyQueue DEF QueuesTyped, CallsTyped, OnWay, Asked
  <1>3. OwnDeleted
    BY <1>2 DEF OwnDeleted
  <1>4. CASE /\ store = [group |-> Nil, recents |-> <<>>] /\ meant = Nil
             /\ screens = [u \in Users |-> <<>>]
    <2>1. IsStore(store) /\ store.group = Nil /\ DOMAIN store.recents = {}
      BY <1>4 DEF IsStore
    <2>2. screens \in [Users -> Seq(Chats)]
      <3>1. PICK S, T : S = Chats /\ T = Seq(S)
        OBVIOUS
      <3>2. <<>> \in T
        BY <3>1
      <3>3. screens \in [Users -> T]
        BY <1>4, <3>2
      <3> QED BY <3>1, <3>3
    <2>3. Types
      BY <1>1, <1>2, <1>4, <2>1, <2>2 DEF Types
    <2>4. Untouched
      BY <1>1, <1>4, <2>1 DEF Untouched
    <2> QED BY <1>3, <1>4, <2>3, <2>4 DEF Inv
  <1>5. CASE \E pick \in Picks :
            LET list == Append(pick, Owner)
                group == NewGroup(0, list)
            IN  /\ store = [group |-> group,
                            recents |-> [i \in {[call |-> 0, owner |-> v, copy |-> 1] :
                                                    v \in ToSet(list)} |->
                                [name |-> 0, members |-> list, push |-> list,
                                 shown |-> TRUE]]]
                /\ meant = [name |-> 0, members |-> ToSet(list)]
                /\ \E open \in SUBSET (ToSet(list) \cap Active) :
                    screens = [u \in Users |-> IF u \notin open THEN <<>> ELSE
                                <<[NewChat EXCEPT !.group = group, !.loading = FALSE]>>]
    <2>1. PICK pick \in Picks :
            LET list == Append(pick, Owner)
                group == NewGroup(0, list)
            IN  /\ store = [group |-> group,
                            recents |-> [i \in {[call |-> 0, owner |-> v, copy |-> 1] :
                                                    v \in ToSet(list)} |->
                                [name |-> 0, members |-> list, push |-> list,
                                 shown |-> TRUE]]]
                /\ meant = [name |-> 0, members |-> ToSet(list)]
                /\ \E open \in SUBSET (ToSet(list) \cap Active) :
                    screens = [u \in Users |-> IF u \notin open THEN <<>> ELSE
                                <<[NewChat EXCEPT !.group = group, !.loading = FALSE]>>]
      BY <1>5
    <2>2. PICK list : list = Append(pick, Owner)
      OBVIOUS
    <2>3. list \in Seq(Users) /\ ToSet(list) \subseteq Users
      <3>1. pick \in Seq(Users) /\ Owner \in Users
        BY PicksAssumption, OwnerAssumption
      <3>2. list \in Seq(Users)
        BY <2>2, <3>1
      <3> QED BY <3>2 DEF ToSet
    <2>4. PICK group, doc : /\ group = NewGroup(0, list)
                            /\ doc = [name |-> 0, members |-> list, push |-> list, shown |-> TRUE]
      OBVIOUS
    <2>5. /\ IsGroup(group) /\ group # Nil
          /\ group["name"] = 0 /\ group["members"] = list /\ group["push"] = list
      <3>1. IsGroup(group)
        BY <2>3, <2>4 DEF NewGroup, IsGroup, GroupDocs
      <3>2. group # Nil
        BY <3>1, NilIs DEF IsGroup
      <3>3. group["name"] = 0 /\ group["members"] = list /\ group["push"] = list
        BY <2>4 DEF NewGroup
      <3> QED BY <3>1, <3>2, <3>3
    <2>6. /\ DOMAIN doc = RecentFields
          /\ doc["name"] = 0 /\ doc["members"] = list /\ doc["push"] = list
      BY <2>4 DEF RecentFields, GroupFields
    <2> DEFINE ids == {[call |-> 0, owner |-> v, copy |-> 1] : v \in ToSet(list)}
    <2>7. /\ store = [group |-> group, recents |-> [i \in ids |-> doc]]
          /\ meant = [name |-> 0, members |-> ToSet(list)]
      BY <2>1, <2>2, <2>4
    <2>8. \A v \in ToSet(list) : \E id \in ids : id.owner = v
      <3>1. ASSUME NEW v \in ToSet(list) PROVE \E id \in ids : id.owner = v
        <4>1. [call |-> 0, owner |-> v, copy |-> 1] \in ids
          OBVIOUS
        <4> QED BY <4>1
      <3> QED BY <3>1
    <2> HIDE DEF ids
    <2>9. /\ store.group = group /\ DOMAIN store.recents = ids
          /\ \A id \in ids : store.recents[id] = doc
      BY <2>7
    <2>10. IsStore(store)
      BY <2>5, <2>6, <2>7, <2>9 DEF IsStore
    <2>11. screens \in [Users -> Seq(Chats)]
      <3>1. PICK S, T : S = Chats /\ T = Seq(S)
        OBVIOUS
      <3>2. PICK chat : chat = [NewChat EXCEPT !.group = group, !.loading = FALSE]
        OBVIOUS
      <3>3. chat \in S
        BY <2>5, <3>1, <3>2 DEF NewChat, Chats, IsGroup
      <3>4. <<>> \in T /\ <<chat>> \in T
        BY <3>1, <3>3
      <3>5. PICK open : screens = [u \in Users |-> IF u \notin open THEN <<>> ELSE <<chat>>]
        BY <2>1, <2>2, <2>4, <3>2
      <3>6. screens \in [Users -> T]
        BY <3>4, <3>5
      <3> QED BY <3>1, <3>6
    <2>12. /\ meant \in [name : Nat, members : SUBSET Users]
           /\ meant.name = 0 /\ meant.members = ToSet(list)
      BY <2>3, <2>7
    <2>13. meant # Nil
      BY <2>12, NilIs
    <2>14. Types
      BY <1>1, <1>2, <2>10, <2>11, <2>12 DEF Types
    <2>15. Agree
      <3>1. GroupFollows(list)
        BY <1>2, <2>5, <2>9, <2>12 DEF GroupFollows, Right, GroupFields
      <3>2. AllFollow(list)
        BY <1>2, <2>6, <2>9, <2>12 DEF AllFollow, Right, Followed, GroupFields
      <3> QED BY <2>3, <2>12, <3>1, <3>2 DEF Agree
    <2>16. \A v \in meant.members : Cared(v)
      BY <2>8, <2>9, <2>12 DEF Cared
    <2> QED BY <1>3, <2>13, <2>14, <2>15, <2>16 DEF Inv
  <1> QED BY <1>4, <1>5 DEF Init

LEMMA NextInv == Inv /\ [Next]_vars => Inv'
  <1> SUFFICES ASSUME Inv, [Next]_vars PROVE Inv'
    OBVIOUS
  <1>1. CASE UNCHANGED vars
    <2>1. /\ store' = store /\ writes' = writes /\ calls' = calls /\ screens' = screens
          /\ inputs' = inputs /\ meant' = meant /\ crossed' = crossed /\ muted' = muted
          /\ gone' = gone /\ lost' = lost
      BY <1>1 DEF vars, aux
    <2>2. Types' /\ (Untouched => Untouched')
      BY <2>1 DEF Inv, Types, QueuesTyped, CallsTyped, Untouched
    <2>3. OnWay' = OnWay /\ Asked' = Asked
      BY <2>1 DEF OnWay, Asked
    <2>4. CASE meant = Nil
      <3>1. OwnDeleted'
        BY <2>1, <2>3, OwnDeletedKept DEF Inv
      <3> QED BY <2>1, <2>2, <2>4, <3>1 DEF Inv
    <2>5. CASE meant # Nil
      <3>1. Founded'
        BY <2>1, <2>2, <2>3, <2>5, FoundedIsInv, SameKept
      <3>2. (Founded => Inv)'
        BY FoundedIsInv, PTL
      <3> QED BY <3>1, <3>2
    <2> QED BY <2>4, <2>5
  <1>2. CASE Next
    <2>1. PICK u \in Active : Edit(u) \/ Other(u) \/ Callback(u) \/ Network(u) \/ Serve(u)
      BY <1>2 DEF Next
    <2>2. u \in Users
      BY OwnerAssumption
    <2>3. CASE meant = Nil
      <3>1. Types /\ Untouched
        BY <2>3 DEF Inv
      <3>2. screens[u] = <<>> /\ calls[u] = {} /\ writes[u] = <<>> /\ Rows(u) = {}
        BY <2>2, <3>1, OnlyCreate
      <3>3. ~Other(u) /\ ~Callback(u) /\ ~Network(u) /\ ~Serve(u)
        BY <3>2 DEF Other, Callback, Network, Serve, Back, Send, Kill, ShowGroupTraps,
           GroupLoaded, GroupNotLoaded, Load
      <3>4. Create /\ UNCHANGED crossed
        BY <2>1, <3>2, <3>3 DEF Edit
      <3> QED BY <3>1, <3>4, CreateFounds, FoundedIsInv, PTL
    <2>4. CASE meant # Nil
      <3>1. Founded
        BY <2>4, FoundedIsInv
      <3>2. Founded'
        <4>1. CASE Edit(u)
          <5>1. CASE /\ screens[u] # <<>> /\ Top(u).group # Nil /\ Invite(u)
            BY <2>2, <3>1, <5>1, DoneKeeps DEF Invite
          <5>2. CASE /\ screens[u] # <<>> /\ Top(u).group # Nil /\ Save(u)
                     /\ crossed' = (crossed \/ ~Settled \/ ~UpToDate(Top(u), Top(u).invited))
            BY <2>2, <3>1, <5>2, SaveKeeps
          <5>3. CASE \E id \in Rows(u) : OpenRow(u, id) /\ crossed' = (crossed \/ ~Settled)
            BY <2>2, <3>1, <5>3, OpenRowKeeps
          <5>4. CASE Create
            BY <2>4, <5>4 DEF Create
          <5> QED BY <4>1, <5>1, <5>2, <5>3, <5>4 DEF Edit
        <4>2. CASE Other(u)
          <5>1. crossed' = crossed
            BY <4>2 DEF Other
          <5>2. CASE Back(u)
            BY <2>2, <3>1, <5>1, <5>2, BackKeeps
          <5>3. CASE Send(u)
            BY <2>2, <3>1, <5>1, <5>3, SendKeeps
          <5>4. CASE Kill(u) \/ ShowGroupTraps(u)
            <6>1. Crash(u) /\ inputs' \in Nat
              BY <3>1, <5>4 DEF Kill, ShowGroupTraps, Input, Founded, Types
            <6> QED BY <2>2, <3>1, <5>1, <6>1, CrashKeeps
          <5>5. CASE \E id \in Rows(u) : Mute(u, id)
            BY <2>2, <3>1, <5>1, <5>5, MuteKeeps
          <5>6. CASE \E id \in Rows(u) : DeleteRow(u, id)
            BY <2>2, <3>1, <5>1, <5>6, DeleteRowKeeps
          <5> QED BY <4>2, <5>2, <5>3, <5>4, <5>5, <5>6 DEF Other
        <4>3. CASE Callback(u)
          BY <2>2, <3>1, <4>3, CreateRecentsKeeps, UpdateRecentsKeeps DEF Callback
        <4>4. CASE Network(u)
          BY <2>2, <3>1, <4>4, LoadKeeps, FailKeeps DEF Network
        <4>5. CASE Serve(u)
          BY <2>2, <3>1, <4>5, ServeKeeps
        <4> QED BY <2>1, <4>1, <4>2, <4>3, <4>4, <4>5
      <3> QED BY <3>2, FoundedIsInv, PTL
    <2> QED BY <2>3, <2>4
  <1> QED BY <1>1, <1>2

(* Whatever users do, and whatever is late, lost or overtaken, the invariant   *)
(* holds: the lists in queues and calls are those meant wherever edits have    *)
(* not crossed, and whoever is meant to be a member has a recent or will have. *)
THEOREM GroupsInvariant == Spec => []Inv
  <1> QED BY InitInv, NextInv, PTL DEF Spec

(* The group's document is what was meant, however many users edit it from     *)
(* whichever of their screens, as long as edits do not cross.                  *)
THEOREM NobodyIsLost == Spec => []NobodyLost
  <1>1. Inv => NobodyLost
    <2> SUFFICES ASSUME Inv, Undisturbed PROVE /\ ToSet(store.group.members) = meant.members
                                               /\ ToSet(store.group.push) = meant.members
                                               /\ store.group.name = meant.name
      BY DEF NobodyLost
    <2>1. Types /\ Settled /\ Agree
      BY DEF Undisturbed, Inv
    <2>2. OnWay = {} /\ Asked = {}
      BY <2>1, SettledIs
    <2>3. PICK list \in Seq(Users) : ToSet(list) = meant.members /\ GroupFollows(list)
      BY <2>1 DEF Agree
    <2>4. \A f \in GroupFields : Right(list, f, store.group[f])
      BY <2>2, <2>3, SettledRight
    <2> QED BY <2>3, <2>4 DEF Right, GroupFields
  <1> QED BY <1>1, GroupsInvariant, PTL

(* The recents follow the group's document, created, updated or created again. *)
THEOREM TheRecentsFollow == Spec => []RecentsFollow
  <1>1. Inv => RecentsFollow
    <2> SUFFICES ASSUME Inv, Undisturbed, ~lost, NEW id \in DOMAIN store.recents
                 PROVE  LET r == store.recents[id]
                        IN  /\ r.name = store.group.name
                            /\ ~muted => /\ ToSet(r.members) = ToSet(store.group.members)
                                         /\ ToSet(r.push) = ToSet(store.group.members)
      BY DEF RecentsFollow
    <2>1. Types /\ Settled /\ Agree
      BY DEF Undisturbed, Inv
    <2>2. OnWay = {} /\ Asked = {}
      BY <2>1, SettledIs
    <2>3. PICK list \in Seq(Users) : GroupFollows(list) /\ AllFollow(list)
      BY <2>1 DEF Agree
    <2>4. /\ \A f \in GroupFields : Right(list, f, store.group[f])
          /\ \A f \in Followed : Right(list, f, store.recents[id][f])
      BY <2>2, <2>3, SettledRight
    <2> QED BY <2>4 DEF Right, GroupFields, Followed
  <1> QED BY <1>1, GroupsInvariant, PTL

(* Whoever was picked or invited has a recent, also when edits crossed.        *)
THEOREM TheInvitedHaveRecents == Spec => []InvitedHaveRecent
  <1>1. Inv => InvitedHaveRecent
    <2> SUFFICES ASSUME Inv, Settled, meant # Nil, ~lost, NEW v \in meant.members \ gone
                 PROVE  \E id \in DOMAIN store.recents : id.owner = v
      BY DEF InvitedHaveRecent
    <2>1. OnWay = {} /\ Asked = {}
      BY SettledIs DEF Inv
    <2>2. Cared(v)
      BY DEF Inv
    <2> QED BY <2>1, <2>2 DEF Cared
  <1> QED BY <1>1, GroupsInvariant, PTL


--------------------------------------------------------------------------------
(* One recent each.  What this needs besides: how often a user is in a list,   *)
(* and which recents there are or will be.                                     *)

SetBy(b) ==
  IF b.on = "recents" THEN {id \in DOMAIN b.writes : b.writes[id].op = "set"} ELSE {}

DeletedBy(b) ==
  IF b.on = "recents" THEN {id \in DOMAIN b.writes : b.writes[id].op = "delete"} ELSE {}

Sets(b) == SetBy(b) # {}

(* The recents stored or to be stored, those to be deleted, those left of v.   *)
Made == DOMAIN store.recents \cup UNION {SetBy(b) : b \in OnWay}
Erased == UNION {DeletedBy(b) : b \in OnWay}
Owned(v, S) == {id \in S : id.owner = v}
Left(v) == Owned(v, Made \ Erased)

(* "Create" was pressed p times: the owner is in each list as often.           *)
Due(p, v) == IF v = Owner THEN p ELSE 1

Pressed(list, p) ==
  /\ Owner \in ToSet(list)
  /\ \A v \in ToSet(list) : Occurrences(list, v) = Due(p, v)

ChatsOf(p) == {chat \in Chats : chat.group # Nil => Pressed(chat.group.members, p)}

Lists(p) ==
  /\ store.group # Nil => Pressed(store.group.members, p)
  /\ \A b \in OnWay : b.on = "group" /\ "members" \in DOMAIN b.write.fields =>
                         Pressed(b.write.fields["members"], p)
  /\ \A u \in Users : screens[u] \in Seq(ChatsOf(p))

(* A recent that waits has no message yet. *)
Unshown == \A b \in OnWay : \A id \in SetBy(b) : b.writes[id].fields.shown = FALSE

(* At most one batch anywhere creates recents. *)
OnceSet ==
  \A u \in Users, w \in Users :
    \A i \in 1..Len(writes[u]), j \in 1..Len(writes[w]) :
      Sets(writes[u][i]) /\ Sets(writes[w][j]) => u = w /\ i = j

(* At most one call to create recents has no answer. *)
OnceAsked ==
  \A u \in Users, w \in Users : \A c \in calls[u], d \in calls[w] :
    c.kind = "create" /\ d.kind = "create" => u = w /\ c = d

(* Such a call has made nothing yet, and no other one still does. *)
Fresh(c) ==
  /\ c.n \in Nat /\ c.n < inputs
  /\ \A id \in Made \cup Erased : id.call # c.n
  /\ \A b \in OnWay : ~Sets(b)

Counted(p) ==
  /\ \A v \in Users : /\ IsFiniteSet(Owned(v, Made))
                      /\ Cardinality(Left(v)) <= Due(p, v)
  /\ \A v \in meant.members \ gone :
        \/ Cardinality(Left(v)) = Due(p, v)
        \/ \E c \in Asked : c.kind = "create"
  /\ OnceSet /\ OnceAsked
  /\ \A c \in Asked : c.kind = "create" => Fresh(c)
  /\ \A id \in Made \cup Erased : id.call \in Nat /\ id.call < inputs
  /\ \A b \in OnWay : SetBy(b) \cap (DOMAIN store.recents \cup Erased) = {}

Regular == meant # Nil /\ ~crossed /\ ~lost /\ ~muted

At(p) == Unshown /\ Lists(p) /\ (Regular => Counted(p))

Counts == \E p \in Nat \ {0} : At(p)

--------------------------------------------------------------------------------
(* How often a user is in a list.                                              *)

LEMMA ByIs ==
  ASSUME NEW b
  PROVE  /\ \A id : id \in SetBy(b) <=> SetsRecent(b, id)
         /\ \A id : id \in DeletedBy(b) <=> Deletes(b, id)
         /\ \A id : ~(id \in SetBy(b) /\ id \in DeletedBy(b))
         /\ b.on # "recents" => SetBy(b) = {} /\ DeletedBy(b) = {}
  <1>1. /\ \A id : id \in SetBy(b) <=> SetsRecent(b, id)
        /\ \A id : id \in DeletedBy(b) <=> Deletes(b, id)
    BY DEF SetBy, DeletedBy, SetsRecent, Deletes
  <1>2. \A id : ~(id \in SetBy(b) /\ id \in DeletedBy(b))
    BY DEF SetBy, DeletedBy
  <1> QED BY <1>1, <1>2 DEF SetBy, DeletedBy

(* A list made of one that is in order and of others, each once. *)
LEMMA PressedConcat ==
  ASSUME NEW p, NEW s \in Seq(Users), Pressed(s, p),
         NEW t \in Seq(Users), IsInjective(t), ToSet(t) \cap ToSet(s) = {}
  PROVE  Pressed(s \o t, p)
  <1>1. PICK r : r = s \o t
    OBVIOUS
  <1>2. /\ r \in Seq(Users) /\ Len(s) \in Nat /\ Len(t) \in Nat /\ Len(r) = Len(s) + Len(t)
        /\ DOMAIN s = 1..Len(s) /\ DOMAIN t = 1..Len(t) /\ DOMAIN r = 1..Len(r)
    BY <1>1
  <1>3. \A i \in 1..Len(s) : r[i] = s[i] /\ i \in 1..Len(r)
    BY <1>1, <1>2
  <1>4. \A i \in 1..Len(t) : r[Len(s) + i] = t[i] /\ Len(s) + i \in 1..Len(r)
    BY <1>1, <1>2
  <1>5. \A i \in 1..Len(r) :
           i \in 1..Len(s) \/ (i - Len(s) \in 1..Len(t) /\ i = Len(s) + (i - Len(s)))
    BY <1>2
  <1>6. ToSet(r) = ToSet(s) \cup ToSet(t)
    BY <1>1, ConcatIs
  <1>7. Owner \in ToSet(s) /\ \A v \in ToSet(s) : Occurrences(s, v) = Due(p, v)
    BY DEF Pressed
  <1>8. ASSUME NEW v \in ToSet(s) PROVE Occurrences(r, v) = Due(p, v)
    <2>1. \A j \in 1..Len(t) : t[j] # v
      BY <1>2, <1>8 DEF ToSet
    <2>2. {i \in DOMAIN r : r[i] = v} = {i \in DOMAIN s : s[i] = v}
      <3>1. ASSUME NEW i \in DOMAIN r, r[i] = v PROVE i \in DOMAIN s /\ s[i] = v
        <4>1. CASE i \in 1..Len(s)
          BY <1>2, <1>3, <3>1, <4>1
        <4>2. CASE i - Len(s) \in 1..Len(t) /\ i = Len(s) + (i - Len(s))
          BY <1>4, <2>1, <3>1, <4>2
        <4> QED BY <1>2, <1>5, <4>1, <4>2
      <3>2. ASSUME NEW i \in DOMAIN s, s[i] = v PROVE i \in DOMAIN r /\ r[i] = v
        BY <1>2, <1>3, <3>2
      <3> QED BY <3>1, <3>2
    <2> QED BY <1>7, <2>2 DEF Occurrences
  <1>9. ASSUME NEW v \in ToSet(t) PROVE Occurrences(r, v) = Due(p, v)
    <2>1. v \notin ToSet(s) /\ v # Owner
      BY <1>7, <1>9
    <2>2. PICK j \in 1..Len(t) : t[j] = v
      BY <1>2, <1>9 DEF ToSet
    <2>3. \A i \in 1..Len(s) : s[i] # v
      BY <1>2, <2>1 DEF ToSet
    <2>4. \A i \in 1..Len(t) : t[i] = v => i = j
      BY <1>2, <2>2 DEF IsInjective
    <2>5. {i \in DOMAIN r : r[i] = v} = {Len(s) + j}
      <3>1. ASSUME NEW i \in DOMAIN r, r[i] = v PROVE i = Len(s) + j
        <4>1. CASE i \in 1..Len(s)
          BY <1>3, <2>3, <3>1, <4>1
        <4>2. CASE i - Len(s) \in 1..Len(t) /\ i = Len(s) + (i - Len(s))
          <5>1. t[i - Len(s)] = v
            BY <1>4, <3>1, <4>2
          <5> QED BY <2>4, <4>2, <5>1
        <4> QED BY <1>2, <1>5, <4>1, <4>2
      <3>2. Len(s) + j \in DOMAIN r /\ r[Len(s) + j] = v
        BY <1>2, <1>4, <2>2
      <3> QED BY <3>1, <3>2
    <2>6. Occurrences(r, v) = 1
      BY <2>5, FS_Singleton DEF Occurrences
    <2> QED BY <2>1, <2>6 DEF Due
  <1> QED BY <1>1, <1>6, <1>7, <1>8, <1>9 DEF Pressed

(* The list of a new group: those picked, then the owner once for each press.  *)
LEMMA PressedFirst ==
  ASSUME NEW pick \in Picks, NEW n \in Nat \ {0}, NEW list \in Seq(Users),
         Len(list) = Len(pick) + n,
         \A i \in 1..Len(pick) : list[i] = pick[i],
         \A i \in 1..n : list[Len(pick) + i] = Owner
  PROVE  Pressed(list, n)
  <1>1. /\ pick \in Seq(Users) /\ IsInjective(pick) /\ Owner \notin ToSet(pick)
    BY PicksAssumption
  <1>2. /\ Len(pick) \in Nat /\ DOMAIN pick = 1..Len(pick)
        /\ Len(list) \in Nat /\ DOMAIN list = 1..Len(list)
    BY <1>1
  <1>3. \A i \in 1..Len(pick) : pick[i] # Owner
    BY <1>1, <1>2 DEF ToSet
  <1>4. \A i \in 1..Len(list) :
           \/ i \in 1..Len(pick) /\ list[i] = pick[i]
           \/ i \in (Len(pick) + 1)..(Len(pick) + n) /\ list[i] = Owner
    <2>1. ASSUME NEW i \in 1..Len(list), i \notin 1..Len(pick) PROVE list[i] = Owner
      <3>1. i - Len(pick) \in 1..n /\ i = Len(pick) + (i - Len(pick))
        BY <1>2, <2>1
      <3>2. list[Len(pick) + (i - Len(pick))] = Owner
        BY <3>1
      <3> QED BY <3>1, <3>2
    <2> QED BY <1>2, <2>1
  <1>5. {i \in DOMAIN list : list[i] = Owner} = (Len(pick) + 1)..(Len(pick) + n)
    <2>1. ASSUME NEW i \in (Len(pick) + 1)..(Len(pick) + n) PROVE i \in 1..Len(list)
      BY <1>2
    <2>2. ASSUME NEW i \in (Len(pick) + 1)..(Len(pick) + n) PROVE list[i] = Owner
      BY <1>2, <1>4, <2>1
    <2> QED BY <1>2, <1>3, <1>4, <2>1, <2>2
  <1>6. Occurrences(list, Owner) = n
    <2>1. PICK a : a = Len(pick) + 1
      OBVIOUS
    <2>2. PICK z : z = Len(pick) + n
      OBVIOUS
    <2>3. a \in Int /\ z \in Int /\ a <= z /\ z - a + 1 = n
      BY <1>2, <2>1, <2>2
    <2>4. Cardinality(a..z) = z - a + 1
      BY <2>3, FS_Interval
    <2> QED BY <1>5, <2>1, <2>2, <2>3, <2>4 DEF Occurrences
  <1>7. ASSUME NEW v \in ToSet(list), v # Owner PROVE Occurrences(list, v) = 1
    <2>1. PICK j \in 1..Len(list) : list[j] = v
      BY <1>2, <1>7 DEF ToSet
    <2>2. j \in 1..Len(pick) /\ pick[j] = v
      BY <1>4, <1>7, <2>1
    <2>3. \A i \in 1..Len(list) : list[i] = v => i = j
      BY <1>1, <1>2, <1>4, <1>7, <2>2 DEF IsInjective
    <2>4. {i \in DOMAIN list : list[i] = v} = {j}
      BY <1>2, <2>1, <2>3
    <2> QED BY <2>4, FS_Singleton DEF Occurrences
  <1>8. Owner \in ToSet(list)
    <2>1. Len(pick) + 1 \in 1..Len(list) /\ 1 \in 1..n
      BY <1>2
    <2>2. list[Len(pick) + 1] = Owner
      BY <2>1
    <2> QED BY <1>2, <2>1, <2>2 DEF ToSet
  <1> QED BY <1>6, <1>7, <1>8 DEF Pressed, Due

LEMMA SelectionsOnce ==
  ASSUME NEW u \in Users, NEW group, NEW selected \in Selections(u, group)
  PROVE  IsInjective(selected)
  <1>1. PICK S \in SUBSET Eligible(u, group) : selected = SetToSeq(S)
    BY DEF Selections
  <1>2. IsFiniteSet(S)
    <2>1. S \subseteq Users
      BY <1>1 DEF Eligible
    <2> QED BY <2>1, OwnerAssumption, FS_Subset
  <1>3. PICK f : f \in Bijection(1..Cardinality(S), S)
    BY <1>2, FS_CardinalityType DEF ExistsBijection
  <1>4. f \in [1..Cardinality(S) -> S] /\ IsInjective(f)
    BY <1>3 DEF Bijection, Injection, Surjection, IsInjective
  <1> QED BY <1>1, <1>4 DEF SetToSeq

--------------------------------------------------------------------------------
(* What a client sees of the group and of recents with a message.              *)

LEMMA AppliedShown ==
  ASSUME NEW s, IsStore(s), NEW b, b.on = "recents",
         \A id \in SetBy(b) : b.writes[id].fields.shown = FALSE,
         \A id \in DOMAIN b.writes : IsRecentWrite(b.writes[id])
  PROVE  LET t == Applied(s, b)
         IN  \A id \in DOMAIN t.recents :
                t.recents[id].shown = TRUE =>
                   id \in DOMAIN s.recents /\ s.recents[id].shown = TRUE
  <1> DEFINE t == Applied(s, b)
             made == {i \in DOMAIN b.writes : b.writes[i].op = "set"}
             deleted == {i \in DOMAIN b.writes : b.writes[i].op = "delete"}
  <1>1. t.recents = [i \in (DOMAIN s.recents \ deleted) \cup made |->
                       IF i \in made THEN b.writes[i].fields
                       ELSE IF i \in DOMAIN b.writes
                            THEN Merged(s.recents[i], b.writes[i].fields)
                            ELSE s.recents[i]]
    <2>1. s = [group |-> s.group, recents |-> s.recents]
      BY DEF IsStore
    <2>2. t.recents = WrittenRecents(s.recents, b.writes)
      BY <2>1 DEF Applied
    <2> QED BY <2>2 DEF WrittenRecents
  <1>2. SetBy(b) = made
    BY DEF SetBy
  <1> HIDE DEF t
  <1>3. ASSUME NEW id \in DOMAIN t.recents, t.recents[id].shown = TRUE
        PROVE  id \in DOMAIN s.recents /\ s.recents[id].shown = TRUE
    <2>1. id \notin made
      <3>1. ASSUME id \in made PROVE FALSE
        <4>1. t.recents[id] = b.writes[id].fields
          BY <1>1, <3>1
        <4> QED BY <1>2, <1>3, <3>1, <4>1
      <3> QED BY <3>1
    <2>2. id \in DOMAIN s.recents /\ id \notin deleted
      BY <1>1, <1>3, <2>1
    <2>3. CASE id \in DOMAIN b.writes
      <3>1. t.recents[id] = Merged(s.recents[id], b.writes[id].fields)
        BY <1>1, <1>3, <2>1, <2>3
      <3>2. b.writes[id].op = "update" /\ DOMAIN b.writes[id].fields \subseteq GroupFields
        BY <2>1, <2>2, <2>3 DEF IsRecentWrite
      <3>3. "shown" \notin DOMAIN b.writes[id].fields
        BY <3>2 DEF GroupFields
      <3>4. "shown" \in DOMAIN s.recents[id]
        BY <2>2 DEF IsStore, RecentFields
      <3>5. t.recents[id]["shown"] = s.recents[id]["shown"]
        BY <3>1, <3>3, <3>4 DEF Merged
      <3> QED BY <1>3, <2>2, <3>5
    <2>4. CASE id \notin DOMAIN b.writes
      <3>1. t.recents[id] = s.recents[id]
        BY <1>1, <1>3, <2>1, <2>4
      <3> QED BY <1>3, <2>2, <3>1
    <2> QED BY <2>3, <2>4
  <1> QED BY <1>3 DEF t

(* The group's list stays in order, whatever batch is applied. *)
LEMMA AppliedPressed ==
  ASSUME NEW p, NEW s, IsStore(s), s.group # Nil => Pressed(s.group.members, p),
         NEW b, IsBatch(b),
         b.on = "group" /\ "members" \in DOMAIN b.write.fields =>
            Pressed(b.write.fields["members"], p)
  PROVE  LET t == Applied(s, b)
         IN  t.group # Nil => Pressed(t.group.members, p)
  <1>1. PICK t : t = Applied(s, b)
    OBVIOUS
  <1>2. /\ b.on = "group" => IsGroupWrite(b.write) /\ t.group = WrittenGroup(s.group, b.write)
        /\ b.on = "recents" => t.group = s.group
    BY <1>1, AppliedIs
  <1>3. CASE b.on = "group"
    <2>1. PICK g, w, h : g = s.group /\ w = b.write /\ h = t.group
      OBVIOUS
    <2>2. (g # Nil => IsGroup(g)) /\ IsGroupWrite(w) /\ h = WrittenGroup(g, w)
      BY <1>2, <1>3, <2>1 DEF IsStore
    <2>3. /\ h = Nil <=> g = Nil /\ w.op # "set"
          /\ w.op = "set" => DOMAIN w.fields = GroupFields
          /\ h # Nil => \A f \in GroupFields :
                           h[f] = IF f \in DOMAIN w.fields THEN w.fields[f] ELSE g[f]
      BY <2>2, WrittenGroupIs
    <2>4. "members" \in GroupFields
      BY DEF GroupFields
    <2>5. ASSUME h # Nil PROVE Pressed(h["members"], p)
      <3>1. CASE "members" \in DOMAIN w.fields
        <4>1. h["members"] = w.fields["members"]
          BY <2>3, <2>4, <2>5, <3>1
        <4> QED BY <1>3, <2>1, <3>1, <4>1
      <3>2. CASE "members" \notin DOMAIN w.fields
        <4>1. h["members"] = g["members"] /\ g # Nil
          BY <2>3, <2>4, <2>5, <3>2
        <4> QED BY <2>1, <4>1
      <3> QED BY <3>1, <3>2
    <2> QED BY <1>1, <2>1, <2>5
  <1>4. CASE b.on = "recents"
    BY <1>1, <1>2, <1>4
  <1> QED BY <1>3, <1>4 DEF IsBatch

SeenWell(p, s, t) ==
  /\ IsStore(t)
  /\ t.group # Nil => Pressed(t.group.members, p)
  /\ \A id \in DOMAIN t.recents : t.recents[id].shown = TRUE => id \in DOMAIN s.recents

LEMMA SeenMore ==
  ASSUME Types, NEW u \in Users, Unshown, NEW p, Lists(p)
  PROVE  /\ Seen(u).group # Nil => Pressed(Seen(u).group.members, p)
         /\ \A id \in DOMAIN Seen(u).recents :
               Seen(u).recents[id].shown = TRUE => id \in DOMAIN store.recents
  <1>0. PICK s : s = store
    OBVIOUS
  <1>1. PICK q : q = writes[u]
    OBVIOUS
  <1>2. IsQueue(q) /\ IsStore(s)
    BY <1>0, <1>1 DEF Types, QueuesTyped
  <1>3. Len(q) \in Nat /\ \A i \in 1..Len(q) : q[i] \in Elements(q) /\ IsBatch(q[i])
    BY <1>2, QueueIs
  <1>4. \A i \in 1..Len(q) : q[i] \in OnWay
    BY <1>1, <1>3, OnWayIs DEF Types
  <1>5. PICK after : Afters(after, store, q, Len(q)) /\ Seen(u) = after[Len(q)]
    BY <1>1, <1>3, SeenAfters
  <1> DEFINE T == {n \in Nat : n <= Len(q) => SeenWell(p, s, after[n])}
  <1>6. 0 \in T
    <2>1. after[0] = s
      BY <1>0, <1>5 DEF Afters
    <2> QED BY <1>0, <1>2, <2>1 DEF Lists, SeenWell
  <1>7. ASSUME NEW n \in Nat, n \in T
        PROVE  n + 1 \in T
    <2>1. SUFFICES ASSUME n + 1 <= Len(q) PROVE SeenWell(p, s, after[n + 1])
      OBVIOUS
    <2>2. n <= Len(q) /\ n + 1 \in 1..Len(q) /\ (n + 1) - 1 = n
      BY <1>3, <2>1
    <2>3. SeenWell(p, s, after[n])
      BY <1>7, <2>2
    <2>4. after[n + 1] = Applied(after[n], q[n + 1])
      BY <1>5, <2>2 DEF Afters
    <2>5. PICK a, b, t : a = after[n] /\ b = q[n + 1] /\ t = after[n + 1]
      OBVIOUS
    <2>6. IsBatch(b) /\ b \in OnWay /\ t = Applied(a, b)
      BY <1>3, <1>4, <2>2, <2>4, <2>5
    <2>7. IsStore(a) /\ (a.group # Nil => Pressed(a.group.members, p))
      BY <2>3, <2>5 DEF SeenWell
    <2> HIDE DEF T
    <2>8. IsStore(t) /\ (b.on = "group" => t.recents = a.recents)
      BY <2>6, <2>7, AppliedIs
    <2>9. t.group # Nil => Pressed(t.group.members, p)
      BY <2>6, <2>7, AppliedPressed DEF Lists
    <2>10. ASSUME NEW id \in DOMAIN t.recents, t.recents[id].shown = TRUE
           PROVE  id \in DOMAIN s.recents
      <3>1. id \in DOMAIN a.recents /\ a.recents[id].shown = TRUE
        <4>1. CASE b.on = "group"
          BY <2>8, <2>10, <4>1
        <4>2. CASE b.on = "recents"
          <5>1. \A i \in DOMAIN b.writes : IsRecentWrite(b.writes[i])
            BY <2>6, <4>2 DEF IsBatch
          <5>2. \A i \in SetBy(b) : b.writes[i].fields.shown = FALSE
            BY <2>6 DEF Unshown
          <5> QED BY <2>6, <2>7, <2>10, <4>2, <5>1, <5>2, AppliedShown
        <4> QED BY <2>6, <4>1, <4>2 DEF IsBatch
      <3> QED BY <2>3, <2>5, <3>1 DEF SeenWell
    <2> QED BY <2>5, <2>8, <2>9, <2>10 DEF SeenWell
  <1> HIDE DEF T
  <1>8. \A n \in Nat : n \in T
    BY <1>6, <1>7, SetInduction
  <1>9. SeenWell(p, s, Seen(u))
    BY <1>3, <1>5, <1>8 DEF T
  <1> QED BY <1>0, <1>9 DEF SeenWell

--------------------------------------------------------------------------------
(* At most one batch creates recents.                                          *)

LEMMA OnceIs ==
  ASSUME OnceSet, NEW v \in Users, NEW w \in Users,
         NEW i \in 1..Len(writes[v]), NEW j \in 1..Len(writes[w]),
         Sets(writes[v][i]), Sets(writes[w][j])
  PROVE  v = w /\ i = j
  BY DEF OnceSet

LEMMA OnceQueued ==
  ASSUME QueuesTyped, OnceSet, NEW u \in Users, NEW b, IsBatch(b), Queue(u, b),
         ~Sets(b) \/ \A a \in OnWay : ~Sets(a)
  PROVE  OnceSet'
  <1>1. /\ writes'[u] = Append(writes[u], b)
        /\ \A v \in Users : v # u => writes'[v] = writes[v]
    BY DEF Queue, QueuesTyped
  <1>2. PICK q, r : q = writes[u] /\ r = writes'[u]
    OBVIOUS
  <1>3. PICK S : q \in Seq(S)
    BY <1>2 DEF QueuesTyped, IsQueue
  <1>4. /\ Len(q) \in Nat /\ Len(r) = Len(q) + 1 /\ r[Len(q) + 1] = b
        /\ \A i \in 1..Len(q) : r[i] = q[i]
    BY <1>1, <1>2, <1>3
  <1>5. \A v \in Users : \A i \in 1..Len(writes'[v]) :
           \/ v = u /\ i = Len(q) + 1 /\ writes'[v][i] = b
           \/ i \in 1..Len(writes[v]) /\ writes'[v][i] = writes[v][i]
    <2>1. ASSUME NEW v \in Users, NEW i \in 1..Len(writes'[v]), v = u
          PROVE  \/ i = Len(q) + 1 /\ writes'[v][i] = b
                 \/ i \in 1..Len(writes[v]) /\ writes'[v][i] = writes[v][i]
      <3>1. i \in 1..Len(r) /\ writes'[v][i] = r[i] /\ writes[v] = q
        BY <1>2, <2>1
      <3>2. i = Len(q) + 1 \/ i \in 1..Len(q)
        BY <1>4, <3>1
      <3> QED BY <1>4, <3>1, <3>2
    <2>2. ASSUME NEW v \in Users, NEW i \in 1..Len(writes'[v]), v # u
          PROVE  i \in 1..Len(writes[v]) /\ writes'[v][i] = writes[v][i]
      BY <1>1, <2>2
    <2> QED BY <2>1, <2>2
  <1>6. \A v \in Users : \A i \in 1..Len(writes[v]) : writes[v][i] \in OnWay
    BY QueueIs, OnWayIs DEF QueuesTyped
  <1>7. \A v \in Users, w \in Users :
          \A i \in 1..Len(writes'[v]), j \in 1..Len(writes'[w]) :
            Sets(writes'[v][i]) /\ Sets(writes'[w][j]) => v = w /\ i = j
    <2>1. ASSUME NEW v \in Users, NEW w \in Users,
                 NEW i \in 1..Len(writes'[v]), NEW j \in 1..Len(writes'[w]),
                 Sets(writes'[v][i]), Sets(writes'[w][j])
          PROVE  v = w /\ i = j
      <3>1. CASE /\ i \in 1..Len(writes[v]) /\ writes'[v][i] = writes[v][i]
                 /\ j \in 1..Len(writes[w]) /\ writes'[w][j] = writes[w][j]
        <4>1. Sets(writes[v][i]) /\ Sets(writes[w][j])
          BY <2>1, <3>1
        <4> QED BY <3>1, <4>1, OnceIs
      <3>2. CASE /\ v = u /\ i = Len(q) + 1 /\ writes'[v][i] = b
                 /\ j \in 1..Len(writes[w]) /\ writes'[w][j] = writes[w][j]
        BY <1>6, <2>1, <3>2
      <3>3. CASE /\ w = u /\ j = Len(q) + 1 /\ writes'[w][j] = b
                 /\ i \in 1..Len(writes[v]) /\ writes'[v][i] = writes[v][i]
        BY <1>6, <2>1, <3>3
      <3>4. CASE v = u /\ i = Len(q) + 1 /\ w = u /\ j = Len(q) + 1
        BY <3>4
      <3> QED BY <1>5, <3>1, <3>2, <3>3, <3>4
    <2> QED BY <2>1
  <1>8. OnceSet' <=> \A v \in Users, w \in Users :
          \A i \in 1..Len(writes'[v]), j \in 1..Len(writes'[w]) :
            Sets(writes'[v][i]) /\ Sets(writes'[w][j]) => v = w /\ i = j
    BY DEF OnceSet, Sets, SetBy
  <1> QED BY <1>7, <1>8

(* What Serve does, and that after a batch with new recents there is none.     *)
LEMMA ServeOnce ==
  ASSUME QueuesTyped, NEW u \in Users, Serve(u)
  PROVE  /\ QueuesTyped'
         /\ \E b : /\ IsBatch(b) /\ store' = Applied(store, b)
                   /\ OnWay = OnWay' \cup {b}
                   /\ OnceSet => OnceSet'
                   /\ OnceSet /\ Sets(b) => \A a \in OnWay' : ~Sets(a)
  <1>1. /\ DOMAIN writes' = Users /\ writes'[u] = Tail(writes[u]) /\ writes[u] # <<>>
        /\ \A v \in Users : v # u => writes'[v] = writes[v]
        /\ store' = Applied(store, Head(writes[u]))
    BY DEF Serve, QueuesTyped
  <1>2. PICK q, r : q = writes[u] /\ r = writes'[u]
    OBVIOUS
  <1>3. PICK b : b = Head(q)
    OBVIOUS
  <1>4. IsQueue(r) /\ Elements(q) = Elements(r) \cup {b} /\ IsBatch(b)
    BY <1>1, <1>2, <1>3, QueueShrinks DEF QueuesTyped
  <1>5. QueuesTyped'
    BY <1>1, <1>2, <1>4 DEF QueuesTyped
  <1>6. \A v \in Users : Elements(writes[v]) = IF v = u THEN Elements(writes'[v]) \cup {b}
                                               ELSE Elements(writes'[v])
    BY <1>1, <1>2, <1>4
  <1>7. OnWay' = UNION {Elements(writes'[v]) : v \in Users}
    BY DEF OnWay
  <1>8. OnWay = OnWay' \cup {b}
    BY <1>6, <1>7 DEF OnWay
  <1>9. PICK S : q \in Seq(S)
    BY <1>2 DEF QueuesTyped, IsQueue
  <1>10. /\ Len(q) \in Nat /\ Len(q) > 0 /\ Len(r) = Len(q) - 1 /\ q[1] = b
         /\ \A i \in 1..Len(r) : r[i] = q[i + 1] /\ i + 1 \in 1..Len(q) /\ i + 1 # 1
         /\ 1 \in 1..Len(q)
    BY <1>1, <1>2, <1>3, <1>9
  <1> DEFINE k(v, i) == IF v = u THEN i + 1 ELSE i
  <1>11. \A v \in Users : \A i \in 1..Len(writes'[v]) :
            /\ k(v, i) \in 1..Len(writes[v]) /\ writes'[v][i] = writes[v][k(v, i)]
            /\ v = u => k(v, i) # 1
    BY <1>1, <1>2, <1>10
  <1>12. \A v \in Users, i \in Nat, j \in Nat : k(v, i) = k(v, j) => i = j
    OBVIOUS
  <1> HIDE DEF k
  <1>13. OnceSet => OnceSet'
    <2>1. ASSUME OnceSet, NEW v \in Users, NEW w \in Users,
                 NEW i \in 1..Len(writes'[v]), NEW j \in 1..Len(writes'[w]),
                 Sets(writes'[v][i]), Sets(writes'[w][j])
          PROVE  v = w /\ i = j
      <3>1. PICK m, n : m = k(v, i) /\ n = k(w, j)
        OBVIOUS
      <3>2. /\ m \in 1..Len(writes[v]) /\ Sets(writes[v][m])
            /\ n \in 1..Len(writes[w]) /\ Sets(writes[w][n])
        BY <1>11, <2>1, <3>1
      <3>3. v = w /\ m = n
        BY <2>1, <3>2, OnceIs
      <3>4. i \in Nat /\ j \in Nat
        OBVIOUS
      <3> QED BY <1>12, <3>1, <3>3, <3>4
    <2>2. OnceSet' <=> \A v \in Users, w \in Users :
            \A i \in 1..Len(writes'[v]), j \in 1..Len(writes'[w]) :
              Sets(writes'[v][i]) /\ Sets(writes'[w][j]) => v = w /\ i = j
      BY DEF OnceSet, Sets, SetBy
    <2> QED BY <2>1, <2>2
  <1>14. ASSUME OnceSet, Sets(b), NEW a \in OnWay', Sets(a) PROVE FALSE
    <2>1. PICK v \in Users : a \in Elements(writes'[v])
      BY <1>7
    <2>2. PICK i \in 1..Len(writes'[v]) : a = writes'[v][i]
      BY <2>1 DEF Elements
    <2>3. v = u /\ k(v, i) = 1
      <3>1. k(v, i) \in 1..Len(writes[v]) /\ a = writes[v][k(v, i)]
        BY <1>11, <2>2
      <3>2. 1 \in 1..Len(writes[u]) /\ writes[u][1] = b
        BY <1>2, <1>10
      <3> QED BY <1>14, <3>1, <3>2 DEF OnceSet
    <2> QED BY <1>11, <2>3
  <1> QED BY <1>1, <1>2, <1>3, <1>4, <1>5, <1>8, <1>13, <1>14

--------------------------------------------------------------------------------
(* Ways in which the counts are kept.                                          *)

LEMMA TopOf ==
  ASSUME NEW S, NEW s \in Seq(S), s # <<>>
  PROVE  /\ s[Len(s)] \in S /\ Front(s) \in Seq(S)
         /\ \A x \in S : Append(Front(s), x) \in Seq(S)
         /\ \A x \in S, y \in S : Front(s) \o <<x, y>> \in Seq(S)
  <1>1. Len(s) \in Nat /\ Len(s) > 0
    OBVIOUS
  <1>2. s[Len(s)] \in S
    BY <1>1
  <1>3. SubSeq(s, 1, Len(s) - 1) \in Seq(S)
    BY <1>1
  <1>4. Front(s) \in Seq(S)
    BY <1>3 DEF Front
  <1> QED BY <1>2, <1>4

LEMMA ListsKept ==
  ASSUME NEW p, Lists(p),
         store'.group # Nil => Pressed(store'.group.members, p),
         \A b \in OnWay' : b \in OnWay \/ (b.on = "group" /\ "members" \in DOMAIN b.write.fields =>
                                              Pressed(b.write.fields["members"], p)),
         \A u \in Users : screens'[u] \in Seq(ChatsOf(p))
  PROVE  Lists(p)'
  BY DEF Lists

LEMMA UnshownKept ==
  ASSUME Unshown,
         \A b \in OnWay' : b \in OnWay \/ \A id \in SetBy(b) : b.writes[id].fields.shown = FALSE
  PROVE  Unshown'
  <1>1. \A b \in OnWay' : \A id \in SetBy(b) : b.writes[id].fields.shown = FALSE
    BY DEF Unshown
  <1> QED BY <1>1 DEF Unshown

(* What a batch queued adds. *)
LEMMA MadeQueued ==
  ASSUME NEW b, OnWay' = OnWay \cup {b}, DOMAIN store'.recents = DOMAIN store.recents
  PROVE  Made' = Made \cup SetBy(b) /\ Erased' = Erased \cup DeletedBy(b)
  <1>1. Made' = DOMAIN store'.recents \cup UNION {SetBy(a) : a \in OnWay'}
    BY DEF Made
  <1>2. Erased' = UNION {DeletedBy(a) : a \in OnWay'}
    BY DEF Erased
  <1> QED BY <1>1, <1>2 DEF Made, Erased

LEMMA MadeSame ==
  ASSUME OnWay' = OnWay, DOMAIN store'.recents = DOMAIN store.recents
  PROVE  Made' = Made /\ Erased' = Erased
  <1>1. Made' = DOMAIN store'.recents \cup UNION {SetBy(a) : a \in OnWay'}
    BY DEF Made
  <1>2. Erased' = UNION {DeletedBy(a) : a \in OnWay'}
    BY DEF Erased
  <1> QED BY <1>1, <1>2 DEF Made, Erased

LEMMA OnceSetSame ==
  ASSUME OnceSet, writes' = writes
  PROVE  OnceSet'
  BY DEF OnceSet

LEMMA OwnedIs ==
  /\ \A v, S, T : S \subseteq T => Owned(v, S) \subseteq Owned(v, T)
  /\ \A v, S, id : id \in Owned(v, S) <=> id \in S /\ id.owner = v
  BY DEF Owned

(* A step that makes and deletes nothing and asks for no recents. *)
LEMMA CountedQuiet ==
  ASSUME NEW p, Counted(p), Made' = Made, Erased' = Erased,
         DOMAIN store'.recents = DOMAIN store.recents,
         meant'.members = meant.members, gone \subseteq gone',
         inputs \in Nat, inputs' \in Nat, inputs <= inputs', OnceSet',
         \A u \in Users : \A c :
            c.kind = "create" => (c \in calls'[u] <=> c \in calls[u]),
         \A b \in OnWay' : b \in OnWay \/ ~Sets(b)
  PROVE  Counted(p)'
  <1>1. \A v : Owned(v, Made)' = Owned(v, Made) /\ Left(v)' = Left(v)
    BY DEF Owned, Left
  <1>2. \A c : c.kind = "create" => (c \in Asked' <=> c \in Asked)
    <2>1. Asked' = UNION {calls'[u] : u \in Users}
      BY DEF Asked
    <2> QED BY <2>1 DEF Asked
  <1>3. \A v \in Users : /\ IsFiniteSet(Owned(v, Made)')
                         /\ Cardinality(Left(v)') <= Due(p, v)
    BY <1>1 DEF Counted
  <1>4. \A v \in meant'.members \ gone' :
          \/ Cardinality(Left(v)') = Due(p, v)
          \/ \E c \in Asked' : c.kind = "create"
    <2>1. ASSUME NEW v \in meant'.members \ gone'
          PROVE  \/ Cardinality(Left(v)') = Due(p, v)
                 \/ \E c \in Asked' : c.kind = "create"
      <3>1. v \in meant.members \ gone
        BY <2>1
      <3>2. \/ Cardinality(Left(v)) = Due(p, v)
            \/ \E c \in Asked : c.kind = "create"
        BY <3>1 DEF Counted
      <3> QED BY <1>1, <1>2, <3>2
    <2> QED BY <2>1
  <1>5. OnceAsked'
    <2>1. \A u \in Users, w \in Users : \A c \in calls'[u], d \in calls'[w] :
             c.kind = "create" /\ d.kind = "create" => u = w /\ c = d
      BY DEF Counted, OnceAsked
    <2> QED BY <2>1 DEF OnceAsked
  <1>6. \A c \in Asked' : c.kind = "create" => Fresh(c)'
    <2>1. ASSUME NEW c \in Asked', c.kind = "create" PROVE Fresh(c)'
      <3>1. Fresh(c)
        BY <1>2, <2>1 DEF Counted
      <3>2. \A b \in OnWay' : ~Sets(b)
        BY <3>1 DEF Fresh
      <3> QED BY <3>1, <3>2 DEF Fresh
    <2> QED BY <2>1
  <1>7. \A id \in Made' \cup Erased' : id.call \in Nat /\ id.call < inputs'
    BY DEF Counted
  <1>8. \A b \in OnWay' : SetBy(b) \cap (DOMAIN store'.recents \cup Erased') = {}
    BY DEF Counted, Sets
  <1> QED BY <1>3, <1>4, <1>5, <1>6, <1>7, <1>8 DEF Counted

(* An edit made when everything had settled asks once for recents. *)
LEMMA CountedAsked ==
  ASSUME NEW p, Made' = Made, Erased' = {}, inputs \in Nat, inputs' = inputs + 1,
         \A v \in Users : /\ IsFiniteSet(Owned(v, Made))
                          /\ Cardinality(Owned(v, Made)) <= Due(p, v),
         \A id \in Made : id.call \in Nat /\ id.call < inputs,
         OnceSet', \A b \in OnWay' : ~Sets(b),
         NEW u \in Users, NEW c, c.kind = "create", c.n = inputs, c \in calls'[u],
         \A w \in Users : \A d \in calls'[w] : d.kind = "create" => w = u /\ d = c
  PROVE  Counted(p)'
  <1>1. \A v : Owned(v, Made)' = Owned(v, Made) /\ Left(v)' = Owned(v, Made)
    BY DEF Owned, Left
  <1>2. Asked' = UNION {calls'[w] : w \in Users}
    BY DEF Asked
  <1>3. c \in Asked' /\ \A d \in Asked' : d.kind = "create" => d = c
    BY <1>2
  <1>4. \A v \in Users : /\ IsFiniteSet(Owned(v, Made)')
                         /\ Cardinality(Left(v)') <= Due(p, v)
    BY <1>1
  <1>5. OnceAsked'
    <2>1. \A a \in Users, w \in Users : \A e \in calls'[a], d \in calls'[w] :
             e.kind = "create" /\ d.kind = "create" => a = w /\ e = d
      OBVIOUS
    <2> QED BY <2>1 DEF OnceAsked
  <1>6. Fresh(c)'
    <2>1. c.n \in Nat /\ c.n < inputs'
      OBVIOUS
    <2>2. \A id \in Made' \cup Erased' : id.call # c.n
      OBVIOUS
    <2> QED BY <2>1, <2>2 DEF Fresh
  <1>7. \A id \in Made' \cup Erased' : id.call \in Nat /\ id.call < inputs'
    OBVIOUS
  <1>8. \A b \in OnWay' : SetBy(b) \cap (DOMAIN store'.recents \cup Erased') = {}
    BY DEF Sets
  <1> QED BY <1>3, <1>4, <1>5, <1>6, <1>7, <1>8 DEF Counted

--------------------------------------------------------------------------------
(* Steps that keep the counts as they are.                                     *)

(* Screens only, and nothing is asked or lost. *)
LEMMA ScreensCount ==
  ASSUME Types, Types', NEW p, At(p), UNCHANGED <<store, writes, calls, meant, muted, gone, lost>>,
         crossed' = crossed, inputs <= inputs',
         \A u \in Users : screens'[u] \in Seq(ChatsOf(p))
  PROVE  At(p)'
  <1>1. OnWay' = OnWay
    BY DEF OnWay
  <1>2. Lists(p)'
    BY <1>1, ListsKept DEF At, Lists
  <1>3. Unshown'
    BY <1>1, UnshownKept DEF At
  <1>4. ASSUME Regular' PROVE Counted(p)'
    <2>1. Counted(p)
      BY <1>4 DEF At, Regular
    <2>2. Made' = Made /\ Erased' = Erased /\ OnceSet'
      BY <1>1, <2>1, MadeSame, OnceSetSame DEF Counted
    <2>3. inputs \in Nat /\ inputs' \in Nat
      BY DEF Types
    <2> QED BY <1>1, <2>1, <2>2, <2>3, CountedQuiet
  <1> QED BY <1>2, <1>3, <1>4 DEF At

LEMMA BackCounts ==
  ASSUME Types, Types', NEW p, At(p), NEW u \in Users, Back(u), crossed' = crossed
  PROVE  At(p)'
  <1>1. /\ screens[u] # <<>> /\ screens' = [screens EXCEPT ![u] = Front(@)]
        /\ UNCHANGED <<store, writes, calls, inputs, meant, muted, gone, lost>>
    BY DEF Back
  <1>2. PICK S, T : S = ChatsOf(p) /\ T = Seq(S)
    OBVIOUS
  <1>3. DOMAIN screens = Users /\ \A w \in Users : screens[w] \in T
    BY <1>2 DEF Types, At, Lists
  <1>4. Front(screens[u]) \in T
    <2>1. PICK s : s = screens[u]
      OBVIOUS
    <2> QED BY <1>1, <1>2, <1>3, <2>1, TopOf
  <1>5. \A w \in Users : screens'[w] \in Seq(ChatsOf(p))
    BY <1>1, <1>2, <1>3, <1>4
  <1>6. inputs <= inputs'
    BY <1>1 DEF Types
  <1> QED BY <1>1, <1>5, <1>6, ScreensCount

LEMMA LoadCounts ==
  ASSUME Types, Types', NEW p, At(p), NEW u \in Users, crossed' = crossed,
         GroupLoaded(u) \/ GroupNotLoaded(u)
  PROVE  At(p)'
  <1>1. PICK group : Load(u, group) /\ group \in {Nil, Seen(u).group} /\ inputs <= inputs'
    BY DEF GroupLoaded, GroupNotLoaded, Input, Types
  <1>2. /\ screens[u] # <<>> /\ Top(u).loading
        /\ screens' = OnTop(u, [Top(u) EXCEPT !.group = group, !.loading = FALSE])
        /\ UNCHANGED <<store, writes, calls, meant, muted, gone, lost>>
    BY <1>1 DEF Load
  <1>3. PICK S, T : S = ChatsOf(p) /\ T = Seq(S)
    OBVIOUS
  <1>4. DOMAIN screens = Users /\ \A w \in Users : screens[w] \in T
    BY <1>3 DEF Types, At, Lists
  <1>5. PICK s, chat : s = screens[u] /\ chat = Top(u)
    OBVIOUS
  <1>6. chat \in S /\ \A x \in S : Append(Front(s), x) \in T
    BY <1>2, <1>3, <1>4, <1>5, TopOf DEF Top
  <1>7. group # Nil => IsGroup(group) /\ Pressed(group.members, p)
    <2>1. IsStore(Seen(u))
      BY SeenIs DEF Types, QueuesTyped
    <2>2. Seen(u).group # Nil => Pressed(Seen(u).group.members, p)
      BY SeenMore DEF At
    <2> QED BY <1>1, <2>1, <2>2 DEF IsStore
  <1>8. [chat EXCEPT !.group = group, !.loading = FALSE] \in S
    <2>1. chat \in Chats /\ chat.loading
      BY <1>2, <1>3, <1>5, <1>6 DEF ChatsOf
    <2>2. chat.group = Nil /\ chat.invited = {}
      BY <2>1 DEF Chats
    <2>3. PICK next : next = [chat EXCEPT !.group = group, !.loading = FALSE]
      OBVIOUS
    <2>4. next \in Chats /\ next.group = group
      BY <1>7, <2>1, <2>2, <2>3 DEF Chats, IsGroup
    <2> QED BY <1>3, <1>7, <2>3, <2>4 DEF ChatsOf
  <1>9. \A w \in Users : screens'[w] \in Seq(ChatsOf(p))
    BY <1>2, <1>3, <1>4, <1>5, <1>6, <1>8 DEF OnTop
  <1> QED BY <1>1, <1>2, <1>9, ScreensCount

LEMMA SendCounts ==
  ASSUME Types, Types', NEW p, At(p), NEW u \in Users, Send(u), crossed' = crossed
  PROVE  At(p)'
  <1>1. /\ store' = [store EXCEPT !.recents = Shown(@)] /\ inputs <= inputs'
        /\ UNCHANGED <<writes, calls, screens, meant, muted, gone, lost>>
    BY DEF Send, Input, Types
  <1>2. store'.group = store.group /\ DOMAIN store'.recents = DOMAIN store.recents
    <2>1. store = [group |-> store.group, recents |-> store.recents]
      BY DEF Types, IsStore
    <2>2. store' = [group |-> store.group, recents |-> Shown(store.recents)]
      BY <1>1, <2>1
    <2> QED BY <2>2 DEF Shown
  <1>3. OnWay' = OnWay
    BY <1>1 DEF OnWay
  <1>4. Lists(p)'
    BY <1>1, <1>2, <1>3, ListsKept DEF At, Lists
  <1>5. Unshown'
    BY <1>3, UnshownKept DEF At
  <1>6. ASSUME Regular' PROVE Counted(p)'
    <2>1. Counted(p)
      BY <1>1, <1>6 DEF At, Regular
    <2>2. Made' = Made /\ Erased' = Erased /\ OnceSet'
      BY <1>1, <1>2, <1>3, <2>1, MadeSame, OnceSetSame DEF Counted
    <2>3. inputs \in Nat /\ inputs' \in Nat
      BY DEF Types
    <2> QED BY <1>1, <1>2, <1>3, <2>1, <2>2, <2>3, CountedQuiet
  <1> QED BY <1>4, <1>5, <1>6 DEF At

LEMMA CrashCounts ==
  ASSUME Types, Types', NEW p, At(p), NEW u \in Users, Crash(u), inputs <= inputs',
         crossed' = crossed
  PROVE  At(p)'
  <1>1. /\ screens' = [screens EXCEPT ![u] = <<>>]
        /\ calls' = [calls EXCEPT ![u] = {}]
        /\ lost' = (lost \/ calls[u] # {})
        /\ UNCHANGED <<store, writes, meant, muted, gone>>
    BY DEF Crash
  <1>2. OnWay' = OnWay
    BY <1>1 DEF OnWay
  <1>3. \A w \in Users : screens'[w] \in Seq(ChatsOf(p))
    <2>1. PICK S, T : S = ChatsOf(p) /\ T = Seq(S)
      OBVIOUS
    <2>2. DOMAIN screens = Users /\ \A w \in Users : screens[w] \in T
      BY <2>1 DEF Types, At, Lists
    <2>3. <<>> \in T
      BY <2>1
    <2> QED BY <1>1, <2>1, <2>2, <2>3
  <1>4. Lists(p)'
    BY <1>1, <1>2, <1>3, ListsKept DEF At, Lists
  <1>5. Unshown'
    BY <1>2, UnshownKept DEF At
  <1>6. ASSUME Regular' PROVE Counted(p)'
    <2>1. ~lost' /\ calls[u] = {} /\ ~lost
      BY <1>1, <1>6 DEF Regular
    <2>2. Counted(p)
      BY <1>1, <1>6, <2>1 DEF At, Regular
    <2>3. \A w \in Users : calls'[w] = calls[w]
      BY <1>1, <2>1 DEF Types, CallsTyped
    <2>4. Made' = Made /\ Erased' = Erased /\ OnceSet'
      BY <1>1, <1>2, <2>2, MadeSame, OnceSetSame DEF Counted
    <2>5. inputs \in Nat /\ inputs' \in Nat
      BY DEF Types
    <2> QED BY <1>1, <1>2, <2>2, <2>3, <2>4, <2>5, CountedQuiet
  <1> QED BY <1>4, <1>5, <1>6 DEF At

(* A call fails, or somebody mutes: nothing is counted any longer. *)
LEMMA IrregularCounts ==
  ASSUME NEW p, At(p), UNCHANGED <<store, writes, screens>>, lost' \/ muted'
  PROVE  At(p)'
  <1>1. OnWay' = OnWay
    BY DEF OnWay
  <1>2. Lists(p)'
    BY <1>1, ListsKept DEF At, Lists
  <1>3. Unshown'
    BY <1>1, UnshownKept DEF At
  <1> QED BY <1>2, <1>3 DEF At, Regular

LEMMA UpdateRecentsCounts ==
  ASSUME Types, Types', NEW p, At(p), NEW u \in Users, NEW c \in calls[u], UpdateRecents(u, c),
         crossed' = crossed
  PROVE  At(p)'
  <1> DEFINE ids == DOMAIN Seen(u).recents
  <1>1. /\ c.kind = "values" /\ Answered(u, c) /\ QueueSome(u, ids, UpdateAll(ids, c.values))
        /\ UNCHANGED <<store, screens, inputs, meant, muted, gone, lost>>
    BY DEF UpdateRecents, Answered
  <1> HIDE DEF ids
  <1>2. PICK b : b = UpdateAll(ids, c.values)
    OBVIOUS
  <1>3. /\ b.on = "recents" /\ DOMAIN b.writes = ids
        /\ \A id \in ids : b.writes[id].op = "update" /\ b.writes[id].fields = c.values
    BY <1>2 DEF UpdateAll, RecentBatch, Write
  <1>4. IsBatch(b) /\ SetBy(b) = {} /\ DeletedBy(b) = {} /\ ~Sets(b)
    <2>1. IsCall(c)
      BY DEF Types, CallsTyped
    <2>2. DOMAIN c.values \subseteq GroupFields
      BY <1>1, <2>1 DEF IsCall
    <2> QED BY <1>3, <2>2 DEF IsBatch, IsRecentWrite, SetBy, DeletedBy, Sets
  <1>5. /\ ids = {} => OnWay' = OnWay
        /\ ids # {} => OnWay' = OnWay \cup {b}
    BY <1>1, <1>2, <1>4, QueueSomeStep DEF Types
  <1>6. Lists(p)'
    BY <1>1, <1>3, <1>5, ListsKept DEF At, Lists
  <1>7. Unshown'
    BY <1>4, <1>5, UnshownKept DEF At
  <1>8. ASSUME Regular' PROVE Counted(p)'
    <2>1. Counted(p)
      BY <1>1, <1>8 DEF At, Regular
    <2>2. OnceSet'
      <3>1. CASE ids = {}
        BY <1>1, <2>1, <3>1, OnceSetSame DEF Counted, QueueSome
      <3>2. CASE ids # {}
        <4>1. Queue(u, b)
          BY <1>1, <1>2, <3>2 DEF QueueSome
        <4> QED BY <1>4, <2>1, <4>1, OnceQueued DEF Types, Counted
      <3> QED BY <3>1, <3>2
    <2>3. Made' = Made /\ Erased' = Erased
      BY <1>1, <1>4, <1>5, MadeSame, MadeQueued
    <2>4. \A w \in Users : \A d : d.kind = "create" => (d \in calls'[w] <=> d \in calls[w])
      BY <1>1 DEF Answered, Types, CallsTyped
    <2>5. inputs \in Nat /\ inputs' \in Nat /\ inputs <= inputs'
      BY <1>1 DEF Types
    <2>6. \A a \in OnWay' : a \in OnWay \/ ~Sets(a)
      BY <1>4, <1>5
    <2> QED BY <1>1, <2>1, <2>2, <2>3, <2>4, <2>5, <2>6, CountedQuiet
  <1> QED BY <1>6, <1>7, <1>8 DEF At

--------------------------------------------------------------------------------
(* Deleting, and what reaches the server.                                      *)

LEMMA DeleteRowCounts ==
  ASSUME Types, Types', NEW p \in Nat \ {0}, At(p), NEW u \in Users, NEW id \in Rows(u),
         DeleteRow(u, id), crossed' = crossed
  PROVE  At(p)'
  <1>1. /\ Queue(u, DeleteRecent(id)) /\ gone' = gone \cup {u} /\ inputs' = inputs + 1
        /\ UNCHANGED <<store, calls, screens, meant, muted, lost>>
    BY DEF DeleteRow, Input
  <1>2. PICK b : b = DeleteRecent(id)
    OBVIOUS
  <1>3. /\ b.on = "recents" /\ DOMAIN b.writes = {id} /\ b.writes[id].op = "delete"
        /\ DOMAIN b.writes[id].fields = {}
    BY <1>2 DEF DeleteRecent, RecentBatch, Write
  <1>4. IsBatch(b) /\ SetBy(b) = {} /\ DeletedBy(b) = {id} /\ ~Sets(b)
    BY <1>3 DEF IsBatch, IsRecentWrite, SetBy, DeletedBy, Sets
  <1>5. OnWay' = OnWay \cup {b}
    BY <1>1, <1>2, <1>4, QueueStep DEF Types
  <1>6. Lists(p)'
    BY <1>1, <1>3, <1>5, ListsKept DEF At, Lists
  <1>7. Unshown'
    BY <1>4, <1>5, UnshownKept DEF At
  <1>8. id \in DOMAIN store.recents /\ id.owner = u
    BY SeenMore DEF At, Rows
  <1>9. ASSUME Regular' PROVE Counted(p)'
    <2>1. Counted(p)
      BY <1>1, <1>9 DEF At, Regular
    <2>2. Made' = Made /\ Erased' = Erased \cup {id} /\ id \in Made
      <3>1. Made' = Made \cup {} /\ Erased' = Erased \cup {id}
        BY <1>1, <1>4, <1>5, MadeQueued
      <3> QED BY <1>8, <3>1 DEF Made
    <2>3. \A v : /\ Owned(v, Made)' = Owned(v, Made)
                 /\ Left(v)' = Left(v) \ {id}
      BY <2>2 DEF Owned, Left
    <2>4. ASSUME NEW v \in Users
          PROVE  /\ IsFiniteSet(Owned(v, Made)')
                 /\ Cardinality(Left(v)') <= Due(p, v)
      <3>1. IsFiniteSet(Owned(v, Made)) /\ Cardinality(Left(v)) <= Due(p, v)
        BY <2>1 DEF Counted
      <3>2. Left(v) \subseteq Owned(v, Made)
        BY DEF Left, Owned
      <3>3. IsFiniteSet(Left(v)) /\ Left(v)' \subseteq Left(v)
        BY <2>3, <3>1, <3>2, FS_Subset
      <3>4. Cardinality(Left(v)') <= Cardinality(Left(v))
        BY <3>3, FS_Subset
      <3>5. Cardinality(Left(v)') \in Nat /\ Cardinality(Left(v)) \in Nat
        BY <3>3, FS_Subset, FS_CardinalityType
      <3>6. PICK m, n, k : m = Cardinality(Left(v)') /\ n = Cardinality(Left(v)) /\ k = Due(p, v)
        OBVIOUS
      <3>7. m \in Nat /\ n \in Nat /\ k \in Nat /\ n <= k /\ m <= n
        BY <3>1, <3>4, <3>5, <3>6 DEF Due
      <3>8. m <= k
        BY <3>7
      <3>9. IsFiniteSet(Owned(v, Made)')
        BY <2>3, <3>1
      <3> QED BY <3>6, <3>8, <3>9
    <2>5. ASSUME NEW v \in meant'.members \ gone'
          PROVE  \/ Cardinality(Left(v)') = Due(p, v)
                 \/ \E c \in Asked' : c.kind = "create"
      <3>1. v \in meant.members \ gone /\ v # u
        BY <1>1, <2>5
      <3>2. Left(v)' = Left(v)
        BY <1>8, <2>3, <3>1 DEF Left, Owned
      <3>3. Asked' = Asked
        BY <1>1 DEF Asked
      <3> QED BY <2>1, <3>1, <3>2, <3>3 DEF Counted
    <2>6. OnceSet'
      BY <1>1, <1>2, <1>4, <2>1, OnceQueued DEF Types, Counted
    <2>7. OnceAsked'
      BY <1>1, <2>1 DEF Counted, OnceAsked
    <2>8. ASSUME NEW c \in Asked', c.kind = "create" PROVE Fresh(c)'
      <3>1. c \in Asked
        BY <1>1 DEF Asked
      <3>2. Fresh(c)
        BY <2>1, <2>8, <3>1 DEF Counted
      <3>3. \A a \in OnWay' : ~Sets(a)
        BY <1>4, <1>5, <3>2 DEF Fresh
      <3>4. \A i \in Made' \cup Erased' : i.call # c.n
        BY <2>2, <3>2 DEF Fresh
      <3>5. c.n \in Nat /\ c.n < inputs'
        BY <1>1, <3>2 DEF Fresh, Types
      <3> QED BY <3>3, <3>4, <3>5 DEF Fresh
    <2>9. \A i \in Made' \cup Erased' : i.call \in Nat /\ i.call < inputs'
      <3>1. \A i \in Made \cup Erased : i.call \in Nat /\ i.call < inputs
        BY <2>1 DEF Counted
      <3> QED BY <1>1, <2>2, <3>1 DEF Types
    <2>10. \A a \in OnWay' : SetBy(a) \cap (DOMAIN store'.recents \cup Erased') = {}
      <3>1. \A a \in OnWay : SetBy(a) \cap (DOMAIN store.recents \cup Erased) = {}
        BY <2>1 DEF Counted
      <3> QED BY <1>1, <1>4, <1>5, <1>8, <2>2, <3>1
    <2> QED BY <2>4, <2>5, <2>6, <2>7, <2>8, <2>9, <2>10 DEF Counted
  <1> QED BY <1>6, <1>7, <1>9 DEF At

LEMMA ServeCounts ==
  ASSUME Types, Types', NEW p, At(p), NEW u \in Users, Serve(u), crossed' = crossed
  PROVE  At(p)'
  <1>1. UNCHANGED <<calls, screens, inputs, meant, muted, gone, lost>>
    BY DEF Serve, aux
  <1>2. PICK b : /\ IsBatch(b) /\ store' = Applied(store, b)
                 /\ OnWay = OnWay' \cup {b}
                 /\ OnceSet => OnceSet'
                 /\ OnceSet /\ Sets(b) => \A a \in OnWay' : ~Sets(a)
    BY ServeOnce DEF Types
  <1>3. b \in OnWay /\ \A a \in OnWay' : a \in OnWay
    BY <1>2
  <1>4. IsStore(store)
    BY DEF Types
  <1>5. Lists(p)'
    <2>1. store'.group # Nil => Pressed(store'.group.members, p)
      <3>1. PICK s, t : s = store /\ t = store'
        OBVIOUS
      <3>2. s.group # Nil => Pressed(s.group.members, p)
        BY <3>1 DEF At, Lists
      <3>3. b.on = "group" /\ "members" \in DOMAIN b.write.fields =>
               Pressed(b.write.fields["members"], p)
        BY <1>3 DEF At, Lists
      <3> QED BY <1>2, <1>4, <3>1, <3>2, <3>3, AppliedPressed
    <2> QED BY <1>1, <1>3, <2>1, ListsKept DEF At, Lists
  <1>6. Unshown'
    BY <1>3, UnshownKept DEF At
  <1>7. ASSUME Regular' PROVE Counted(p)'
    <2>1. Counted(p)
      BY <1>1, <1>7 DEF At, Regular
    <2> DEFINE made == SetBy(b)
               del == DeletedBy(b)
    <2>2. DOMAIN store'.recents = (DOMAIN store.recents \ del) \cup made
      <3>1. PICK t : t = store'
        OBVIOUS
      <3>2. \A id : id \in DOMAIN t.recents <=>
               SetsRecent(b, id) \/ (id \in DOMAIN store.recents /\ ~Deletes(b, id))
        BY <1>2, <1>4, <3>1, AppliedIs
      <3>3. \A id : /\ id \in made <=> SetsRecent(b, id)
                    /\ id \in del <=> Deletes(b, id)
        BY ByIs
      <3> HIDE DEF made, del
      <3>4. \A id : id \in DOMAIN t.recents <=> id \in (DOMAIN store.recents \ del) \cup made
        BY <3>2, <3>3
      <3> QED BY <3>1, <3>4
    <2>3. /\ Made = DOMAIN store.recents \cup (UNION {SetBy(a) : a \in OnWay'}) \cup made
          /\ Erased = (UNION {DeletedBy(a) : a \in OnWay'}) \cup del
      BY <1>2 DEF Made, Erased
    <2>4. /\ Made' = DOMAIN store'.recents \cup UNION {SetBy(a) : a \in OnWay'}
          /\ Erased' = UNION {DeletedBy(a) : a \in OnWay'}
      BY DEF Made, Erased
    <2>5. \A a \in OnWay : SetBy(a) \cap (DOMAIN store.recents \cup Erased) = {}
      BY <2>1 DEF Counted
    <2>6. made \cap (DOMAIN store.recents \cup Erased) = {}
      BY <1>3, <2>5
    <2> DEFINE later == UNION {SetBy(a) : a \in OnWay'}
    <2>7. later \cap (DOMAIN store.recents \cup Erased) = {}
      BY <1>3, <2>5
    <2> HIDE DEF made, del, later
    <2>8. Made' = (DOMAIN store.recents \ del) \cup made \cup later
      BY <2>2, <2>4 DEF later
    <2>9. Made = DOMAIN store.recents \cup later \cup made
      BY <2>3 DEF later
    <2>10. Made' \subseteq Made /\ Erased' \subseteq Erased /\ Erased = Erased' \cup del
      BY <2>3, <2>4, <2>8, <2>9
    <2>11. Made' \ Erased' = Made \ Erased
      BY <2>6, <2>7, <2>8, <2>9, <2>10
    <2>12. \A v : Left(v)' = Left(v)
      BY <2>11 DEF Left, Owned
    <2>13. ASSUME NEW v \in Users
           PROVE  /\ IsFiniteSet(Owned(v, Made)')
                  /\ Cardinality(Left(v)') <= Due(p, v)
      <3>1. IsFiniteSet(Owned(v, Made)) /\ Cardinality(Left(v)) <= Due(p, v)
        BY <2>1 DEF Counted
      <3>2. Owned(v, Made)' \subseteq Owned(v, Made)
        BY <2>10 DEF Owned
      <3> QED BY <2>12, <3>1, <3>2, FS_Subset
    <2>14. Asked' = Asked
      BY <1>1 DEF Asked
    <2>15. \A v \in meant'.members \ gone' :
             \/ Cardinality(Left(v)') = Due(p, v)
             \/ \E c \in Asked' : c.kind = "create"
      BY <1>1, <2>1, <2>12, <2>14 DEF Counted
    <2>16. OnceSet' /\ OnceAsked'
      BY <1>1, <1>2, <2>1 DEF Counted, OnceAsked
    <2>17. ASSUME NEW c \in Asked', c.kind = "create" PROVE Fresh(c)'
      <3>1. Fresh(c)
        BY <2>1, <2>14, <2>17 DEF Counted
      <3>2. \A a \in OnWay' : ~Sets(a)
        BY <1>3, <3>1 DEF Fresh
      <3>3. \A i \in Made' \cup Erased' : i.call # c.n
        BY <2>10, <3>1 DEF Fresh
      <3>4. c.n \in Nat /\ c.n < inputs'
        BY <1>1, <3>1 DEF Fresh
      <3> QED BY <3>2, <3>3, <3>4 DEF Fresh
    <2>18. \A i \in Made' \cup Erased' : i.call \in Nat /\ i.call < inputs'
      <3>1. \A i \in Made \cup Erased : i.call \in Nat /\ i.call < inputs
        BY <2>1 DEF Counted
      <3> QED BY <1>1, <2>10, <3>1
    <2>19. ASSUME NEW a \in OnWay'
           PROVE  SetBy(a) \cap (DOMAIN store'.recents \cup Erased') = {}
      <3>1. CASE Sets(a)
        <4>1. made = {}
          BY <1>2, <2>1, <2>19, <3>1 DEF Counted, Sets, made
        <4>2. SetBy(a) \cap (DOMAIN store.recents \cup Erased) = {}
          BY <1>3, <2>5, <2>19
        <4> QED BY <2>2, <2>10, <4>1, <4>2 DEF made
      <3>2. CASE ~Sets(a)
        BY <3>2 DEF Sets
      <3> QED BY <3>1, <3>2
    <2> QED BY <2>13, <2>15, <2>16, <2>17, <2>18, <2>19 DEF Counted
  <1> QED BY <1>5, <1>6, <1>7 DEF At

--------------------------------------------------------------------------------
(* Edits.                                                                      *)

LEMMA NewChatOf ==
  ASSUME NEW p
  PROVE  NewChat \in ChatsOf(p)
  BY NewChatIs DEF NewChat, ChatsOf

LEMMA SaveCounts ==
  ASSUME Types, Types', meant # Nil, NEW p, At(p), NEW u \in Users, screens[u] # <<>>,
         Top(u).group # Nil, Save(u),
         crossed' = (crossed \/ ~Settled \/ ~UpToDate(Top(u), Top(u).invited))
  PROVE  At(p)'
  <1>1. PICK name \in {Top(u).group.name, inputs} :
           /\ Queue(u, UpdateGroup([name |-> name]))
           /\ Ask(u, {ValuesCall([name |-> name])})
           /\ meant' = [meant EXCEPT !.name = name]
    BY DEF Save
  <1>2. /\ screens' = [screens EXCEPT ![u] = <<>>] /\ inputs' = inputs + 1
        /\ UNCHANGED <<store, muted, gone, lost>>
    BY DEF Save, Input
  <1>3. name \in Nat
    <2>1. Top(u) \in Chats
      BY TopIs DEF Types
    <2>2. Top(u).group.name \in Nat
      BY <2>1 DEF Chats, IsGroup, GroupDocs
    <2> QED BY <1>1, <2>2 DEF Types
  <1>4. PICK b, d : b = UpdateGroup([name |-> name]) /\ d = ValuesCall([name |-> name])
    OBVIOUS
  <1>5. /\ b.on = "group" /\ DOMAIN b.write.fields = {"name"} /\ IsBatch(b)
        /\ SetBy(b) = {} /\ DeletedBy(b) = {} /\ ~Sets(b)
        /\ d.kind = "values"
    BY <1>3, <1>4 DEF UpdateGroup, GroupBatch, Write, IsBatch, IsGroupWrite, SetBy, DeletedBy,
       Sets, ValuesCall
  <1>6. OnWay' = OnWay \cup {b}
    BY <1>1, <1>4, <1>5, QueueStep DEF Types
  <1>7. \A w \in Users : screens'[w] \in Seq(ChatsOf(p))
    <2>1. PICK S, T : S = ChatsOf(p) /\ T = Seq(S)
      OBVIOUS
    <2>2. DOMAIN screens = Users /\ \A w \in Users : screens[w] \in T
      BY <2>1 DEF Types, At, Lists
    <2>3. <<>> \in T
      BY <2>1
    <2> QED BY <1>2, <2>1, <2>2, <2>3
  <1>8. Lists(p)'
    <2>1. store'.group # Nil => Pressed(store'.group.members, p)
      BY <1>2 DEF At, Lists
    <2>2. \A a \in OnWay' : a \in OnWay \/ "members" \notin DOMAIN a.write.fields
      BY <1>5, <1>6
    <2> QED BY <1>7, <2>1, <2>2, ListsKept DEF At
  <1>9. Unshown'
    BY <1>5, <1>6, UnshownKept DEF At
  <1>10. ASSUME Regular' PROVE Counted(p)'
    <2>1. Counted(p)
      BY <1>2, <1>10 DEF At, Regular
    <2>2. OnceSet'
      BY <1>1, <1>4, <1>5, <2>1, OnceQueued DEF Types, Counted
    <2>3. Made' = Made /\ Erased' = Erased
      BY <1>2, <1>5, <1>6, MadeQueued
    <2>4. \A w \in Users : \A c : c.kind = "create" => (c \in calls'[w] <=> c \in calls[w])
      BY <1>1, <1>4, <1>5 DEF Ask, Types, CallsTyped
    <2>5. inputs \in Nat /\ inputs' \in Nat /\ inputs <= inputs'
      BY <1>2 DEF Types
    <2>6. \A a \in OnWay' : a \in OnWay \/ ~Sets(a)
      BY <1>5, <1>6
    <2>7. meant'.members = meant.members
      BY <1>1 DEF Types
    <2> QED BY <1>2, <2>1, <2>2, <2>3, <2>4, <2>5, <2>6, <2>7, CountedQuiet
  <1> QED BY <1>8, <1>9, <1>10 DEF At

(* What Counted says when everything had settled. *)
LEMMA SettledCounts ==
  ASSUME NEW p, Counted(p), OnWay = {}
  PROVE  /\ Made = DOMAIN store.recents /\ Erased = {} /\ OnceSet
         /\ \A v \in Users : /\ IsFiniteSet(Owned(v, Made))
                             /\ Cardinality(Owned(v, Made)) <= Due(p, v)
         /\ \A id \in Made : id.call \in Nat /\ id.call < inputs
  <1>1. Made = DOMAIN store.recents /\ Erased = {}
    BY DEF Made, Erased
  <1>2. \A v : Left(v) = Owned(v, Made)
    BY <1>1 DEF Left, Owned
  <1> QED BY <1>1, <1>2 DEF Counted

LEMMA OpenRowCounts ==
  ASSUME Types, Types', meant # Nil, NEW p, At(p), NEW u \in Users, NEW id, OpenRow(u, id),
         crossed' = (crossed \/ ~Settled)
  PROVE  At(p)'
  <1>1. PICK c : /\ c = CreateCall(Seen(u).recents[id].push, Seen(u).recents[id].name)
                 /\ Ask(u, {c})
    BY DEF OpenRow
  <1>2. /\ inputs' = inputs + 1 /\ screens' = [screens EXCEPT ![u] = <<NewChat>>]
        /\ UNCHANGED <<store, writes, meant, muted, gone, lost>>
    BY DEF OpenRow, Input
  <1>3. c.kind = "create" /\ c.n = inputs
    BY <1>1 DEF CreateCall
  <1>4. OnWay' = OnWay
    BY <1>2 DEF OnWay
  <1>5. \A w \in Users : screens'[w] \in Seq(ChatsOf(p))
    <2>1. PICK S, T : S = ChatsOf(p) /\ T = Seq(S)
      OBVIOUS
    <2>2. DOMAIN screens = Users /\ \A w \in Users : screens[w] \in T
      BY <2>1 DEF Types, At, Lists
    <2>3. <<NewChat>> \in T
      BY <2>1, NewChatOf
    <2> QED BY <1>2, <2>1, <2>2, <2>3
  <1>6. Lists(p)'
    BY <1>2, <1>4, <1>5, ListsKept DEF At, Lists
  <1>7. Unshown'
    BY <1>4, UnshownKept DEF At
  <1>8. ASSUME Regular' PROVE Counted(p)'
    <2>1. Settled /\ Counted(p)
      BY <1>2, <1>8 DEF At, Regular
    <2>2. OnWay = {} /\ \A w \in Users : calls[w] = {}
      BY <2>1, SettledIs DEF Settled
    <2>3. Made' = Made /\ Erased' = Erased /\ Erased = {}
      BY <1>2, <1>4, <2>1, <2>2, MadeSame, SettledCounts
    <2>4. OnceSet' /\ \A a \in OnWay' : ~Sets(a)
      BY <1>2, <1>4, <2>1, <2>2, OnceSetSame, SettledCounts
    <2>5. c \in calls'[u] /\ \A w \in Users : \A d \in calls'[w] : w = u /\ d = c
      BY <1>1, <2>2 DEF Ask, Types, CallsTyped
    <2>6. inputs \in Nat
      BY DEF Types
    <2>7. /\ \A v \in Users : /\ IsFiniteSet(Owned(v, Made))
                              /\ Cardinality(Owned(v, Made)) <= Due(p, v)
          /\ \A i \in Made : i.call \in Nat /\ i.call < inputs
      BY <2>1, <2>2, SettledCounts
    <2> QED BY <1>2, <1>3, <2>3, <2>4, <2>5, <2>6, <2>7, CountedAsked
  <1> QED BY <1>6, <1>7, <1>8 DEF At

LEMMA DoneCounts ==
  ASSUME Types, Types', meant # Nil, NEW p, At(p), NEW u \in Users, screens[u] # <<>>,
         Top(u).group # Nil, NEW selected \in Selections(u, Top(u).group), NEW before,
         Done(u, selected, before),
         crossed' = (crossed \/ ~Settled \/ ~UpToDate(Top(u), before))
  PROVE  At(p)'
  <1>1. PICK S, T : S = ChatsOf(p) /\ T = Seq(S)
    OBVIOUS
  <1>2. DOMAIN screens = Users /\ \A w \in Users : screens[w] \in T
    BY <1>1 DEF Types, At, Lists
  <1>3. PICK s, chat, group : s = screens[u] /\ chat = Top(u) /\ group = chat.group
    OBVIOUS
  <1>4. chat \in S /\ \A x \in S, y \in S : Front(s) \o <<x, y>> \in T
    BY <1>1, <1>2, <1>3, TopOf DEF Top
  <1>5. chat \in Chats /\ IsGroup(group) /\ Pressed(group.members, p)
    BY <1>1, <1>3, <1>4 DEF ChatsOf, Chats
  <1>6. /\ group.name \in Nat /\ group.members \in Seq(Users) /\ group.push = group.members
    BY <1>5 DEF IsGroup, GroupDocs
  <1>7. /\ selected \in Seq(Users) /\ ToSet(selected) \subseteq Users \ ToSet(group.members)
        /\ IsInjective(selected)
    BY <1>3, SelectionsAre, SelectionsOnce
  <1>8. PICK all : all = group.members \o selected
    OBVIOUS
  <1>9. Pressed(all, p)
    <2>1. PICK r : r = group.members
      OBVIOUS
    <2> QED BY <1>5, <1>6, <1>7, <1>8, <2>1, PressedConcat
  <1>10. PICK values : values = [members |-> all, push |-> all]
    OBVIOUS
  <1>11. PICK b, c, d : b = UpdateGroup(values) /\ c = CreateCall(all, group.name)
                        /\ d = ValuesCall(values)
    OBVIOUS
  <1>12. Invitation(group, selected) = values
    BY <1>6, <1>8, <1>10 DEF Invitation
  <1>13. /\ Queue(u, b) /\ Ask(u, {c, d}) /\ inputs' = inputs + 1
         /\ screens' = [screens EXCEPT ![u] =
               Front(@) \o <<[chat EXCEPT !.invited = ToSet(selected)], NewChat>>]
         /\ UNCHANGED <<store, muted, gone, lost>>
    BY <1>3, <1>6, <1>8, <1>11, <1>12 DEF Done, Input
  <1>14. /\ b.on = "group" /\ IsBatch(b) /\ b.write.fields["members"] = all
         /\ SetBy(b) = {} /\ DeletedBy(b) = {} /\ ~Sets(b)
    <2>1. all \in Seq(Users)
      BY <1>6, <1>7, <1>8
    <2> QED BY <1>10, <1>11, <2>1 DEF UpdateGroup, GroupBatch, Write, IsBatch, IsGroupWrite,
                                     SetBy, DeletedBy, Sets
  <1>15. c.kind = "create" /\ c.n = inputs /\ d.kind = "values"
    BY <1>11 DEF CreateCall, ValuesCall
  <1>16. OnWay' = OnWay \cup {b}
    BY <1>13, <1>14, QueueStep DEF Types
  <1>17. \A w \in Users : screens'[w] \in Seq(ChatsOf(p))
    <2>1. [chat EXCEPT !.invited = ToSet(selected)] \in S
      <3>1. PICK next : next = [chat EXCEPT !.invited = ToSet(selected)]
        OBVIOUS
      <3>2. next \in Chats /\ next.group = group
        BY <1>3, <1>5, <1>7, <3>1 DEF Chats
      <3> QED BY <1>1, <1>5, <3>1, <3>2 DEF ChatsOf
    <2>2. NewChat \in S
      BY <1>1, NewChatOf
    <2> QED BY <1>1, <1>2, <1>3, <1>4, <1>13, <2>1, <2>2
  <1>18. Lists(p)'
    <2>1. store'.group # Nil => Pressed(store'.group.members, p)
      BY <1>13 DEF At, Lists
    <2>2. \A a \in OnWay' : a \in OnWay \/ Pressed(a.write.fields["members"], p)
      BY <1>9, <1>14, <1>16
    <2> QED BY <1>17, <2>1, <2>2, ListsKept DEF At
  <1>19. Unshown'
    BY <1>14, <1>16, UnshownKept DEF At
  <1>20. ASSUME Regular' PROVE Counted(p)'
    <2>1. Settled /\ Counted(p)
      BY <1>13, <1>20 DEF At, Regular
    <2>2. OnWay = {} /\ \A w \in Users : calls[w] = {}
      BY <2>1, SettledIs DEF Settled
    <2>3. Made' = Made /\ Erased' = Erased /\ Erased = {}
      BY <1>13, <1>14, <1>16, <2>1, <2>2, MadeQueued, SettledCounts
    <2>4. OnceSet' /\ \A a \in OnWay' : ~Sets(a)
      BY <1>13, <1>14, <1>16, <2>1, <2>2, OnceQueued DEF Types, Counted
    <2>5. c \in calls'[u] /\ \A w \in Users : \A e \in calls'[w] : e.kind = "create" => w = u /\ e = c
      BY <1>13, <1>15, <2>2 DEF Ask, Types, CallsTyped
    <2>6. inputs \in Nat
      BY DEF Types
    <2>7. /\ \A v \in Users : /\ IsFiniteSet(Owned(v, Made))
                              /\ Cardinality(Owned(v, Made)) <= Due(p, v)
          /\ \A i \in Made : i.call \in Nat /\ i.call < inputs
      BY <2>1, <2>2, SettledCounts
    <2> QED BY <1>13, <1>15, <2>3, <2>4, <2>5, <2>6, <2>7, CountedAsked
  <1> QED BY <1>18, <1>19, <1>20 DEF At

(* The number of presses is that of the press which founded the group. *)
LEMMA CreateCounts ==
  ASSUME Types, Types', Untouched, Create
  PROVE  Counts'
  <1>1. PICK pick \in Picks, presses \in 1..MaxPresses :
           LET list == pick \o [i \in 1..presses |-> Owner]
           IN  /\ Queue(Owner, SaveGroup(NewGroup(0, list)))
               /\ Ask(Owner, {CreateCall(list, 0)})
    BY DEF Create
  <1>2. PICK again, list : again = [i \in 1..presses |-> Owner] /\ list = pick \o again
    OBVIOUS
  <1>3. presses \in Nat \ {0} /\ Owner \in Users
    BY BoundAssumption, OwnerAssumption
  <1>4. pick \in Seq(Users)
    BY PicksAssumption
  <1>5. again \in Seq(Users) /\ Len(again) = presses /\ \A i \in 1..presses : again[i] = Owner
    <2>1. again \in [1..presses -> Users]
      BY <1>2, <1>3
    <2> QED BY <1>2, <1>3, <2>1, SeqIs
  <1>6. /\ list \in Seq(Users) /\ Len(list) = Len(pick) + presses
        /\ \A i \in 1..Len(pick) : list[i] = pick[i]
        /\ \A i \in 1..presses : list[Len(pick) + i] = Owner
    <2>1. list \in Seq(Users) /\ Len(list) = Len(pick) + presses
      BY <1>2, <1>4, <1>5
    <2>2. \A i \in 1..Len(pick) : list[i] = pick[i]
      BY <1>2, <1>4, <1>5
    <2>3. \A i \in 1..presses : list[Len(pick) + i] = again[i]
      BY <1>2, <1>4, <1>5
    <2> QED BY <1>5, <2>1, <2>2, <2>3
  <1>7. Pressed(list, presses)
    BY <1>3, <1>6, PressedFirst
  <1>8. PICK g, b, c : g = NewGroup(0, list) /\ b = SaveGroup(g) /\ c = CreateCall(list, 0)
    OBVIOUS
  <1>9. /\ Queue(Owner, b) /\ Ask(Owner, {c}) /\ inputs' = inputs + 1
        /\ screens' = [screens EXCEPT ![Owner] = <<NewChat>>]
        /\ UNCHANGED <<store, muted, gone, lost>>
    BY <1>1, <1>2, <1>8 DEF Create, Input
  <1>10. IsGroup(g) /\ g.members = list
    BY <1>6, <1>8 DEF NewGroup, IsGroup, GroupDocs
  <1>11. /\ b.on = "group" /\ b.write.fields = g /\ IsBatch(b)
         /\ SetBy(b) = {} /\ DeletedBy(b) = {} /\ ~Sets(b)
    BY <1>8, <1>10 DEF SaveGroup, GroupBatch, Write, IsBatch, IsGroupWrite, SetBy, DeletedBy, Sets
  <1>12. c.kind = "create" /\ c.n = inputs
    BY <1>8 DEF CreateCall
  <1>13. OnWay = {} /\ store.group = Nil /\ DOMAIN store.recents = {}
    BY EmptyQueue DEF Untouched, OnWay
  <1>14. OnWay' = OnWay \cup {b} /\ OnWay' = {b}
    BY <1>3, <1>9, <1>11, <1>13, QueueStep DEF Types
  <1>15. Lists(presses)'
    <2>1. PICK S, T : S = ChatsOf(presses) /\ T = Seq(S)
      OBVIOUS
    <2>2. DOMAIN screens = Users /\ \A w \in Users : screens[w] = <<>>
      BY DEF Types, Untouched
    <2>3. <<>> \in T /\ <<NewChat>> \in T
      BY <2>1, NewChatOf
    <2>4. \A w \in Users : screens'[w] \in Seq(ChatsOf(presses))
      BY <1>9, <2>1, <2>2, <2>3
    <2>5. \A a \in OnWay' : Pressed(a.write.fields["members"], presses)
      BY <1>7, <1>10, <1>11, <1>14
    <2> QED BY <1>9, <1>13, <2>4, <2>5 DEF Lists
  <1>16. Unshown'
    BY <1>11, <1>14 DEF Unshown
  <1>17. Counted(presses)'
    <2>1. Made = {} /\ Erased = {}
      BY <1>13 DEF Made, Erased
    <2>2. Made' = Made /\ Erased' = {}
      BY <1>9, <1>11, <1>14, <2>1, MadeQueued
    <2>3. OnceSet
      BY EmptyQueue DEF OnceSet, Untouched
    <2>4. OnceSet' /\ \A a \in OnWay' : ~Sets(a)
      BY <1>3, <1>9, <1>11, <1>14, <2>3, OnceQueued DEF Types
    <2>5. c \in calls'[Owner] /\ \A w \in Users : \A e \in calls'[w] : w = Owner /\ e = c
      BY <1>3, <1>9 DEF Ask, Types, CallsTyped, Untouched
    <2>6. inputs \in Nat
      BY DEF Types
    <2>7. ASSUME NEW v \in Users
          PROVE  /\ IsFiniteSet(Owned(v, Made))
                 /\ Cardinality(Owned(v, Made)) <= Due(presses, v)
      <3>1. Owned(v, Made) = {}
        BY <2>1 DEF Owned
      <3> QED BY <1>3, <3>1, FS_EmptySet DEF Due
    <2>8. \A i \in Made : i.call \in Nat /\ i.call < inputs
      BY <2>1
    <2> QED BY <1>3, <1>9, <1>12, <2>2, <2>4, <2>5, <2>6, <2>7, <2>8, CountedAsked
  <1>18. At(presses)'
    BY <1>15, <1>16, <1>17 DEF At
  <1> QED BY <1>3, <1>18 DEF Counts

--------------------------------------------------------------------------------
(* The answer to createRecent: what is missing is made, and no more.           *)

Copies(n, v, m) == {[call |-> n, owner |-> v, copy |-> k] : k \in 1..m}

LEMMA CopiesCount ==
  ASSUME NEW n, NEW v, NEW m \in Nat
  PROVE  IsFiniteSet(Copies(n, v, m)) /\ Cardinality(Copies(n, v, m)) = m
  <1> DEFINE new == Copies(n, v, m)
             f == [k \in 1..m |-> [call |-> n, owner |-> v, copy |-> k]]
  <1>1. f \in [1..m -> new]
    BY DEF Copies
  <1>2. \A i \in 1..m, j \in 1..m : f[i] = f[j] => i = j
    <2>1. ASSUME NEW i \in 1..m, NEW j \in 1..m, f[i] = f[j] PROVE i = j
      <3>1. f[i].copy = i /\ f[j].copy = j
        OBVIOUS
      <3> QED BY <2>1, <3>1
    <2> QED BY <2>1
  <1>3. \A x \in new : \E k \in 1..m : f[k] = x
    BY DEF Copies
  <1> HIDE DEF f
  <1>4. f \in Bijection(1..m, new)
    <2>1. DOMAIN f = 1..m
      BY <1>1
    <2> QED BY <1>1, <1>2, <1>3, <2>1 DEF Bijection, Injection, Surjection, IsInjective
  <1>5. ExistsBijection(1..m, new)
    BY <1>4 DEF ExistsBijection
  <1>6. IsFiniteSet(1..m) /\ Cardinality(1..m) = m
    BY FS_Interval
  <1> QED BY <1>5, <1>6, FS_Bijection

(* A call to create recents asks for the group's list. *)
LEMMA AskedPressed ==
  ASSUME Agree, ~lost, ~muted, NEW p, Lists(p), NEW c \in Asked, c.kind = "create"
  PROVE  ToSet(c.list) = meant.members /\ Pressed(c.list, p)
  <1>1. PICK list \in Seq(Users) :
           ToSet(list) = meant.members /\ GroupFollows(list) /\ AllFollow(list)
    BY DEF Agree
  <1>2. c.list = list
    <2> DEFINE asked == [name |-> c.name, members |-> c.list, push |-> c.list]
    <2>1. FieldsRight(list, Followed, asked)
      BY <1>1 DEF AllFollow, CallRight
    <2>2. "members" \in Followed \cap DOMAIN asked /\ asked["members"] = c.list
      BY DEF Followed, GroupFields
    <2> HIDE DEF asked
    <2> QED BY <2>1, <2>2 DEF FieldsRight, Right
  <1>3. "members" \in GroupFields
    BY DEF GroupFields
  <1>4. CASE store.group # Nil /\ Right(list, "members", store.group["members"])
    BY <1>1, <1>2, <1>4 DEF Right, Lists
  <1>5. CASE \E b \in OnWay : b.on = "group" /\ "members" \in DOMAIN b.write.fields
    <2>1. PICK b \in OnWay : b.on = "group" /\ "members" \in DOMAIN b.write.fields
      BY <1>5
    <2>2. FieldsRight(list, GroupFields, b.write.fields)
      BY <1>1, <2>1 DEF GroupFollows
    <2>3. b.write.fields["members"] = list
      BY <1>3, <2>1, <2>2 DEF FieldsRight, Right
    <2>4. Pressed(b.write.fields["members"], p)
      BY <2>1 DEF Lists
    <2> QED BY <1>1, <1>2, <2>3, <2>4
  <1> QED BY <1>1, <1>3, <1>4, <1>5 DEF GroupFollows

(* What a client sees of v's recents when none are on the way. *)
LEMMA SeenOwned ==
  ASSUME Types, NEW u \in Users, \A b \in OnWay : ~Sets(b), NEW v
  PROVE  /\ Left(v) \subseteq Owned(v, DOMAIN Seen(u).recents)
         /\ Owned(v, DOMAIN Seen(u).recents) \subseteq Owned(v, Made)
  <1>1. IsStore(store) /\ IsQueue(writes[u])
    BY DEF Types, QueuesTyped
  <1>2. \A b \in Elements(writes[u]) : b \in OnWay
    BY OnWayIs DEF Types
  <1>3. \A b \in OnWay : SetBy(b) = {}
    BY DEF Sets
  <1>4. Made = DOMAIN store.recents
    BY <1>3 DEF Made
  <1>5. PICK D : D = DOMAIN Seen(u).recents
    OBVIOUS
  <1>6. D \subseteq Made
    <2>1. \A id \in D : id \in DOMAIN store.recents \/ \E b \in Elements(writes[u]) : SetsRecent(b, id)
      BY <1>1, <1>5, SeenIs
    <2> QED BY <1>2, <1>3, <1>4, <2>1, ByIs
  <1>7. Made \ Erased \subseteq D
    <2>1. \A id \in DOMAIN store.recents : id \in D \/ \E b \in Elements(writes[u]) : Deletes(b, id)
      BY <1>1, <1>5, SeenIs
    <2>2. \A b \in OnWay : \A id : Deletes(b, id) => id \in Erased
      BY ByIs DEF Erased
    <2> QED BY <1>2, <1>4, <2>1, <2>2
  <1> QED BY <1>5, <1>6, <1>7 DEF Left, Owned

(* n are left of v, and h are seen; k are due, and as many are made as h lacks. *)
LEMMA MadeUp ==
  ASSUME NEW n \in Nat, NEW h \in Nat, NEW k \in Nat, n <= h, n <= k, NEW m,
         m = IF h < k THEN k - h ELSE 0
  PROVE  /\ m \in Nat /\ n + m <= k
         /\ n = h => n + m = k
  OBVIOUS

LEMMA CreateRecentsCounts ==
  ASSUME Types, Types', OwnDeleted, meant # Nil, ~crossed => Agree,
         NEW p \in Nat \ {0}, At(p), NEW u \in Users, NEW c \in calls[u], CreateRecents(u, c),
         crossed' = crossed
  PROVE  At(p)'
  <1> DEFINE new == UNION {{[call |-> c.n, owner |-> v, copy |-> k] :
                              k \in 1..Missing(u, c.list, v)} : v \in ToSet(c.list)}
             doc == [name |-> c.name, members |-> c.list, push |-> c.list, shown |-> FALSE]
  <1>1. /\ c.kind = "create" /\ Answered(u, c) /\ QueueSome(u, new, SetRecents(new, doc))
        /\ UNCHANGED <<store, screens, inputs, meant, muted, gone, lost>>
    BY DEF CreateRecents, Answered
  <1>2. \A id \in new : id.call = c.n /\ id.owner \in ToSet(c.list)
    OBVIOUS
  <1>3. \A v \in ToSet(c.list) :
           Owned(v, new) = Copies(c.n, v, Missing(u, c.list, v))
    <2>1. ASSUME NEW v \in ToSet(c.list)
          PROVE  Owned(v, new) = Copies(c.n, v, Missing(u, c.list, v))
      BY DEF Owned, Copies
    <2> QED BY <2>1
  <1>4. PICK b : b = SetRecents(new, doc)
    OBVIOUS
  <1> HIDE DEF new
  <1>5. /\ b.on = "recents" /\ DOMAIN b.writes = new
        /\ \A id \in new : b.writes[id].op = "set" /\ b.writes[id].fields = doc
    BY <1>4 DEF SetRecents, RecentBatch, Write
  <1>6. SetBy(b) = new /\ DeletedBy(b) = {} /\ (Sets(b) <=> new # {})
    BY <1>5 DEF SetBy, DeletedBy, Sets
  <1>7. doc.shown = FALSE /\ DOMAIN doc = RecentFields
    BY DEF RecentFields, GroupFields
  <1> HIDE DEF doc
  <1>8. IsBatch(b)
    BY <1>5, <1>7 DEF IsBatch, IsRecentWrite
  <1>9. /\ new = {} => OnWay' = OnWay
        /\ new # {} => OnWay' = OnWay \cup {b}
    BY <1>1, <1>4, <1>8, QueueSomeStep DEF Types
  <1>10. Lists(p)'
    BY <1>1, <1>5, <1>9, ListsKept DEF At, Lists
  <1>11. Unshown'
    <2>1. \A id \in SetBy(b) : b.writes[id].fields.shown = FALSE
      BY <1>5, <1>6, <1>7
    <2> QED BY <1>9, <2>1, UnshownKept DEF At
  <1>12. ASSUME Regular' PROVE Counted(p)'
    <2>1. Counted(p) /\ Agree /\ ~lost /\ ~muted
      BY <1>1, <1>12 DEF At, Regular
    <2>2. c \in Asked
      BY DEF Asked
    <2>3. Fresh(c)
      BY <1>1, <2>1, <2>2 DEF Counted
    <2>4. ToSet(c.list) = meant.members /\ Pressed(c.list, p)
      BY <1>1, <2>1, <2>2, AskedPressed DEF At
    <2>5. Made' = Made \cup new /\ Erased' = Erased
      <3>1. CASE new = {}
        BY <1>1, <1>9, <3>1, MadeSame
      <3>2. CASE new # {}
        <4>1. Made' = Made \cup SetBy(b) /\ Erased' = Erased \cup DeletedBy(b)
          BY <1>1, <1>9, <3>2, MadeQueued
        <4> QED BY <1>6, <4>1
      <3> QED BY <3>1, <3>2
    <2>6. \A id \in new : id \notin Made \cup Erased
      BY <1>2, <2>3 DEF Fresh
    <2>7. \A v : /\ Owned(v, Made)' = Owned(v, Made) \cup Owned(v, new)
                 /\ Left(v)' = Left(v) \cup Owned(v, new)
                 /\ Left(v) \cap Owned(v, new) = {}
                 /\ Left(v) \subseteq Owned(v, Made)
      BY <2>5, <2>6 DEF Left, Owned
    <2>8. ASSUME NEW v \in Users, v \in ToSet(c.list)
          PROVE  /\ IsFiniteSet(Owned(v, Made)')
                 /\ Cardinality(Left(v)') <= Due(p, v)
                 /\ v \notin gone => Cardinality(Left(v)') = Due(p, v)
      <3>1. PICK left, seen, own, add :
               /\ left = Left(v) /\ seen = Owned(v, DOMAIN Seen(u).recents)
               /\ own = Owned(v, Made) /\ add = Owned(v, new)
        OBVIOUS
      <3>2. PICK n, h, k, m : /\ n = Cardinality(left) /\ h = Cardinality(seen)
                              /\ k = Due(p, v) /\ m = Missing(u, c.list, v)
        OBVIOUS
      <3>3. IsFiniteSet(own) /\ n <= k
        BY <2>1, <3>1, <3>2 DEF Counted
      <3>4. left \subseteq seen /\ seen \subseteq own
        <4>1. \A a \in OnWay : ~Sets(a)
          BY <2>3 DEF Fresh
        <4> QED BY <3>1, <4>1, SeenOwned
      <3>5. IsFiniteSet(left) /\ IsFiniteSet(seen) /\ n <= h
        BY <3>2, <3>3, <3>4, FS_Subset
      <3>6. n \in Nat /\ h \in Nat /\ k \in Nat
        <4>1. k \in Nat
          BY <3>2 DEF Due
        <4> QED BY <3>2, <3>5, <4>1, FS_CardinalityType
      <3>7. Has(u, v) = h
        BY <3>1, <3>2 DEF Has, Owned
      <3>8. Occurrences(c.list, v) = k
        BY <2>4, <2>8, <3>2 DEF Pressed
      <3>9. m = IF h < k THEN k - h ELSE 0
        BY <3>2, <3>7, <3>8 DEF Missing
      <3>10. m \in Nat /\ n + m <= k /\ (n = h => n + m = k)
        BY <3>3, <3>5, <3>6, <3>9, MadeUp
      <3>11. IsFiniteSet(add) /\ Cardinality(add) = m
        <4>1. add = Copies(c.n, v, m)
          BY <1>3, <2>8, <3>1, <3>2
        <4> QED BY <3>10, <4>1, CopiesCount
      <3>12. Left(v)' = left \cup add /\ left \cap add = {} /\ Owned(v, Made)' = own \cup add
        BY <2>7, <3>1
      <3>13. Cardinality(left \cup add) = n + m
        <4>1. Cardinality(left \cup add) = n + m - Cardinality(left \cap add)
          BY <3>2, <3>5, <3>11, FS_Union
        <4>2. Cardinality(left \cap add) = 0
          BY <3>12, FS_EmptySet
        <4> QED BY <3>6, <3>10, <4>1, <4>2
      <3>14. IsFiniteSet(own \cup add)
        BY <3>3, <3>11, FS_Union
      <3>15. v \notin gone => n = h
        <4>1. ASSUME v \notin gone PROVE own \subseteq left
          <5>1. \A id \in Erased : id.owner \in gone
            <6>1. \A a \in OnWay : \A id \in DeletedBy(a) : id.owner \in gone
              BY ByIs DEF OwnDeleted
            <6> QED BY <6>1 DEF Erased
          <5> QED BY <3>1, <4>1, <5>1 DEF Left, Owned
        <4>2. ASSUME v \notin gone PROVE left = seen
          BY <3>4, <4>1, <4>2
        <4> QED BY <3>2, <4>2
      <3> QED BY <3>2, <3>10, <3>12, <3>13, <3>14, <3>15
    <2>9. ASSUME NEW v \in Users, v \notin ToSet(c.list)
          PROVE  /\ IsFiniteSet(Owned(v, Made)')
                 /\ Cardinality(Left(v)') <= Due(p, v)
      <3>1. Owned(v, new) = {}
        BY <1>2, <2>9 DEF Owned
      <3>2. Left(v)' = Left(v) /\ Owned(v, Made)' = Owned(v, Made)
        BY <2>7, <3>1
      <3> QED BY <2>1, <3>2 DEF Counted
    <2>10. \A v \in meant'.members \ gone' : Cardinality(Left(v)') = Due(p, v)
      <3>1. meant.members \subseteq Users
        BY DEF Types
      <3> QED BY <1>1, <2>4, <2>8, <3>1
    <2>11. OnceSet'
      <3>1. CASE new = {}
        BY <1>1, <2>1, <3>1, OnceSetSame DEF Counted, QueueSome
      <3>2. CASE new # {}
        <4>1. Queue(u, b)
          BY <1>1, <1>4, <3>2 DEF QueueSome
        <4>2. \A a \in OnWay : ~Sets(a)
          BY <2>3 DEF Fresh
        <4> QED BY <1>8, <2>1, <4>1, <4>2, OnceQueued DEF Types, Counted
      <3> QED BY <3>1, <3>2
    <2>12. \A w \in Users : \A d \in calls'[w] : d.kind # "create"
      <3>1. ASSUME NEW w \in Users, NEW d \in calls'[w], d.kind = "create" PROVE FALSE
        <4>1. d \in calls[w] /\ (w = u => d # c)
          BY <1>1, <3>1 DEF Answered, Types, CallsTyped
        <4>2. w = u /\ d = c
          BY <1>1, <2>1, <3>1, <4>1 DEF Counted, OnceAsked
        <4> QED BY <4>1, <4>2
      <3> QED BY <3>1
    <2>13. OnceAsked'
      BY <2>12 DEF OnceAsked
    <2>14. \A d \in Asked' : d.kind # "create"
      <3>1. Asked' = UNION {calls'[w] : w \in Users}
        BY DEF Asked
      <3> QED BY <2>12, <3>1
    <2>15. \A id \in Made' \cup Erased' : id.call \in Nat /\ id.call < inputs'
      <3>1. \A id \in Made \cup Erased : id.call \in Nat /\ id.call < inputs
        BY <2>1 DEF Counted
      <3> QED BY <1>1, <1>2, <2>3, <2>5, <3>1 DEF Fresh
    <2>16. \A a \in OnWay' : SetBy(a) \cap (DOMAIN store'.recents \cup Erased') = {}
      <3>1. \A a \in OnWay : SetBy(a) \cap (DOMAIN store.recents \cup Erased) = {}
        BY <2>1 DEF Counted
      <3>2. new \cap (DOMAIN store.recents \cup Erased) = {}
        BY <2>6 DEF Made
      <3> QED BY <1>1, <1>6, <1>9, <2>5, <3>1, <3>2
    <2>17. \A v \in Users : /\ IsFiniteSet(Owned(v, Made)')
                            /\ Cardinality(Left(v)') <= Due(p, v)
      BY <2>8, <2>9
    <2> QED BY <2>10, <2>11, <2>13, <2>14, <2>15, <2>16, <2>17 DEF Counted
  <1> QED BY <1>10, <1>11, <1>12 DEF At

--------------------------------------------------------------------------------
(* One recent each.                                                            *)

(* The counts concern these variables only. *)
LEMMA SameCounts ==
  ASSUME Types, Types', Counts, UNCHANGED vars
  PROVE  Counts'
  <1>1. /\ UNCHANGED <<store, writes, calls, meant, muted, gone, lost>>
        /\ screens' = screens /\ crossed' = crossed /\ inputs <= inputs'
    BY DEF vars, aux, Types
  <1>2. PICK p \in Nat \ {0} : At(p)
    BY DEF Counts
  <1>3. \A u \in Users : screens'[u] \in Seq(ChatsOf(p))
    BY <1>1, <1>2 DEF At, Lists
  <1>4. At(p)'
    BY <1>1, <1>2, <1>3, ScreensCount
  <1> QED BY <1>2, <1>4 DEF Counts

LEMMA InitCounts == Init => Counts
  <1> SUFFICES ASSUME Init PROVE Counts
    OBVIOUS
  <1>1. Types
    BY InitInv DEF Inv
  <1>2. /\ writes = [u \in Users |-> <<>>] /\ calls = [u \in Users |-> {}]
        /\ inputs = 1 /\ gone = {}
    BY DEF Init
  <1>3. OnWay = {} /\ Asked = {} /\ Unshown
    BY <1>2, EmptyQueue DEF OnWay, Asked, Unshown
  <1>4. CASE /\ store = [group |-> Nil, recents |-> <<>>] /\ meant = Nil
             /\ screens = [u \in Users |-> <<>>]
    <2>1. Lists(1)
      <3>1. PICK S, T : S = ChatsOf(1) /\ T = Seq(S)
        OBVIOUS
      <3>2. <<>> \in T
        BY <3>1
      <3> QED BY <1>3, <1>4, <3>1, <3>2 DEF Lists
    <2>2. At(1)
      BY <1>3, <1>4, <2>1 DEF At, Regular
    <2> QED BY <2>2 DEF Counts
  <1>5. CASE \E pick \in Picks :
            LET list == Append(pick, Owner)
                group == NewGroup(0, list)
            IN  /\ store = [group |-> group,
                            recents |-> [i \in {[call |-> 0, owner |-> v, copy |-> 1] :
                                                    v \in ToSet(list)} |->
                                [name |-> 0, members |-> list, push |-> list,
                                 shown |-> TRUE]]]
                /\ meant = [name |-> 0, members |-> ToSet(list)]
                /\ \E open \in SUBSET (ToSet(list) \cap Active) :
                    screens = [u \in Users |-> IF u \notin open THEN <<>> ELSE
                                <<[NewChat EXCEPT !.group = group, !.loading = FALSE]>>]
    <2>1. PICK pick \in Picks :
            LET list == Append(pick, Owner)
                group == NewGroup(0, list)
            IN  /\ store = [group |-> group,
                            recents |-> [i \in {[call |-> 0, owner |-> v, copy |-> 1] :
                                                    v \in ToSet(list)} |->
                                [name |-> 0, members |-> list, push |-> list,
                                 shown |-> TRUE]]]
                /\ meant = [name |-> 0, members |-> ToSet(list)]
                /\ \E open \in SUBSET (ToSet(list) \cap Active) :
                    screens = [u \in Users |-> IF u \notin open THEN <<>> ELSE
                                <<[NewChat EXCEPT !.group = group, !.loading = FALSE]>>]
      BY <1>5
    <2>2. PICK list : list = Append(pick, Owner)
      OBVIOUS
    <2>3. pick \in Seq(Users) /\ Owner \in Users
      BY PicksAssumption, OwnerAssumption
    <2>4. /\ list \in Seq(Users) /\ Len(list) = Len(pick) + 1 /\ Len(pick) \in Nat
          /\ \A i \in 1..Len(pick) : list[i] = pick[i]
          /\ list[Len(pick) + 1] = Owner
      BY <2>2, <2>3
    <2>5. \A i \in 1..1 : list[Len(pick) + i] = Owner
      <3>1. \A i \in 1..1 : i = 1
        OBVIOUS
      <3> QED BY <2>4, <3>1
    <2>6. Pressed(list, 1)
      <3>1. 1 \in Nat \ {0}
        OBVIOUS
      <3> QED BY <2>4, <2>5, <3>1, PressedFirst
    <2>7. PICK group, doc : /\ group = NewGroup(0, list)
                            /\ doc = [name |-> 0, members |-> list, push |-> list, shown |-> TRUE]
      OBVIOUS
    <2>8. IsGroup(group) /\ group.members = list /\ group # Nil
      <3>1. IsGroup(group) /\ group.members = list
        BY <2>4, <2>7 DEF NewGroup, IsGroup, GroupDocs
      <3> QED BY <3>1, NilIs DEF IsGroup
    <2> DEFINE ids == {[call |-> 0, owner |-> v, copy |-> 1] : v \in ToSet(list)}
    <2>9. /\ store = [group |-> group, recents |-> [i \in ids |-> doc]]
          /\ meant = [name |-> 0, members |-> ToSet(list)]
      BY <2>1, <2>2, <2>7
    <2>10. \A id \in ids : id.call = 0
      OBVIOUS
    <2>11. /\ \A v \in ToSet(list) : Owned(v, ids) = {[call |-> 0, owner |-> v, copy |-> 1]}
           /\ \A v : v \notin ToSet(list) => Owned(v, ids) = {}
      <3>1. ASSUME NEW v \in ToSet(list)
            PROVE  Owned(v, ids) = {[call |-> 0, owner |-> v, copy |-> 1]}
        BY DEF Owned
      <3>2. ASSUME NEW v, v \notin ToSet(list) PROVE Owned(v, ids) = {}
        BY <3>2 DEF Owned
      <3> QED BY <3>1, <3>2
    <2> HIDE DEF ids
    <2>12. store.group = group /\ DOMAIN store.recents = ids /\ meant.members = ToSet(list)
      BY <2>9
    <2>13. Made = ids /\ Erased = {} /\ \A v : Left(v) = Owned(v, ids)
      <3>1. Made = ids /\ Erased = {}
        BY <1>3, <2>12 DEF Made, Erased
      <3> QED BY <3>1 DEF Left, Owned
    <2>14. \A v \in Users : /\ IsFiniteSet(Owned(v, Made))
                            /\ Cardinality(Left(v)) <= 1
                            /\ v \in ToSet(list) => Cardinality(Left(v)) = 1
      <3>1. ASSUME NEW v \in Users
            PROVE  /\ IsFiniteSet(Owned(v, ids))
                   /\ Cardinality(Owned(v, ids)) <= 1
                   /\ v \in ToSet(list) => Cardinality(Owned(v, ids)) = 1
        <4>1. CASE v \in ToSet(list)
          <5>1. PICK x : x = [call |-> 0, owner |-> v, copy |-> 1]
            OBVIOUS
          <5>2. Owned(v, ids) = {x}
            BY <2>11, <4>1, <5>1
          <5> QED BY <5>2, FS_Singleton
        <4>2. CASE v \notin ToSet(list)
          <5>1. Owned(v, ids) = {}
            BY <2>11, <4>2
          <5> QED BY <4>2, <5>1, FS_EmptySet
        <4> QED BY <4>1, <4>2
      <3> QED BY <2>13, <3>1
    <2>15. Counted(1)
      <3>1. \A v : Due(1, v) = 1
        BY DEF Due
      <3>2. ToSet(list) \subseteq Users
        BY <2>4 DEF ToSet
      <3>3. OnceSet /\ OnceAsked
        BY <1>2 DEF OnceSet, OnceAsked
      <3>4. \A id \in Made \cup Erased : id.call \in Nat /\ id.call < inputs
        BY <1>2, <2>10, <2>13
      <3> QED BY <1>2, <1>3, <2>12, <2>14, <3>1, <3>2, <3>3, <3>4 DEF Counted
    <2>16. Lists(1)
      <3>1. PICK S, T : S = ChatsOf(1) /\ T = Seq(S)
        OBVIOUS
      <3>2. PICK chat : chat = [NewChat EXCEPT !.group = group, !.loading = FALSE]
        OBVIOUS
      <3>3. chat \in Chats /\ chat.group = group
        BY <2>8, <3>2 DEF NewChat, Chats, IsGroup
      <3>4. <<>> \in T /\ <<chat>> \in T
        BY <2>6, <2>8, <3>1, <3>3 DEF ChatsOf
      <3>5. PICK open : screens = [u \in Users |-> IF u \notin open THEN <<>> ELSE <<chat>>]
        BY <2>1, <2>2, <2>7, <3>2
      <3>6. \A u \in Users : screens[u] \in T
        BY <3>4, <3>5
      <3> QED BY <1>3, <2>6, <2>8, <2>12, <3>1, <3>6 DEF Lists
    <2>17. At(1)
      BY <1>3, <2>15, <2>16 DEF At
    <2> QED BY <2>17 DEF Counts
  <1> QED BY <1>4, <1>5 DEF Init

LEMMA NextCounts == Inv /\ Inv' /\ Counts /\ [Next]_vars => Counts'
  <1> SUFFICES ASSUME Inv, Inv', Counts, [Next]_vars PROVE Counts'
    OBVIOUS
  <1>1. Types /\ Types'
    BY DEF Inv
  <1>2. CASE UNCHANGED vars
    BY <1>1, <1>2, SameCounts
  <1>3. CASE Next
    <2>1. PICK u \in Active : Edit(u) \/ Other(u) \/ Callback(u) \/ Network(u) \/ Serve(u)
      BY <1>3 DEF Next
    <2>2. u \in Users
      BY OwnerAssumption
    <2>3. CASE meant = Nil
      <3>1. Untouched
        BY <2>3 DEF Inv
      <3>2. screens[u] = <<>> /\ calls[u] = {} /\ writes[u] = <<>> /\ Rows(u) = {}
        BY <1>1, <2>2, <3>1, OnlyCreate
      <3>3. ~Other(u) /\ ~Callback(u) /\ ~Network(u) /\ ~Serve(u)
        BY <3>2 DEF Other, Callback, Network, Serve, Back, Send, Kill, ShowGroupTraps,
           GroupLoaded, GroupNotLoaded, Load
      <3>4. Create
        BY <2>1, <3>2, <3>3 DEF Edit
      <3> QED BY <1>1, <3>1, <3>4, CreateCounts
    <2>4. CASE meant # Nil
      <3>1. PICK p \in Nat \ {0} : At(p)
        BY DEF Counts
      <3>2. OwnDeleted /\ (~crossed => Agree)
        BY <2>4 DEF Inv
      <3>3. At(p)'
        <4>1. CASE Edit(u)
          <5>1. CASE screens[u] # <<>> /\ Top(u).group # Nil /\ Invite(u)
            <6>1. PICK selected \in Selections(u, Top(u).group), before \in {{}, Top(u).invited} :
                     /\ Done(u, selected, before)
                     /\ crossed' = (crossed \/ ~Settled \/ ~UpToDate(Top(u), before))
              BY <5>1 DEF Invite
            <6> QED BY <1>1, <2>2, <2>4, <3>1, <5>1, <6>1, DoneCounts
          <5>2. CASE /\ screens[u] # <<>> /\ Top(u).group # Nil /\ Save(u)
                     /\ crossed' = (crossed \/ ~Settled \/ ~UpToDate(Top(u), Top(u).invited))
            BY <1>1, <2>2, <2>4, <3>1, <5>2, SaveCounts
          <5>3. CASE \E id \in Rows(u) : OpenRow(u, id) /\ crossed' = (crossed \/ ~Settled)
            BY <1>1, <2>2, <2>4, <3>1, <5>3, OpenRowCounts
          <5>4. CASE Create
            BY <2>4, <5>4 DEF Create
          <5> QED BY <4>1, <5>1, <5>2, <5>3, <5>4 DEF Edit
        <4>2. CASE Other(u)
          <5>1. crossed' = crossed
            BY <4>2 DEF Other
          <5>2. CASE Back(u)
            BY <1>1, <2>2, <3>1, <5>1, <5>2, BackCounts
          <5>3. CASE Send(u)
            BY <1>1, <2>2, <3>1, <5>1, <5>3, SendCounts
          <5>4. CASE Kill(u) \/ ShowGroupTraps(u)
            <6>1. Crash(u) /\ inputs <= inputs'
              BY <1>1, <5>4 DEF Kill, ShowGroupTraps, Input, Types
            <6> QED BY <1>1, <2>2, <3>1, <5>1, <6>1, CrashCounts
          <5>5. CASE \E id \in Rows(u) : Mute(u, id)
            BY <3>1, <5>5, IrregularCounts DEF Mute
          <5>6. CASE \E id \in Rows(u) : DeleteRow(u, id)
            BY <1>1, <2>2, <3>1, <5>1, <5>6, DeleteRowCounts
          <5> QED BY <4>2, <5>2, <5>3, <5>4, <5>5, <5>6 DEF Other
        <4>3. CASE Callback(u)
          <5>1. crossed' = crossed
            BY <4>3 DEF Callback
          <5>2. PICK c \in calls[u] : CreateRecents(u, c) \/ UpdateRecents(u, c)
            BY <4>3 DEF Callback
          <5>3. CASE CreateRecents(u, c)
            BY <1>1, <2>2, <2>4, <3>1, <3>2, <5>1, <5>2, <5>3, CreateRecentsCounts
          <5>4. CASE UpdateRecents(u, c)
            BY <1>1, <2>2, <3>1, <5>1, <5>2, <5>4, UpdateRecentsCounts
          <5> QED BY <5>2, <5>3, <5>4
        <4>4. CASE Network(u)
          <5>1. crossed' = crossed
            BY <4>4 DEF Network
          <5>2. CASE GroupLoaded(u) \/ GroupNotLoaded(u)
            BY <1>1, <2>2, <3>1, <5>1, <5>2, LoadCounts
          <5>3. CASE \E c \in calls[u] : Fail(u, c)
            BY <3>1, <5>3, IrregularCounts DEF Fail, Answered
          <5> QED BY <4>4, <5>2, <5>3 DEF Network
        <4>5. CASE Serve(u)
          <5>1. crossed' = crossed
            BY <4>5 DEF Serve, aux
          <5> QED BY <1>1, <2>2, <3>1, <4>5, <5>1, ServeCounts
        <4> QED BY <2>1, <4>1, <4>2, <4>3, <4>4, <4>5
      <3> QED BY <3>1, <3>3 DEF Counts
    <2> QED BY <2>3, <2>4
  <1> QED BY <1>2, <1>3

(* Each member has as many recents as the list has him, less those he deleted, *)
(* whoever invites, opens, deletes or is late: the recents stored and to be    *)
(* stored are counted against the list, and one answer at a time adds to them. *)
THEOREM OneEach == Spec => []OneRecentEach
  <1>1. Inv /\ Counts => OneRecentEach
    <2> SUFFICES ASSUME Inv, Counts, Undisturbed, ~lost, ~muted, NEW v \in meant.members
                 PROVE  LET n == Cardinality({i \in DOMAIN store.recents : i.owner = v})
                            m == Occurrences(store.group.members, v)
                        IN  n <= m /\ (v \notin gone => n = m)
      BY DEF OneRecentEach
    <2>1. Types /\ Settled /\ Agree /\ meant # Nil /\ Regular
      BY DEF Undisturbed, Inv, Regular
    <2>2. OnWay = {} /\ Asked = {}
      BY <2>1, SettledIs
    <2>3. PICK p \in Nat \ {0} : Lists(p) /\ Counted(p)
      BY <2>1 DEF Counts, At
    <2>4. PICK list \in Seq(Users) : ToSet(list) = meant.members /\ GroupFollows(list)
      BY <2>1 DEF Agree
    <2>5. store.group # Nil /\ store.group.members = list
      BY <2>2, <2>4, SettledRight DEF Right, GroupFields
    <2>6. Occurrences(store.group.members, v) = Due(p, v)
      BY <2>3, <2>4, <2>5 DEF Lists, Pressed
    <2>7. Left(v) = {i \in DOMAIN store.recents : i.owner = v}
      <3>1. Made = DOMAIN store.recents /\ Erased = {}
        BY <2>2, <2>3, SettledCounts
      <3> QED BY <3>1 DEF Left, Owned
    <2>8. v \in Users
      BY <2>1, NilIs DEF Types
    <2>9. Cardinality(Left(v)) <= Due(p, v) /\ (v \notin gone => Cardinality(Left(v)) = Due(p, v))
      BY <2>2, <2>3, <2>8 DEF Counted
    <2> QED BY <2>6, <2>7, <2>9
  <1>2. Init => Inv /\ Counts
    BY InitInv, InitCounts
  <1>3. Inv /\ Counts /\ [Next]_vars => (Inv /\ Counts)'
    BY NextInv, NextCounts
  <1> QED BY <1>1, <1>2, <1>3, PTL DEF Spec
================
