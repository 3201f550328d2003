------------------------------- MODULE Groups -------------------------------
(***************************************************************************)
(* One group (Class/Group.swift, the new-group, group and invite screens)  *)
(* and its recents.                                                        *)
(*                                                                         *)
(* Who belongs to a group is written down in many places: twice in the     *)
(* document of the collection Group (members, and members to push), twice  *)
(* in the recent of every member, and again in the screens that are open.  *)
(* Chats go by the recents, invitations by the group document as it was    *)
(* when the chat screen was opened.  Nothing keeps these lists together    *)
(* but the writes of whoever creates, invites, renames or mutes.           *)
(***************************************************************************)
EXTENDS Naturals, SequencesExt, FiniteSets

CONSTANTS Users,
          Active,      \* those who do something; the others are only invited
          Owner,       \* who creates the group
          Picks,       \* the lists of members he may have picked
          Nil,         \* no document
          MaxPresses,  \* how often he may have pressed "Create" (bound)
          MaxLevels,   \* chats of this group on one navigation stack (bound)
          MaxInputs,   \* how many things users do or fail (bound) ...
          MaxCrossing  \* ... and how many if edits cross (bound)

ASSUME OwnerAssumption ==
    IsFiniteSet(Users) /\ Active \subseteq Users /\ Owner \in Active
ASSUME PicksAssumption ==
    \A s \in Picks : /\ s \in Seq(Users) /\ s # <<>> /\ IsInjective(s)
                     /\ Owner \notin ToSet(s)
GroupDocs == [name : Nat, members : Seq(Users), push : Seq(Users)]

ASSUME NilAssumption == Nil \notin GroupDocs \cup [name : Nat, members : SUBSET Users]
ASSUME BoundAssumption ==
    {MaxPresses, MaxLevels, MaxInputs, MaxCrossing} \subseteq Nat

VARIABLES store,    \* at the server: the group's document, and its recents
          writes,   \* client -> its queue of writes (external)
          calls,    \* client -> its getDocuments calls without an answer
          screens,  \* client -> the chats of the group on its navigation stack
          inputs,   \* how many there were (for the bounds)
          meant,    \* what the users meant the group to be (Nil: no group yet)
          crossed, muted, gone, lost  \* auxiliary, see below; so is meant

aux == <<meant, crossed, muted, gone, lost>>
vars == <<store, writes, calls, screens, inputs, aux>>

----------------------------------------------------------------------------
(* Documents.  A recent has the group's name as kWITHUSERFULLNAME; shown   *)
(* tells whether it has a last message.  Its id names the call of          *)
(* createRecent and the place in that call's list; kUSERID is the owner.   *)

Id == [call : Nat, owner : Users, copy : Nat]

\* The initialiser of Group: the same list twice.
NewGroup(name, list) == [name |-> name, members |-> list, push |-> list]

(* Writes (external): setData, updateData of some fields, delete.  Those of *)
(* one callback make a batch: they go to distinct documents, and only       *)
(* crossing edits could tell in which order these are reached.              *)

Write(op, fields) == [op |-> op, fields |-> fields]

GroupBatch(w) == [on |-> "group", write |-> w]

\* ws: the documents written -> the write of each
RecentBatch(ws) == [on |-> "recents", writes |-> ws]

SaveGroup(group) == GroupBatch(Write("set", group))
UpdateGroup(values) == GroupBatch(Write("update", values))
SetRecents(ids, doc) == RecentBatch([id \in ids |-> Write("set", doc)])
UpdateAll(ids, values) == RecentBatch([id \in ids |-> Write("update", values)])
DeleteRecent(id) == RecentBatch([i \in {id} |-> Write("delete", <<>>)])

Merged(doc, values) ==
    [f \in DOMAIN doc |-> IF f \in DOMAIN values THEN values[f] ELSE doc[f]]

\* updateData of a document that is not there changes nothing.
WrittenGroup(group, w) ==
    IF w.op = "set" THEN w.fields
    ELSE IF group = Nil THEN Nil ELSE Merged(group, w.fields)

WrittenRecents(recents, ws) ==
    LET made == {i \in DOMAIN ws : ws[i].op = "set"}
        deleted == {i \in DOMAIN ws : ws[i].op = "delete"}
    IN  [i \in (DOMAIN recents \ deleted) \cup made |->
            IF i \in made THEN ws[i].fields
            ELSE IF i \in DOMAIN ws THEN Merged(recents[i], ws[i].fields)
            ELSE recents[i]]

Applied(s, batch) ==
    IF batch.on = "group" THEN [s EXCEPT !.group = WrittenGroup(@, batch.write)]
    ELSE [s EXCEPT !.recents = WrittenRecents(@, batch.writes)]

\* What client u's queries see: the server's documents, its queue applied.
Seen(u) ==
    LET after[n \in 0..Len(writes[u])] ==
            IF n = 0 THEN store ELSE Applied(after[n - 1], writes[u][n])
    IN  after[Len(writes[u])]

Queue(u, batch) == writes' = [writes EXCEPT ![u] = Append(@, batch)]

QueueSome(u, ids, batch) == IF ids = {} THEN UNCHANGED writes ELSE Queue(u, batch)

----------------------------------------------------------------------------
(* Calls of getDocuments, numbered by the input that made them.            *)

CreateCall(list, name) ==
    [kind |-> "create", n |-> inputs, list |-> list, name |-> name]

ValuesCall(values) == [kind |-> "values", n |-> inputs, values |-> values]

Ask(u, C) == calls' = [calls EXCEPT ![u] = @ \cup C]

Input == inputs < MaxInputs /\ inputs' = inputs + 1

(* A chat of the group on a stack of screens: group is the dictionary that *)
(* getCurrentGroup has read, which the group screen and the invitation     *)
(* screen above it go by.  "Done" puts the next chat above these.  invited *)
(* (auxiliary) is whom it was last pressed with.                           *)

NewChat == [group |-> Nil, loading |-> TRUE, invited |-> {}]

Top(u) == screens[u][Len(screens[u])]

OnTop(u, chat) == [screens EXCEPT ![u] = Append(Front(@), chat)]

----------------------------------------------------------------------------
(* The chat and the screens above it.                                      *)

\* "Create": the owner is appended to memberIds at each press, so a second
\* press founds another group that has him twice; the group modelled is that
\* of the last one.
Create ==
    /\ meant = Nil /\ screens[Owner] = <<>>
    /\ Input
    /\ \E pick \in Picks, presses \in 1..MaxPresses :
          LET list == pick \o [i \in 1..presses |-> Owner]
          IN  /\ Queue(Owner, SaveGroup(NewGroup(0, list)))
              /\ Ask(Owner, {CreateCall(list, 0)})
              /\ meant' = [name |-> 0, members |-> ToSet(list)]
    /\ screens' = [screens EXCEPT ![Owner] = <<NewChat>>]
    /\ UNCHANGED <<store, muted, gone, lost>>

\* getCurrentGroup, asked when the chat is opened.
Load(u, group) ==
    /\ screens[u] # <<>> /\ Top(u).loading
    /\ screens' = OnTop(u, [Top(u) EXCEPT !.group = group, !.loading = FALSE])
    /\ UNCHANGED <<store, writes, calls, meant, muted, gone, lost>>

GroupLoaded(u) == Load(u, Seen(u).group) /\ UNCHANGED inputs

GroupNotLoaded(u) == Load(u, Nil) /\ Input

\* The process ends: callbacks are lost, queued writes are on disk.
Crash(u) ==
    /\ screens' = [screens EXCEPT ![u] = <<>>]
    /\ calls' = [calls EXCEPT ![u] = {}]
    /\ lost' = (lost \/ calls[u] # {})
    /\ UNCHANGED <<store, writes, meant, muted, gone>>

Kill(u) == Input /\ screens[u] # <<>> /\ Crash(u)

\* showGroup before the group was read, or when it could not be: group! traps.
ShowGroupTraps(u) == Input /\ screens[u] # <<>> /\ Top(u).group = Nil /\ Crash(u)

\* Back to the screens that the chat on top came from.
Back(u) ==
    /\ screens[u] # <<>>
    /\ screens' = [screens EXCEPT ![u] = Front(@)]
    /\ UNCHANGED <<store, writes, calls, inputs, meant, muted, gone, lost>>

\* The rows of the invitation screen that can be selected, except the user's
\* own: users already in the group are refused.
Eligible(u, group) == Users \ ({u} \cup ToSet(group.members))

\* newMemberIds: a tap adds a user at the end or takes him out again, so it is
\* any list without repetitions (their order is left out).
Selections(u, group) == {SetToSeq(S) : S \in SUBSET Eligible(u, group) \ {{}}}

\* (Wrong variants of Invitation: the members are not written; those who are in
\* the group are not kept.)
PushOnly(group, selected) == [push |-> group.push \o selected]

SelectedOnly(group, selected) == [members |-> selected, push |-> selected]

\* tempMembers and tempMembersToPush, from the group as it was read.
Invitation(group, selected) ==
    [members |-> group.members \o selected, push |-> group.push \o selected]

\* "Done": updateGroup writes the group, creates the recents of those who have
\* none, updates all others, and goes on to a chat.  The invitation screen may
\* be the one that this was done on before, with the selection it still has.
Done(u, selected, before) ==
    LET chat == Top(u)
        values == Invitation(chat.group, selected)
    IN  /\ Len(screens[u]) < MaxLevels
        /\ Input
        /\ Queue(u, UpdateGroup(values))
        /\ Ask(u, {CreateCall(chat.group.push \o selected, chat.group.name),
                   ValuesCall(values)})
        /\ screens' = [screens EXCEPT ![u] =
              Front(@) \o <<[chat EXCEPT !.invited = ToSet(selected)], NewChat>>]
        /\ meant' = [meant EXCEPT !.members = (@ \ before) \cup ToSet(selected)]
        /\ UNCHANGED <<store, muted, gone, lost>>

\* "Save" writes the name in the text field, a new one or the one it shows, and
\* leaves for the list of chats.
Save(u) ==
    /\ Input
    /\ \E name \in {Top(u).group.name, inputs} :
          /\ Queue(u, UpdateGroup([name |-> name]))
          /\ Ask(u, {ValuesCall([name |-> name])})
          /\ meant' = [meant EXCEPT !.name = name]
    /\ screens' = [screens EXCEPT ![u] = <<>>]
    /\ UNCHANGED <<store, muted, gone, lost>>

----------------------------------------------------------------------------
(* The list of chats.                                                      *)

Rows(u) == {i \in DOMAIN Seen(u).recents : i.owner = u /\ Seen(u).recents[i].shown}

\* A tap: restartRecentChat takes the push list for the members.
OpenRow(u, id) ==
    /\ screens[u] = <<>>
    /\ Input
    /\ LET recent == Seen(u).recents[id]
       IN  Ask(u, {CreateCall(recent.push, recent.name)})
    /\ screens' = [screens EXCEPT ![u] = <<NewChat>>]
    /\ UNCHANGED <<store, writes, meant, muted, gone, lost>>

\* updatePushMembers: only the recents' push lists, from the row's.
Mute(u, id) ==
    /\ screens[u] = <<>>
    /\ Input
    /\ LET list == Seen(u).recents[id].push
       IN  Ask(u, {ValuesCall([push |-> IF Contains(list, u) THEN RemoveFirst(list, u)
                                        ELSE Append(list, u)])})
    /\ muted' = TRUE
    /\ UNCHANGED <<store, writes, screens, meant, gone, lost>>

DeleteRow(u, id) ==
    /\ screens[u] = <<>>
    /\ Input
    /\ Queue(u, DeleteRecent(id))
    /\ gone' = gone \cup {u}
    /\ UNCHANGED <<store, calls, screens, meant, muted, lost>>

\* A message makes recents rows: updateRecents gives each a last message.  How
\* that is done, and may fail, is Recents; here it is one step.
Shown(recents) == [i \in DOMAIN recents |-> [recents[i] EXCEPT !.shown = TRUE]]

Send(u) ==
    /\ screens[u] # <<>>
    /\ Input
    /\ \E i \in DOMAIN store.recents : ~store.recents[i].shown
    /\ store' = [store EXCEPT !.recents = Shown(@)]
    /\ UNCHANGED <<writes, calls, screens, meant, muted, gone, lost>>

----------------------------------------------------------------------------
(* Callbacks and the server.                                               *)

Answered(u, c) ==
    /\ calls' = [calls EXCEPT ![u] = @ \ {c}]
    /\ UNCHANGED <<store, screens, meant, muted, gone>>

Occurrences(list, v) == Cardinality({i \in DOMAIN list : list[i] = v})

Has(u, v) == Cardinality({i \in DOMAIN Seen(u).recents : i.owner = v})

\* (Wrong variants of Missing: everybody gets a recent; nobody does as soon
\* as there is one.)
Everybody(u, list, v) == Occurrences(list, v)

OnlyIfNone(u, list, v) ==
    IF DOMAIN Seen(u).recents = {} THEN Occurrences(list, v) ELSE 0

\* tempMembers: each recent found takes one occurrence of its owner out.
Missing(u, list, v) ==
    IF Has(u, v) < Occurrences(list, v) THEN Occurrences(list, v) - Has(u, v) ELSE 0

\* createRecent, createRecentItem (type kGROUP)
CreateRecents(u, c) ==
    /\ c.kind = "create"
    /\ Answered(u, c)
    /\ LET new == UNION {{[call |-> c.n, owner |-> v, copy |-> k] :
                            k \in 1..Missing(u, c.list, v)} : v \in ToSet(c.list)}
           doc == [name |-> c.name, members |-> c.list, push |-> c.list,
                   shown |-> FALSE]
       IN  QueueSome(u, new, SetRecents(new, doc))
    /\ UNCHANGED <<inputs, lost>>

\* updateExistingRecentWithNewValues
UpdateRecents(u, c) ==
    /\ c.kind = "values"
    /\ Answered(u, c)
    /\ LET ids == DOMAIN Seen(u).recents
       IN  QueueSome(u, ids, UpdateAll(ids, c.values))
    /\ UNCHANGED <<inputs, lost>>

\* No snapshot: the callbacks return.
Fail(u, c) ==
    /\ Input
    /\ Answered(u, c)
    /\ lost' = TRUE
    /\ UNCHANGED writes

Serve(u) ==
    /\ writes[u] # <<>>
    /\ store' = Applied(store, Head(writes[u]))
    /\ writes' = [writes EXCEPT ![u] = Tail(@)]
    /\ UNCHANGED <<calls, screens, inputs, aux>>

----------------------------------------------------------------------------
(* meant is what the group would be if every edit were made on what all    *)
(* the others had left: the name last saved, and the members picked or     *)
(* invited, without those a user invited and, back on the same screen,     *)
(* invited no longer.  crossed: an edit was made before the calls and      *)
(* writes of the one before were over, or on a screen that shows something *)
(* else.  muted: somebody muted or unmuted.  gone: users who deleted their *)
(* recent.  lost: a call went without its answer.                          *)

Settled == \A u \in Users : calls[u] = {} /\ writes[u] = <<>>

UpToDate(chat, before) ==
    /\ chat.group.name = meant.name
    /\ ToSet(chat.group.members) \cup before = meant.members

Invite(u) ==
    \E selected \in Selections(u, Top(u).group), before \in {{}, Top(u).invited} :
        /\ Done(u, selected, before)
        /\ crossed' = (crossed \/ ~Settled \/ ~UpToDate(Top(u), before))

Edit(u) ==
    \/ /\ screens[u] # <<>> /\ Top(u).group # Nil
       /\ \/ Invite(u)
          \/ Save(u) /\ crossed' = (crossed \/ ~Settled
                                            \/ ~UpToDate(Top(u), Top(u).invited))
    \/ \E id \in Rows(u) : OpenRow(u, id) /\ crossed' = (crossed \/ ~Settled)
    \/ u = Owner /\ Create /\ UNCHANGED crossed

Other(u) ==
    /\ \/ Back(u) \/ Send(u) \/ Kill(u) \/ ShowGroupTraps(u)
       \/ \E id \in Rows(u) : Mute(u, id) \/ DeleteRow(u, id)
    /\ UNCHANGED crossed

Callback(u) ==
    /\ \E c \in calls[u] : CreateRecents(u, c) \/ UpdateRecents(u, c)
    /\ UNCHANGED crossed

Network(u) ==
    /\ GroupLoaded(u) \/ GroupNotLoaded(u) \/ \E c \in calls[u] : Fail(u, c)
    /\ UNCHANGED crossed

\* A group nobody has created yet, or one whose members have all got a message;
\* some of them have opened it since, and nothing is under way.
Init ==
    /\ \/ /\ store = [group |-> Nil, recents |-> <<>>] /\ meant = Nil
          /\ screens = [u \in Users |-> <<>>]
       \/ \E pick \in Picks :
            LET list == Append(pick, Owner)
                group == NewGroup(0, list)
            IN  /\ store = [group |-> group,
                            recents |-> [i \in {[call |-> 0, owner |-> v, copy |-> 1] :
                                                    v \in ToSet(list)} |->
                                [name |-> 0, members |-> list, push |-> list,
                                 shown |-> TRUE]]]
                /\ meant = [name |-> 0, members |-> ToSet(list)]
                /\ \E open \in SUBSET (ToSet(list) \cap Active) :
                    screens = [u \in Users |-> IF u \notin open THEN <<>> ELSE
                                <<[NewChat EXCEPT !.group = group, !.loading = FALSE]>>]
    /\ writes = [u \in Users |-> <<>>] /\ calls = [u \in Users |-> {}]
    /\ inputs = 1
    /\ crossed = FALSE /\ muted = FALSE /\ gone = {} /\ lost = FALSE

Next ==
    /\ \E u \in Active :
          Edit(u) \/ Other(u) \/ Callback(u) \/ Network(u) \/ Serve(u)
    /\ crossed' => inputs' <= MaxCrossing

Spec == Init /\ [][Next]_vars

----------------------------------------------------------------------------
(* Properties.                                                             *)

Undisturbed == Settled /\ meant # Nil /\ ~crossed

\* An invitation is written as a whole new list computed from what a screen
\* shows.  As long as edits do not cross, the group has all who were picked or
\* invited and the last name saved, whoever edits from whichever of his screens.
NobodyLost ==
    Undisturbed => /\ ToSet(store.group.members) = meant.members
                   /\ ToSet(store.group.push) = meant.members
                   /\ store.group.name = meant.name

\* The recents follow the group: names and members are those of the group's
\* document, in recents created by an invitation, updated by it, or created
\* again after a deletion.  Only muting changes what a chat takes from them.
RecentsFollow ==
    Undisturbed /\ ~lost =>
        \A i \in DOMAIN store.recents :
            LET r == store.recents[i]
            IN  /\ r.name = store.group.name
                /\ ~muted => /\ ToSet(r.members) = ToSet(store.group.members)
                             /\ ToSet(r.push) = ToSet(store.group.members)

\* Each member has as many recents as the list has him: one, unless "Create" was
\* pressed again; none more, and none less but by deleting it himself.
OneRecentEach ==
    Undisturbed /\ ~lost /\ ~muted =>
        \A v \in meant.members :
            LET n == Cardinality({i \in DOMAIN store.recents : i.owner = v})
                m == Occurrences(store.group.members, v)
            IN  n <= m /\ (v \notin gone => n = m)

\* Whoever is picked or invited gets a recent, also when invitations cross and
\* whatever is muted: what the group's document loses, createRecent still gives.
InvitedHaveRecent ==
    Settled /\ meant # Nil /\ ~lost =>
        \A v \in meant.members \ gone : \E i \in DOMAIN store.recents : i.owner = v

=============================================================================
