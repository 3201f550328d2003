------------------------------ MODULE Recents ------------------------------
(***************************************************************************)
(* The recents of one chat room (Class/Recent.swift and its callers).      *)
(*                                                                         *)
(* A recent is the row a user sees in his list of chats: one Firestore     *)
(* document per user and room, with the unread counter and the last        *)
(* message.  There is no server code: every client queries all recents of  *)
(* the room with getDocuments, and when the answer arrives its callback    *)
(* writes documents, those of the other users included.  A query and its   *)
(* callback are two steps here, and a write waits in its client's queue    *)
(* until the server has applied it.                                        *)
(***************************************************************************)
EXTENDS Naturals, Sequences

CONSTANTS Users,      \* the participants of the room
          Budgets     \* kind of room -> bounds of the model: each says how
                      \*   often each operation may be called in a behaviour

Operations ==
    {"start", "row", "send", "back", "delete", "mute", "block", "kill", "fail"}

Kinds == {"private", "group"}     \* kPRIVATE, kGROUP

ASSUME BudgetAssumption == Budgets \in [Kinds -> SUBSET [Operations -> Nat]]

VARIABLES room,       \* the kind of the room
          docs,       \* collection Recent at the server: id -> document
          pending,    \* client -> its queue of writes, in batches (external)
          calls,      \* client -> its getDocuments calls without an answer
          open,       \* client -> is the room's chat screen open?
          used,       \* operation -> how often it was called (for Budgets)
          announced,  \* user -> updateRecents callbacks run by other users
          retired     \* the documents deleted at the server
                      \*   (announced, retired: auxiliary, no action reads them)

vars == <<room, docs, pending, calls, open, used, announced, retired>>

----------------------------------------------------------------------------
(* Documents. document() draws a fresh id.  Here an id names the call that *)
(* made it and kUSERID, which no write ever changes.  Message n is the     *)
(* n-th message sent, 0 is the empty text a new recent starts with.        *)

Id == [creator : Users, by : {"start", "row"}, n : Nat, userId : Users]

NoOne == "no one"     \* a group's recent has no kWITHUSERUSERID

Recent == [members : SUBSET Users, membersToPush : SUBSET Users,
           withUser : Users \cup {NoOne}, lastMessage : Nat, counter : Nat]

\* A private room is one of two users.
ASSUME RoomAssumption ==
    /\ NoOne \notin Users
    /\ Budgets["private"] # {} => \A u, v \in Users : u # v => Users = {u, v}

Others(u) == Users \ {u}

----------------------------------------------------------------------------
(* Firestore, as the code relies on it.  The writes one callback makes go  *)
(* to distinct documents in the order of the answer: they form a batch     *)
(* that the server applies one by one, in any order.                       *)

SetData(id, doc) == [op |-> "set", id |-> id, doc |-> doc]
UpdateMessage(id, msg, n) ==
    [op |-> "message", id |-> id, lastMessage |-> msg, counter |-> n]
UpdateCounter(id, n) == [op |-> "counter", id |-> id, counter |-> n]
UpdatePush(id, list) == [op |-> "push", id |-> id, membersToPush |-> list]
Delete(id) == [op |-> "delete", id |-> id]

Patches == {"message", "counter", "push"}

Queue(u, batch) ==
    IF batch = {} THEN pending
    ELSE [pending EXCEPT ![u] = Append(@, batch)]

\* What a client has queued: its writes of the kinds ops to document id.
Queued(u, ops, id) ==
    {e \in UNION {{j} \X pending[u][j] : j \in DOMAIN pending[u]} :
        e[2].op \in ops /\ e[2].id = id}

\* The newest of them: at most one, since a batch writes a document once.
Newest(S) == {e \in S : \A f \in S : f[1] <= e[1]}

Last(u, ops, id) == (CHOOSE e \in Newest(Queued(u, ops, id)) : TRUE)[2]

QueuedSets(u) ==
    {w \in UNION {pending[u][j] : j \in DOMAIN pending[u]} : w.op = "set"}

\* The documents the answer to a query of client u holds ...
Visible(u) ==
    {id \in DOMAIN docs \cup {w.id : w \in QueuedSets(u)} :
        Queued(u, {"delete"}, id) = {}}

Base(u, id) ==
    IF id \in DOMAIN docs THEN docs[id]
    ELSE (CHOOSE w \in QueuedSets(u) : w.id = id).doc

\* ... and what it reads there: the newest queued write, else the document.
CounterSeen(u, id) ==
    IF Newest(Queued(u, {"message", "counter"}, id)) = {} THEN Base(u, id).counter
    ELSE Last(u, {"message", "counter"}, id).counter

MessageSeen(u, id) ==
    IF Newest(Queued(u, {"message"}, id)) = {} THEN Base(u, id).lastMessage
    ELSE Last(u, {"message"}, id).lastMessage

PushSeen(u, id) ==
    IF Newest(Queued(u, {"push"}, id)) = {} THEN Base(u, id).membersToPush
    ELSE Last(u, {"push"}, id).membersToPush

----------------------------------------------------------------------------
(* Operations the user starts.                                             *)

Spend(ops) ==
    /\ used' = [o \in Operations |-> used[o] + IF o \in ops THEN 1 ELSE 0]
    /\ \E b \in Budgets[room] : \A o \in Operations : used'[o] <= b[o]

\* A call of createRecent; users is its argument of that name.
CreateCall(by, members, users) ==
    [kind |-> "create", by |-> by, n |-> used[by], members |-> members,
     users |-> users]

\* clearRecentCouter, called by viewWillAppear, viewWillDisappear, backAction.
ClearCall(by) == [kind |-> "clear", by |-> by, n |-> used[by]]

Ask(u, C) == calls' = [calls EXCEPT ![u] = @ \cup C]

\* "Message" on a profile (or a contact), "Create" of a group: createRecent
\* for all members, and the chat screen appears.
Start(u) ==
    /\ ~open[u]
    /\ Spend({"start"})
    /\ IF room = "private"
       THEN \E v \in Others(u) :
               Ask(u, {CreateCall("start", {u, v}, <<u, v>>), ClearCall("start")})
       ELSE Ask(u, {CreateCall("start", Users, <<>>), ClearCall("start")})
    /\ open' = [open EXCEPT ![u] = TRUE]
    /\ UNCHANGED <<room, docs, pending, announced, retired>>

\* The rows of u's list: his own recents that have a last message.
Rows(u) ==
    {id \in Visible(u) : id.userId = u /\ MessageSeen(u, id) # 0}

\* Tapping a row: restartRecentChat takes the push list for the members.
OpenRow(u, id) ==
    /\ ~open[u]
    /\ id \in Rows(u)
    /\ Spend({"row"})
    /\ Ask(u, {CreateCall("row", PushSeen(u, id), IF room = "private" THEN <<u>> ELSE <<>>),
               ClearCall("row")})
    /\ open' = [open EXCEPT ![u] = TRUE]
    /\ UNCHANGED <<room, docs, pending, announced, retired>>

\* OutgoingMessages.sendMessage ends in updateRecents.
Send(u) ==
    /\ open[u]
    /\ Spend({"send"})
    /\ Ask(u, {[kind |-> "update", message |-> used["send"] + 1]})
    /\ UNCHANGED <<room, docs, pending, open, announced, retired>>

\* backAction clears the counter, and so does the disappearing screen.
Back(u) ==
    /\ open[u]
    /\ Spend({"back"})
    /\ Ask(u, {ClearCall("back"), [ClearCall("back") EXCEPT !.by = "disappear"]})
    /\ open' = [open EXCEPT ![u] = FALSE]
    /\ UNCHANGED <<room, docs, pending, announced, retired>>

DeleteRow(u, id) ==
    /\ ~open[u]
    /\ id \in Rows(u)
    /\ Spend({"delete"})
    /\ pending' = Queue(u, {Delete(id)})
    /\ UNCHANGED <<room, docs, calls, open, announced, retired>>

\* updatePushMembers: the new list is computed from the row, before the query.
Mute(u, id) ==
    /\ ~open[u]
    /\ id \in Rows(u)
    /\ Spend({"mute"})
    /\ LET list == PushSeen(u, id)
       IN  Ask(u, {[kind |-> "push", n |-> used["mute"],
                    list |-> IF u \in list THEN list \ {u} ELSE list \cup {u}]})
    /\ UNCHANGED <<room, docs, pending, open, announced, retired>>

\* blockButtonPressed calls blockUser when it blocks and when it unblocks.
Block(u) ==
    /\ room = "private"
    /\ Spend({"block"})
    /\ Ask(u, {[kind |-> "erase", n |-> used["block"]]})
    /\ UNCHANGED <<room, docs, pending, open, announced, retired>>

----------------------------------------------------------------------------
(* Callbacks.                                                              *)

Answered(u, c) == calls' = [calls EXCEPT ![u] = @ \ {c}]

\* (Wrong variants of the callbacks, to see the properties fail.)
SwapsPartner(u, owner, users) ==
    IF users = <<>> THEN NoOne
    ELSE IF owner = u THEN users[1] ELSE users[Len(users)]

\* kWITHUSERUSERID: users.last for the current user, users.first for others.
WithUser(u, owner, users) ==
    IF users = <<>> THEN NoOne
    ELSE IF owner = u THEN users[Len(users)] ELSE users[1]

PassesTempMembers(u, owner, c) ==
    LET temp == c.members \ {id.userId : id \in Visible(u)}
    IN  SetData([creator |-> u, by |-> c.by, n |-> c.n, userId |-> owner],
                [members |-> temp, membersToPush |-> temp,
                 withUser |-> WithUser(u, owner, c.users),
                 lastMessage |-> 0, counter |-> 0])

\* createRecentItem
NewRecent(u, owner, c) ==
    SetData([creator |-> u, by |-> c.by, n |-> c.n, userId |-> owner],
            [members |-> c.members, membersToPush |-> c.members,
             withUser |-> WithUser(u, owner, c.users),
             lastMessage |-> 0, counter |-> 0])

\* tempMembers: those of the call's members without a recent in the answer.
Missing(u, members) == members \ {id.userId : id \in Visible(u)}

\* createRecent
Create(u, c) ==
    /\ c.kind = "create"
    /\ Answered(u, c)
    /\ pending' = Queue(u, {NewRecent(u, o, c) : o \in Missing(u, c.members)})
    /\ UNCHANGED <<room, docs, open, used, announced, retired>>

CountsOwnMessages(u, id, msg) == UpdateMessage(id, msg, CounterSeen(u, id) + 1)

CountsFromServer(u, id, msg) ==
    UpdateMessage(id, msg, Base(u, id).counter + IF id.userId # u THEN 1 ELSE 0)

SetsInsteadOfUpdating(u, id, msg) ==
    SetData(id, [Base(u, id) EXCEPT !.lastMessage = msg,
                    !.counter = @ + IF id.userId # u THEN 1 ELSE 0])

\* updateRecentItem
UpdateRecentItem(u, id, msg) ==
    UpdateMessage(id, msg, CounterSeen(u, id) + IF id.userId # u THEN 1 ELSE 0)

UpdatesOnly(u, c, ids) ==
    /\ c.kind = "update"
    /\ Answered(u, c)
    /\ pending' = Queue(u, {UpdateRecentItem(u, id, c.message) : id \in ids})
    /\ announced' = [v \in Users |-> announced[v] + IF v # u THEN 1 ELSE 0]
    /\ UNCHANGED <<room, docs, open, used, retired>>

UpdatesOwnOnly(u, c) == UpdatesOnly(u, c, {id \in Visible(u) : id.userId = u})

SkipsOwnWhenClosed(u, c) ==
    UpdatesOnly(u, c, {id \in Visible(u) : id.userId # u \/ open[u]})

\* updateRecents
Update(u, c) ==
    /\ c.kind = "update"
    /\ Answered(u, c)
    /\ pending' = Queue(u, {UpdateRecentItem(u, id, c.message) : id \in Visible(u)})
    /\ announced' = [v \in Users |-> announced[v] + IF v # u THEN 1 ELSE 0]
    /\ UNCHANGED <<room, docs, open, used, retired>>

\* clearRecentCouter, clearRecentCounterItem
Clear(u, c) ==
    /\ c.kind = "clear"
    /\ Answered(u, c)
    /\ pending' = Queue(u, {UpdateCounter(id, 0) :
                              id \in {i \in Visible(u) : i.userId = u}})
    /\ UNCHANGED <<room, docs, open, used, announced, retired>>

\* updateExistingRecentWithNewValues, updateRecent
Push(u, c) ==
    /\ c.kind = "push"
    /\ Answered(u, c)
    /\ pending' = Queue(u, {UpdatePush(id, c.list) : id \in Visible(u)})
    /\ UNCHANGED <<room, docs, open, used, announced, retired>>

ErasesOwnOnly(u, c) ==
    /\ c.kind = "erase"
    /\ Answered(u, c)
    /\ pending' = Queue(u, {Delete(id) : id \in {i \in Visible(u) : i.userId = u}})
    /\ UNCHANGED <<room, docs, open, used, announced, retired>>

\* getRecentsFor, deleteRecentChat
Erase(u, c) ==
    /\ c.kind = "erase"
    /\ Answered(u, c)
    /\ pending' = Queue(u, {Delete(id) : id \in Visible(u)})
    /\ UNCHANGED <<room, docs, open, used, announced, retired>>

\* The query fails: every callback returns when there is no snapshot.
Fail(u, c) ==
    /\ Spend({"fail"})
    /\ Answered(u, c)
    /\ UNCHANGED <<room, docs, pending, open, announced, retired>>

\* The app is killed: callbacks are lost, queued writes are on disk.
Kill(u) ==
    /\ Spend({"kill"})
    /\ calls' = [calls EXCEPT ![u] = {}]
    /\ open' = [open EXCEPT ![u] = FALSE]
    /\ UNCHANGED <<room, docs, pending, announced, retired>>

----------------------------------------------------------------------------
(* The server applies the writes of one client in their order (external).  *)

Patched(doc, w) ==
    CASE w.op = "message" ->
             [doc EXCEPT !.lastMessage = w.lastMessage, !.counter = w.counter]
      [] w.op = "counter" -> [doc EXCEPT !.counter = w.counter]
      [] w.op = "push" -> [doc EXCEPT !.membersToPush = w.membersToPush]

ApplySet(w) ==
    /\ w.op = "set"
    /\ docs' = [id \in DOMAIN docs \cup {w.id} |->
                   IF id = w.id THEN w.doc ELSE docs[id]]

ApplyPatch(w) ==
    /\ w.op \in Patches
    /\ w.id \in DOMAIN docs
    /\ docs' = [docs EXCEPT ![w.id] = Patched(@, w)]

\* updateData of a document that does not exist is rejected.
RejectPatch(w) ==
    /\ w.op \in Patches
    /\ w.id \notin DOMAIN docs
    /\ UNCHANGED <<room, docs>>

ApplyDelete(w) ==
    /\ w.op = "delete"
    /\ docs' = [id \in DOMAIN docs \ {w.id} |-> docs[id]]

Apply(w) == ApplySet(w) \/ ApplyPatch(w) \/ RejectPatch(w) \/ ApplyDelete(w)

Serve(u) ==
    /\ pending[u] # <<>>
    /\ \E w \in Head(pending[u]) :
          /\ Apply(w)
          /\ pending' = [pending EXCEPT ![u] =
                IF Head(@) = {w} THEN Tail(@) ELSE <<Head(@) \ {w}>> \o Tail(@)]
    /\ retired' = retired \cup (DOMAIN docs \ DOMAIN docs')
    /\ UNCHANGED <<room, calls, open, used, announced>>

----------------------------------------------------------------------------
Init ==
    /\ room \in {k \in Kinds : Budgets[k] # {}}
    /\ docs = <<>>
    /\ pending = [u \in Users |-> <<>>]
    /\ calls = [u \in Users |-> {}]
    /\ open = [u \in Users |-> FALSE]
    /\ used = [o \in Operations |-> 0]
    /\ announced = [u \in Users |-> 0]
    /\ retired = {}

Operation(u) ==
    \/ Start(u)
    \/ Send(u)
    \/ Back(u)
    \/ Block(u)
    \/ Kill(u)
    \/ \E id \in Rows(u) : OpenRow(u, id) \/ DeleteRow(u, id) \/ Mute(u, id)

Callback(u) ==
    \E c \in calls[u] :
        Create(u, c) \/ Update(u, c) \/ Clear(u, c) \/ Push(u, c) \/ Erase(u, c)

Next ==
    \E u \in Users :
        \/ Operation(u)
        \/ Callback(u)
        \/ \E c \in calls[u] : Fail(u, c)
        \/ Serve(u)

Spec == Init /\ [][Next]_vars

\* Every query is answered and every queued write reaches the server.
Fairness == \A u \in Users : WF_vars(Callback(u)) /\ WF_vars(Serve(u))

FairSpec == Spec /\ Fairness

----------------------------------------------------------------------------
(* Properties.                                                             *)

Call == [kind : {"create"}, by : {"start", "row"}, n : Nat,
         members : SUBSET Users, users : Seq(Users)]
        \cup [kind : {"update"}, message : Nat \ {0}]
        \cup [kind : {"clear"}, by : {"start", "row", "back", "disappear"}, n : Nat]
        \cup [kind : {"push"}, n : Nat, list : SUBSET Users]
        \cup [kind : {"erase"}, n : Nat]

Write == [op : {"set"}, id : Id, doc : Recent]
         \cup [op : {"message"}, id : Id, lastMessage : Nat, counter : Nat]
         \cup [op : {"counter"}, id : Id, counter : Nat]
         \cup [op : {"push"}, id : Id, membersToPush : SUBSET Users]
         \cup [op : {"delete"}, id : Id]

Batch == (SUBSET Write) \ {{}}

\* The types of the documents, the queues and the calls of Class/Recent.swift.
TypeOK ==
    /\ room \in Kinds
    /\ DOMAIN docs \subseteq Id
    /\ \A id \in DOMAIN docs : docs[id] \in Recent
    /\ pending \in [Users -> Seq(Batch)]
    /\ calls \in [Users -> SUBSET Call]
    /\ open \in [Users -> BOOLEAN]
    /\ used \in [Operations -> Nat]
    /\ announced \in [Users -> Nat]
    /\ retired \subseteq Id

\* The unread counter is read, increased and written back by other clients,
\* and reset by its owner, with no transaction.  Increments can be lost that
\* way, but a counter never shows more messages than the others announced.
UnreadNeverOvercounts ==
    /\ \A id \in DOMAIN docs : docs[id].counter <= announced[id.userId]
    /\ \A u \in Users : \A j \in DOMAIN pending[u] : \A w \in pending[u][j] :
          w.op \in {"message", "counter"} => w.counter <= announced[w.id.userId]

\* A burst of messages from one client, sent before the server has applied
\* anything, counts each message: every queued increment of another user's
\* counter is one more than the queued one before it.
BurstCountedExactly ==
    \A u \in Users : \A j, k \in DOMAIN pending[u] :
        \A v \in pending[u][j], w \in pending[u][k] :
            ( /\ v.op = "message" /\ w.op = "message"
              /\ v.id = w.id /\ v.id.userId # u
              /\ j < k
              /\ \A e \in Queued(u, {"message"}, v.id) : e[1] <= j \/ k <= e[1] )
            => w.counter = v.counter + 1

\* restartRecentChat passes the push list where createRecent wants the members:
\* a recent without some participant only comes from a chat somebody muted.
MembersCompleteUnlessMuted ==
    used["mute"] = 0 => \A id \in DOMAIN docs : docs[id].members = Users

\* restartRecentChat passes users: [me]: if my own recent vanished between the
\* tap and the callback, it is created again as a chat with myself.  Nothing
\* but a deletion that overtakes the callback brings that about.
PartnerIsTheOther ==
    used["delete"] + used["block"] = 0 =>
        \A id \in DOMAIN docs : docs[id].withUser # id.userId

\* updateRecents writes all recents of the room: as long as one user sends, all
\* recents agree on the last message once no write is under way, those apart
\* that were created after it.  (Two senders' writes can cross.)
Quiet == \A u \in Users : pending[u] = <<>>

AgreeOnLastMessage ==
    Quiet /\ (\E u \in Users : announced[u] = 0) =>
        \A i, j \in DOMAIN docs :
            docs[i].lastMessage = docs[j].lastMessage
            \/ 0 \in {docs[i].lastMessage, docs[j].lastMessage}

\* Every step at the server is one the board allows: rows are put up fresh and
\* empty, once per creator and owner; updateData never resurrects a deleted one.
Board == INSTANCE RecentBoard WITH
    Users <- Users, Id <- Id,
    docs <- docs, announced <- announced, retired <- retired
BoardSpec == Board!Spec

\* Documents that the bounded model can create.
BoundedId ==
    UNION {{id \in [creator : Users, by : {"start", "row"},
                    n : 0..(b["start"] + b["row"]), userId : Users] :
                id.n < b[id.by]} : b \in Budgets["private"] \cup Budgets["group"]}

Asked(kind) == \E u \in Users : \E c \in calls[u] : c.kind = kind

\* A message sent while a recent exists shows in it, unless it is deleted:
\* without that the room stays hidden from its owner's list of chats.
SentIsShown ==
    \A id \in BoundedId :
        (id \in DOMAIN docs /\ Asked("update"))
            ~> (id \notin DOMAIN docs \/ docs[id].lastMessage # 0)

\* Blocking (and unblocking) a user removes every recent of the private room,
\* his own included, in whatever order the writes arrive.
BlockErases ==
    \A id \in BoundedId :
        (id \in DOMAIN docs /\ Asked("erase")) ~> id \notin DOMAIN docs
=============================================================================
