------------------------------ MODULE Messages ------------------------------
(***************************************************************************)
(* The messages of one chat room: OutgoingMessages.swift and the message   *)
(* lists of ChatViewController.swift.                                      *)
(*                                                                         *)
(* A message is written once per member, into a mailbox of his own         *)
(* (Message/<member>/<room>/<id>).  A chat screen reads its user's mailbox *)
(* with three queries that share it out by date: the last messages, what   *)
(* is newer (a listener), what is older.  Displaying a message of someone  *)
(* else marks everybody's copy as read.                                    *)
(*                                                                         *)
(* A date is text made from the sender's wall clock, to the second: here   *)
(* time plus the sender's time zone.  A picture carries the date of the    *)
(* moment it was chosen and is sent when its upload is done.               *)
(***************************************************************************)
EXTENDS Integers, Sequences, FiniteSets

CONSTANTS Users,
          Limit,         \* the initial load asks for so many (11 in the code)
          MaxMessages, MaxScreens,     \* bounds of the model
          Scenarios      \* what is checked: settings of the users and bounds

AllKinds == {"text", "media", "location"}
Deeds == AllKinds \cup {"open", "more", "delete", "leave", "cover"}
Faults == {"app", "query", "upload", "receipt", "answer"}

ASSUME LimitAssumption == Limit \in Nat \ {0, 1}
ASSUME BoundAssumption == {MaxMessages, MaxScreens} \subseteq Nat
ASSUME ScenarioAssumption ==
    \A c \in Scenarios :
        /\ c.zone \in [Users -> Nat]        \* how far a user's wall clock is ahead
        /\ c.push \subseteq SUBSET Users    \* what membersToPush can be at opening
        /\ c.messages \in 0..MaxMessages /\ c.screens \in 0..MaxScreens
        /\ c.time \in Nat
        /\ c.lost \in Nat                   \* how many of the Faults happen
        /\ c.faults \subseteq Faults
        /\ c.does \in [Users -> SUBSET Deeds]

Msg == 1..MaxMessages
Screen == Users \X (1..MaxScreens)
UserOf(s) == s[1]
Page == Limit - 1              \* kNUMBEROFMESSAGES

VARIABLES
    time,       \* seconds
    log,        \* the messages composed, in order: sender, kind, date
    box,        \* user -> his mailbox at the server: message -> status
    pending,    \* user -> his queue of writes, in batches (external)
    ahead,      \* user -> batches of it applied whose answers are lost (external)
    uploads,    \* user -> pictures, videos, recordings being uploaded
    receipts,   \* user -> read receipts whose getDocument is under way
    screen,     \* chat screens (view controllers), also those already closed
    deleted,    \* user -> messages he deleted        (auxiliary)
    outlived,   \* ... while another screen of his had them loaded (auxiliary)
    seen,       \* user -> messages shown to him      (auxiliary)
    unseen,     \* user -> messages a screen of his took in that was covered or
                \*         had been left while loading      (auxiliary)
    lost,       \* failures so far
    repeated,   \* messages of which a write was sent twice (auxiliary)
    scenario    \* one of Scenarios

server == <<box, pending, ahead>>
removed == <<deleted, outlived>>
shown == <<seen, unseen>>
bounded == <<lost, repeated, scenario>>
vars == <<time, log, box, pending, ahead, uploads, receipts, screen, removed, shown, bounded>>

Date(m) == log[m].date
Sender(m) == log[m].sender
Composed == DOMAIN log

\* One of the faults of the scenario happens.
Fails(what) ==
    /\ what \in scenario.faults /\ lost < scenario.lost
    /\ lost' = lost + 1
    /\ UNCHANGED scenario

----------------------------------------------------------------------------
(* Firestore: queued writes, and what a client's query shows (external).   *)

Queue(u, batch) ==
    pending' = IF batch = {} THEN pending
               ELSE [pending EXCEPT ![u] = Append(@, batch)]

Writes(u) == UNION {pending[u][j] : j \in DOMAIN pending[u]}

Set(v, m) == [op |-> "set", to |-> v, msg |-> m]
\* Wrong variant: the receipt writes the document it read back as a whole.
WriteBack(v, m) == Set(v, m)

MarkRead(v, m) == [op |-> "read", to |-> v, msg |-> m]
Remove(v, m) == [op |-> "delete", to |-> v, msg |-> m]

\* What client u sees in the mailbox of v, and whether as read.
Visible(u, v) ==
    {m \in DOMAIN box[v] \cup {n \in Composed : Set(v, n) \in Writes(u)} :
        Remove(v, m) \notin Writes(u)}

SeenRead(u, v, m) ==
    (m \in DOMAIN box[v] /\ box[v][m] = "read") \/ MarkRead(v, m) \in Writes(u)

\* The n newest messages of S.  Which of two with one date is undetermined.
Newest(S, n) ==
    {N \in SUBSET S : /\ Cardinality(N) = IF Cardinality(S) < n THEN Cardinality(S) ELSE n
                      /\ \A x \in N, y \in S \ N : Date(x) >= Date(y)}

----------------------------------------------------------------------------
(* Screens.  open: on the navigation stack.  covered: a profile, the group, *)
(* the pictures or a map lie over it, or the app is in the background.      *)
(* rows counts how often a message is listed, asRead holds those whose      *)
(* entry in objectMessages has status kREAD.                                *)

NoScreen == [phase |-> "none", open |-> FALSE, covered |-> FALSE, push |-> {}, from |-> 0,
             listened |-> {}, earlier |-> {}, history |-> "none",
             rows |-> [m \in Msg |-> 0], asRead |-> {}]

\* Screen s alone changes, to r.
Becomes(s, r) == screen' = [screen EXCEPT ![s] = r]

InView(s) == screen[s].open /\ ~screen[s].covered

\* The messages a screen has loaded, on display or not.
Held(r) == {m \in Msg : r.rows[m] > 0} \cup r.earlier

\* viewDidLoad: updatedChatListener is set up, the last messages are queried.
\* A chat that is covered may be opened again on top, from the profile.
Open(s) ==
    /\ "open" \in scenario.does[UserOf(s)]
    /\ s[2] <= scenario.screens
    /\ screen[s].phase = "none"
    /\ \A k \in 1..MaxScreens : ~InView(<<UserOf(s), k>>)
    /\ \A k \in 1..MaxScreens : k < s[2] => screen[<<UserOf(s), k>>].phase # "none"
    /\ \E push \in scenario.push :
          Becomes(s, [NoScreen EXCEPT !.phase = "loading", !.open = TRUE, !.push = push])
    /\ UNCHANGED <<time, log, server, uploads, receipts, removed, shown, bounded>>

\* insertInitialLoadMessages for the messages of S: a row each, and for those
\* of others updateMessage, a getDocument for each of membersToPush.
Rows(s, S) == [m \in Msg |-> screen[s].rows[m] + IF m \in S THEN 1 ELSE 0]

ReadIn(u, S) == {m \in S : SeenRead(u, u, m)}

\* Wrong variant: own messages get read receipts too.
Everything(u, S) == S

Incoming(u, S) == {m \in S : Sender(m) # u}

Display(s, S) ==
    LET u == UserOf(s)
    IN  /\ receipts' = [receipts EXCEPT ![u] = @ \cup (screen[s].push \X Incoming(u, S))]
        /\ IF InView(s)
           THEN seen' = [seen EXCEPT ![u] = @ \cup S] /\ UNCHANGED unseen
           ELSE unseen' = [unseen EXCEPT ![u] = @ \cup S] /\ UNCHANGED seen

\* The date of the last message of L, "0" if there is none.
Latest(L) ==
    IF L = {} THEN {0}
    ELSE {d \in {Date(m) : m \in L} : \A m \in L : d >= Date(m)}

\* loadMessages: of the last Limit messages all but one are inserted; when
\* there may be older ones they are fetched; the listener for new ones starts
\* behind the last one loaded.
Loaded(s) ==
    LET u == UserOf(s)
    IN  /\ screen[s].phase = "loading"
        /\ \E L \in Newest(Visible(u, u), Limit) : \E S \in Newest(L, Page) :
              /\ Display(s, S)
              /\ \E newest \in Latest(L) :
                    Becomes(s,
                        [screen[s] EXCEPT !.phase = "listening",
                                          !.rows = Rows(s, S),
                                          !.asRead = ReadIn(u, S),
                                          !.from = newest,
                                          !.earlier = L \ S,
                                          !.history = IF L \ S = {} THEN "none" ELSE "asked"])
        /\ UNCHANGED <<time, log, server, uploads, removed, bounded>>

\* No snapshot: nothing is loaded, the listener starts at date "0".
LoadFailed(s) ==
    /\ screen[s].phase = "loading"
    /\ Fails("query")
    /\ Becomes(s, [screen[s] EXCEPT !.phase = "listening"])
    /\ UNCHANGED <<time, log, server, uploads, receipts, removed, shown, repeated>>

\* getOldmessagesInBackground: what is older than the oldest loaded.
HistoryLoaded(s) ==
    LET u == UserOf(s)
    IN  /\ screen[s].history = "asked"
        /\ Becomes(s,
              [screen[s] EXCEPT !.history = "loaded",
                                !.earlier = @ \cup {m \in Visible(u, u) :
                                                       \A e \in @ : Date(m) < Date(e)}])
        /\ UNCHANGED <<time, log, server, uploads, receipts, removed, shown, bounded>>

\* loadMoreMessages: another Page + 1 rows, and no read receipts.
LoadMore(s) ==
    /\ "more" \in scenario.does[UserOf(s)]
    /\ InView(s) /\ screen[s].history = "loaded"
    /\ \E S \in Newest(screen[s].earlier, Page + 1) :
          /\ S # {}
          /\ Becomes(s, [screen[s] EXCEPT !.rows = Rows(s, S),
                                          !.asRead = @ \cup ReadIn(UserOf(s), S),
                                          !.earlier = @ \ S])
          /\ seen' = [seen EXCEPT ![UserOf(s)] = @ \cup S]
    /\ UNCHANGED <<time, log, server, uploads, receipts, removed, unseen, bounded>>

\* Wrong variant: the listener starts at the last one loaded.
AddedSince(s) ==
    {m \in Visible(UserOf(s), UserOf(s)) : Date(m) >= screen[s].from} \ screen[s].listened

\* Wrong variant: it looks for messages of others only.
AddedByOthers(s) ==
    {m \in Visible(UserOf(s), UserOf(s)) : /\ Date(m) > screen[s].from
                                           /\ Sender(m) # UserOf(s)} \ screen[s].listened

\* listenForNewChats: documents that appear in the query of newChatListener.
Added(s) ==
    {m \in Visible(UserOf(s), UserOf(s)) : Date(m) > screen[s].from} \ screen[s].listened

NewChats(s) ==
    /\ screen[s].phase = "listening"
    /\ Added(s) # {}
    /\ Display(s, Added(s))
    /\ Becomes(s, [screen[s] EXCEPT !.rows = Rows(s, Added(s)),
                                    !.asRead = @ \cup ReadIn(UserOf(s), Added(s)),
                                    !.listened = @ \cup Added(s)])
    /\ UNCHANGED <<time, log, server, uploads, removed, bounded>>

\* updateMessage compares the entry with the modified document (==), so no
\* entry of objectMessages changes.
UpdateMessage(asRead, modified) == asRead

\* updatedChatListener: a copy on display was modified, its entry did not change.
Updated(s) ==
    LET u == UserOf(s)
        modified == {m \in Visible(u, u) : /\ screen[s].rows[m] > 0
                                            /\ SeenRead(u, u, m)
                                            /\ m \notin screen[s].asRead}
    IN  /\ screen[s].open
        /\ modified # {}
        /\ Becomes(s, [screen[s] EXCEPT !.asRead = UpdateMessage(@, modified)])
        /\ UNCHANGED <<time, log, server, uploads, receipts, removed, shown, bounded>>

\* didDeleteMessageAt: the row goes, and the user's own copy.  Another screen
\* of his, covered by this one, keeps what it has loaded.
Delete(s, m) ==
    /\ "delete" \in scenario.does[UserOf(s)]
    /\ InView(s)
    /\ screen[s].rows[m] > 0
    /\ screen' = [t \in Screen |->
          IF UserOf(t) # UserOf(s) THEN screen[t]
          ELSE [screen[t] EXCEPT !.rows[m] = IF t = s THEN @ - 1 ELSE @,
                                 !.listened = @ \ {m}]]
    /\ Queue(UserOf(s), {Remove(UserOf(s), m)})
    /\ deleted' = [deleted EXCEPT ![UserOf(s)] = @ \cup {m}]
    /\ outlived' = IF \E t \in Screen \ {s} : /\ UserOf(t) = UserOf(s) /\ screen[t].open
                                              /\ m \in Held(screen[t])
                   THEN [outlived EXCEPT ![UserOf(s)] = @ \cup {m}] ELSE outlived
    /\ UNCHANGED <<time, log, box, ahead, uploads, receipts, shown, bounded>>

\* backAction: the listeners there are are removed.  A load that is still
\* under way will set up its listener for new messages on the closed screen.
Back(s) ==
    /\ "leave" \in scenario.does[UserOf(s)]
    /\ InView(s)
    /\ Becomes(s, IF screen[s].phase = "loading" THEN [screen[s] EXCEPT !.open = FALSE]
                  ELSE [NoScreen EXCEPT !.phase = "closed"])
    /\ UNCHANGED <<time, log, server, uploads, receipts, removed, shown, bounded>>

\* infoButtonPressed, showGroup, showUserProfile, presentUserProfile, a map, or
\* the home button: the listeners stay, and so do the queries under way.
Cover(s) ==
    /\ "cover" \in scenario.does[UserOf(s)]
    /\ InView(s)
    /\ Becomes(s, [screen[s] EXCEPT !.covered = TRUE])
    /\ UNCHANGED <<time, log, server, uploads, receipts, removed, shown, bounded>>

\* What covered the chat has gone: the user sees what it lists by now.
Uncover(s) ==
    /\ screen[s].open /\ screen[s].covered
    /\ \A k \in 1..MaxScreens : k > s[2] => ~screen[<<UserOf(s), k>>].open
    /\ Becomes(s, [screen[s] EXCEPT !.covered = FALSE])
    /\ seen' = [seen EXCEPT ![UserOf(s)] = @ \cup {m \in Msg : screen[s].rows[m] > 0}]
    /\ UNCHANGED <<time, log, server, uploads, receipts, removed, unseen, bounded>>

----------------------------------------------------------------------------
(* Sending.                                                                *)

Compose(u, kind, date) ==
    /\ Len(log) < scenario.messages
    /\ log' = Append(log, [sender |-> u, kind |-> kind, date |-> date])

\* OutgoingMessages.sendMessage: one copy for each member.
\* Wrong variant: the id of the message sent before is used again.
SameId == IF log = <<>> THEN 1 ELSE Len(log)

NewId == Len(log) + 1          \* UUID().uuidString

Members(u) == Users

SendToAll(u) == Queue(u, {Set(v, NewId) : v \in Members(u)})

Now(u) == time + scenario.zone[u]

Visibly(u) == \E k \in 1..MaxScreens : InView(<<u, k>>)

SendText(u) ==
    /\ "text" \in scenario.does[u] /\ Visibly(u)
    /\ Compose(u, "text", Now(u))
    /\ SendToAll(u)
    /\ UNCHANGED <<time, box, ahead, uploads, receipts, screen, removed, shown, bounded>>

\* The date is taken before the upload starts.
StartUpload(u) ==
    /\ "media" \in scenario.does[u] /\ Visibly(u)
    /\ Now(u) \notin uploads[u]
    /\ uploads' = [uploads EXCEPT ![u] = @ \cup {Now(u)}]
    /\ UNCHANGED <<time, log, server, receipts, screen, removed, shown, bounded>>

Uploaded(u, date) ==
    /\ Compose(u, "media", date)
    /\ SendToAll(u)
    /\ uploads' = [uploads EXCEPT ![u] = @ \ {date}]
    /\ UNCHANGED <<time, box, ahead, receipts, screen, removed, shown, bounded>>

\* The upload fails: completion is not called, or called without a link.
UploadFailed(u, date) ==
    /\ Fails("upload")
    /\ uploads' = [uploads EXCEPT ![u] = @ \ {date}]
    /\ UNCHANGED <<time, log, server, receipts, screen, removed, shown, repeated>>

\* The branch of a location composes the message and returns.
SendLocation(u) ==
    /\ "location" \in scenario.does[u] /\ Visibly(u)
    /\ Compose(u, "location", Now(u))
    /\ UNCHANGED <<time, server, uploads, receipts, screen, removed, shown, bounded>>

----------------------------------------------------------------------------
(* Read receipts, the app, the server, time.                               *)

\* Wrong variant: the reader's own copy is marked, whichever was asked for.
OwnReceipt(u, v, m) ==
    /\ receipts' = [receipts EXCEPT ![u] = @ \ {<<v, m>>}]
    /\ Queue(u, IF m \in Visible(u, v) THEN {MarkRead(u, m)} ELSE {})
    /\ UNCHANGED <<time, log, box, ahead, uploads, screen, removed, shown, bounded>>

\* updateMessage: the copy is marked if the query found it.
Receipt(u, v, m) ==
    /\ receipts' = [receipts EXCEPT ![u] = @ \ {<<v, m>>}]
    /\ Queue(u, IF m \in Visible(u, v) THEN {MarkRead(v, m)} ELSE {})
    /\ UNCHANGED <<time, log, box, ahead, uploads, screen, removed, shown, bounded>>

ReceiptFailed(u, v, m) ==
    /\ Fails("receipt")
    /\ receipts' = [receipts EXCEPT ![u] = @ \ {<<v, m>>}]
    /\ UNCHANGED <<time, log, server, uploads, screen, removed, shown, repeated>>

\* The app is killed: screens, uploads and callbacks are gone, writes are not.
Kill(u) ==
    /\ Fails("app")
    /\ screen' = [s \in Screen |->
          IF UserOf(s) = u /\ screen[s].phase # "none"
          THEN [NoScreen EXCEPT !.phase = "closed"] ELSE screen[s]]
    /\ uploads' = [uploads EXCEPT ![u] = {}]
    /\ receipts' = [receipts EXCEPT ![u] = {}]
    /\ UNCHANGED <<time, log, server, removed, shown, repeated>>

\* setData writes, updateData of a missing document is rejected, delete deletes.
Applied(mail, w) ==
    IF w.op = "set"
    THEN [m \in DOMAIN mail \cup {w.msg} |-> IF m = w.msg THEN "delivered" ELSE mail[m]]
    ELSE IF w.op = "read"
    THEN [m \in DOMAIN mail |-> IF m = w.msg THEN "read" ELSE mail[m]]
    ELSE [m \in DOMAIN mail \ {w.msg} |-> mail[m]]

Serve(u) ==
    /\ pending[u] # <<>> /\ ahead[u] = 0
    /\ \E w \in Head(pending[u]) :
          /\ box' = [box EXCEPT ![w.to] = Applied(@, w)]
          /\ pending' = [pending EXCEPT ![u] =
                IF Head(@) = {w} THEN Tail(@) ELSE <<Head(@) \ {w}>> \o Tail(@)]
    /\ UNCHANGED <<time, log, ahead, uploads, receipts, screen, removed, shown, bounded>>

\* What a batch leaves in the mailboxes: it has one write for each at most.
Delivered(batch) ==
    [v \in Users |-> LET mine == {w \in batch : w.to = v}
                     IN  IF mine = {} THEN box[v]
                         ELSE Applied(box[v], CHOOSE w \in mine : TRUE)]

\* The connection breaks with the answers to the first batches: the server has
\* applied them one after the other ...
TakeUnanswered(u) ==
    /\ ahead[u] < Len(pending[u])
    /\ \/ ahead[u] = 0 /\ Fails("answer")
       \/ ahead[u] > 0 /\ UNCHANGED <<lost, scenario>>
    /\ LET batch == pending[u][ahead[u] + 1]
       IN  /\ box' = Delivered(batch)
           /\ repeated' = repeated \cup {w.msg : w \in batch}
    /\ ahead' = [ahead EXCEPT ![u] = @ + 1]
    /\ UNCHANGED <<time, log, pending, uploads, receipts, screen, removed, shown>>

\* ... and the client sends them again.
Reconnect(u) ==
    /\ ahead[u] > 0
    /\ ahead' = [ahead EXCEPT ![u] = 0]
    /\ UNCHANGED <<time, log, box, pending, uploads, receipts, screen, removed, shown, bounded>>

Tick ==
    /\ time < scenario.time
    /\ time' = time + 1
    /\ UNCHANGED <<log, server, uploads, receipts, screen, removed, shown, bounded>>

----------------------------------------------------------------------------
Init ==
    /\ time = 1
    /\ log = <<>>
    /\ box = [u \in Users |-> [m \in {} |-> "delivered"]]
    /\ pending = [u \in Users |-> <<>>]
    /\ ahead = [u \in Users |-> 0]
    /\ uploads = [u \in Users |-> {}]
    /\ receipts = [u \in Users |-> {}]
    /\ screen = [s \in Screen |-> NoScreen]
    /\ deleted = [u \in Users |-> {}] /\ outlived = [u \in Users |-> {}]
    /\ seen = [u \in Users |-> {}] /\ unseen = [u \in Users |-> {}]
    /\ lost = 0
    /\ repeated = {}
    /\ scenario \in Scenarios

ScreenEvent(s) == Loaded(s) \/ HistoryLoaded(s) \/ NewChats(s) \/ Updated(s)

UserAction(u) ==
    \/ SendText(u) \/ StartUpload(u) \/ SendLocation(u)
    \/ \E k \in 1..MaxScreens :
          LET s == <<u, k>>
          IN  Open(s) \/ LoadMore(s) \/ Back(s) \/ Cover(s) \/ Uncover(s)
              \/ \E m \in Msg : Delete(s, m)

Failure(u) ==
    \/ Kill(u)
    \/ \E k \in 1..MaxScreens : LoadFailed(<<u, k>>)
    \/ \E date \in uploads[u] : UploadFailed(u, date)
    \/ TakeUnanswered(u)
    \/ \E r \in receipts[u] : ReceiptFailed(u, r[1], r[2])

Next ==
    \/ Tick
    \/ \E u \in Users :
          \/ UserAction(u)
          \/ Failure(u)
          \/ \E date \in uploads[u] : Uploaded(u, date)
          \/ \E r \in receipts[u] : Receipt(u, r[1], r[2])
          \/ Serve(u) \/ Reconnect(u)
    \/ \E s \in Screen : ScreenEvent(s)

Spec == Init /\ [][Next]_vars

\* Queries and listeners answer, queued writes reach the server.
Fairness ==
    /\ \A u \in Users : WF_vars(Serve(u)) /\ WF_vars(Reconnect(u))
    /\ \A u \in Users : WF_vars(\E r \in receipts[u] : Receipt(u, r[1], r[2]))
    /\ \A s \in Screen :
          WF_vars(NewChats(s)) /\ WF_vars(Loaded(s)) /\ WF_vars(Updated(s))

FairSpec == Spec /\ Fairness

----------------------------------------------------------------------------
(* Properties.                                                             *)

\* Three queries fill one list, the listener while the other two may still be
\* under way, dates tie, and a message that was deleted may come back when its
\* write is repeated: yet no screen on the user's stack lists one twice, unless
\* he deleted it from another screen of the chat lying over this one.
NoRowTwice ==
    \A s \in Screen : screen[s].open =>
        \A m \in Msg \ outlived[UserOf(s)] : screen[s].rows[m] <= 1

\* A message its user deleted is never in his view or on his screens again,
\* though a read receipt for it may still be under way on any client; only a
\* copy the sender's client sends a second time brings it back, and a second
\* screen of the chat, below the one it was deleted from, keeps its row.
DeletedStaysDeleted ==
    \A u \in Users : \A m \in deleted[u] \ repeated :
        /\ m \notin Visible(u, u)
        /\ \A k \in 1..MaxScreens :
              screen[<<u, k>>].open => screen[<<u, k>>].rows[m] = 0 \/ m \in outlived[u]

\* Whoever's receipts marked it, and however late: a message is marked read
\* only after a chat screen of another user than its sender took it in.  It
\* need not have been seen: the screen may have been covered, or left while it
\* was loading (its listener then lives on), and the receipt goes out as well.
TakenIn(m) == \E v \in Users : v # Sender(m) /\ m \in seen[v] \cup unseen[v]

ReadMeansTakenIn ==
    \A u \in Users : \A m \in DOMAIN box[u] : box[u][m] = "read" => TakenIn(m)

\* A copy is never set back from read to delivered, neither by the sender's
\* late write nor by the receipts of several readers, unless the sender's
\* client sent it a second time.
ReadStaysRead ==
    [][\A u \in Users : \A m \in DOMAIN box[u] \cap DOMAIN box'[u] :
          box[u][m] = "read" => box'[u][m] = "read" \/ m \in repeated']_<<box, repeated>>

\* The comments "to update message status" and "update local message" name
\* what the listener of modified messages is for: once a copy is marked read,
\* the entry of its row is brought up to date.
LocalMessageUpdated ==
    \A s \in Screen : \A m \in Msg :
        (screen[s].open /\ screen[s].rows[m] > 0 /\ m \in DOMAIN box[UserOf(s)]
         /\ box[UserOf(s)][m] = "read")
        ~> (m \in screen[s].asRead \/ screen[s].rows[m] = 0 \/ ~screen[s].open)

\* A message that is in the mailbox, dated behind the screen's last loaded
\* one, gets onto the screen.
Behind(s) == {m \in DOMAIN box[UserOf(s)] : Date(m) > screen[s].from}

ArrivedIsShown ==
    \A s \in Screen : \A m \in Msg :
        (screen[s].open /\ screen[s].phase = "listening" /\ m \in Behind(s))
        ~> (screen[s].rows[m] > 0 \/ ~screen[s].open \/ m \in deleted[UserOf(s)])

\* A receipt for the sender's own copy whose getDocument is answered after that
\* copy has reached the server marks it, unless the sender deletes it or the
\* call fails.  (Answered before, the copy does not exist for the reader: the
\* receipt is dropped for good, and the copy may stay unread though the message
\* was shown.  That order is excluded here, nothing in the code prevents it.)
Unmarked(m) == m \in Composed /\ m \in {n \in DOMAIN box[Sender(m)] : box[Sender(m)][n] # "read"}

ReceiptMarksRead ==
    \A u \in Users : \A m \in Msg :
        (Unmarked(m) /\ m \in {n \in Composed : <<Sender(n), n>> \in receipts[u]})
        ~> (~Unmarked(m) \/ lost > 0)
=============================================================================
