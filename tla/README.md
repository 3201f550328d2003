# liChat in TLA+

liChat is an iOS messenger (Swift, `src/liChat/liChat`, about 6 900 lines of its
own). It has no server code and no tests: clients read and write shared Firestore
documents, and every rule of the protocol lives in queries, listeners and their
callbacks. That is what most of these modules model. Everything under `Pods` is
vendored, 98% of the lines of the repository (so the modules stand for a small share of
all its lines and for most of its own); one library decides what the app's own
protocol is worth, the Firestore client, and the path of a write through it is
modelled too. Paths below are relative to `src/liChat/liChat`, those of the Firestore client to
`src/liChat/Pods/FirebaseFirestore/Firestore`.

## The system

All callbacks run on the main queue, so one client's handlers never overlap; what
interleaves is *handlers of several clients, answers that are under way, and
writes that wait in a client's queue*. A Firestore client shows its own queued
writes in its queries at once; the server applies each client's queue in order and
mixes the clients'. `setData` replaces a document, `updateData` is rejected when
there is none, `delete` deletes. In the modules of the app these facts are taken from how
the code relies on them and marked external in `PROJECT.json`; FirestoreClient derives
them from the client's code, and shows where they are weaker: after a lost connection
the server may apply a write twice. Messages has that as a fault (`TakeUnanswered`); Recents, Session
and Groups take the queue to be applied once, the case with no connection lost.

| Component | State | Operations | Interacts with | What makes it hard |
|---|---|---|---|---|
| **Recents** `Class/Recent.swift`, `MainView/ChatsViewController.swift` | one document per user and room: members, push list, partner, last message, unread counter | create, restart, update on sending, clear counter, delete, mute, block | called by chat screens, profile, user lists, groups | read-modify-write with no transaction; every client writes everybody's document; deletion against late answers |
| **Messages** `Class/OutgoingMessages.swift`, `SecondaryView/ChatViewController.swift` | a mailbox per user and room; per screen: rows, three queries, listeners; uploads | send (six kinds), load, listen, mark read, delete, leave | sends `updateRecents` and pushes; the push list of a recent decides whose copies are marked read | three queries fill one list; dates are local wall-clock text to the second; receipts race deletion; screens left while loading, covered by others, opened twice |
| **ChatPaging** same file | `loadedMessages`, four counters, the header | first page, older messages, more pages | gets the answers of Messages' queries | index arithmetic across two callbacks |
| **Session** `Class/FUser.swift`, `AppDelegate.swift`, `WelcomeView`, `SettingsView` | signed-in account, copy in UserDefaults, user document, push id | sign in, register, cancel, update, block, unblock, log out, delete account | block list is read by Recents' callers | updates started before and ended after a sign-out; overlapping updates of one dictionary; rows and answers that outlive what they show |
| **Groups** `Class/Group.swift`, group and invite screens | group document, members, push list | create, rename, invite | creates recents for new members, updates the others | stale read-modify-write of member lists |
| **Typing** `ChatViewController.swift` 757-800 | a document per room, a counter of timers | open, type, timer, close | same screen | the first observer replaces the document; overlapping timers outlive their screens |
| **Push ids** `Class/PushNotifications.swift`, `FUser.getUsersFromFirestore` | a counter of answers | ask, answer | called on every send | completion by counting, never or several times with missing users |
| **Media** `Helpers/Downloader.swift`, `Class/IncomingMessages.swift` | files in the documents directory, downloads, items | upload, display, download | delays sending | file names by second; downloads of several items into one file |
| **Chat list** `MainView/ChatsViewController.swift` | `recentChats`, `filteredChats`, the rows drawn | listener, search, tap, swipe, delete | starts Recents' operations | three lists of the same chats, refilled behind a table |
| **Firestore client** `Source/Core`, `Source/Local`, `Source/Remote` | mutation queues and cache on disk; held results; pipeline and write stream | write, send, acknowledge, reject, listen, snapshot, restart, change of user | carries every write of the others | answers without ids, lost connections, ids used again after restarts, results held for the watch stream |
| **User lists** `UsersTable-`, `InviteUser-`, `ContactsTableViewController.swift`, `CountryCode.swift` | users, sections, filter | load, filter, search, match numbers | open chats | overlapping queries; sections of non-contiguous initials; digits removed anywhere |
| Encryption, camera, map, pictures, cells, notification extension | - | - | - | display or library calls only; not modelled |

What makes each correct:

* Recents: a counter never claims unread messages nobody sent; a burst counts each
  of its messages; recents of a room agree on the last message; a deleted recent
  stays deleted; a recent names its true partner and all members; a sent message
  shows; blocking erases.
* Messages: nothing listed twice; deleted stays deleted; read means taken in by a screen
  of another user and stays read; what arrives is shown; a receipt that finds the sender's
  copy marks it.
* ChatPaging: the rows are the newest messages in order; the header is there while
  there is more; no index leaves the array; all can be reached.
* Session: the local copy is the signed-in user's and the document in all but its date;
  a block changes the list by one user; a registration ends.
* Groups: nobody invited is lost; members of the group, of its recents and of its
  chats agree. Typing: an indicator that went on goes off. Push ids: one
  completion, with everybody's id. Media: a cached file is the one asked for. Chat
  list: the list is the collection, a row leads to the chat it shows. User
  lists: each loaded user is in one section; the list is that of the filter chosen.
* Firestore client: every write is settled once, in order and truthfully; the device
  shows its own writes all along; everything is settled in the end.

The hazards behind these properties, each at its line, are in `PROJECT.json`.

## The modules

### Recents (with RecentBoard, MCRecents, RecentsProofs)

One room, private or a group (`room`, chosen in `Init`), any set of users; a private
room is one of two (`RoomAssumption`). `docs` is the collection Recent; `pending[u]` is u's
queue of writes in batches (the writes of one callback go to distinct documents);
`calls[u]` holds the `getDocuments` calls whose answer is outstanding; `open[u]`
tells whether the room's chat screen is open. Each user operation (`Start`,
`OpenRow`, `Send`, `Back`, `DeleteRow`, `Mute`, `Block`) asks; the answer
(`Create`, `Update`, `Clear`, `Push`, `Erase`) computes its writes from what the
client *then* sees, its own queue included, as the completion handlers of
`Recent.swift` do. `Fail` is a query without snapshot, `Kill` the app being killed
(queued writes survive), `Serve` the server applying one write. A document id names
the call that drew it (`document()` draws fresh ids); message n is the n-th sent.

`RecentBoard` is the promise without queries and queues: a row is put up empty,
once per id; its members and partner never change while it is up; its count never
exceeds what was announced to its owner; what is taken down never returns.
`BoardSpec` is that specification under the identity mapping, checked as a
PROPERTY and proved.

### Messages (with MCMessages, MessagesProofs)

One room. `box[u]` is the mailbox `Message/<u>/<room>`, `log` the messages
composed, `screen[<<u, k>>]` the k-th chat screen u opens - also after it was left,
because a controller whose load is under way lives on and then sets up its listener.
Only `backAction` removes listeners. A profile, the group, the pictures, a map or the home
button (`Cover`) leave them as they are, so a covered screen takes messages in and
sends receipts that nobody sees; from a profile the same chat can be opened again, over
itself. `Uncover` is the return. `Display` therefore notes a message as `seen` on a
screen in view and as `unseen` on any other.
`Loaded`, `HistoryLoaded` and `NewChats` are the three queries that share out the
mailbox by date; `Display` is `insertInitialLoadMessages`, which asks for a read
receipt in the mailbox of everybody on the push list; `Receipt` is the
answer. A picture, video or recording takes its date when it is chosen
(`StartUpload`) and is sent by the completion (`Uploaded`); the branch for locations
sends nothing. A date is `time + Zone[u]`: `dateFormatter` writes local wall-clock
text. A scenario (`Scenarios`) says who does what, how clocks differ, who covers or stacks screens, and which
faults occur: an app killed, a query or a receipt without answer, an upload failed, a connection
that breaks with the answers of some writes: the server takes them one after the other
(`TakeUnanswered`, `ahead` counts them) and, once the client has connected again (`Reconnect`), a
second time. The updates of recents that `sendMessage` starts are those of the module
Recents; the pages are abstracted to sets and their arithmetic is ChatPaging's.

### Session (with MCSession, SessionProofs)

One device and the accounts used on it. `auth` and `current` are the signed-in account
and the record under `kCURRENTUSER`; `users` is the collection User. An update
(`Updated`) copies the local record, changes one field of the copy and `updatedAt`, and queues
that field alone: the date is never sent (`FUser.swift` 425-431), so the document keeps
that of the registration. The answer (`Complete`) puts the whole copy into UserDefaults and then runs the
caller's completion, which traps in `FUser.currentUser()!` after a sign-out, with the copy
already written. A registration is `Done` (`createUser` is asked for, `creating`) and its
answer: `Registered`, `RegisterFails`, or, after `Cancel` has emptied the text fields,
`RegisteredLate`, which writes an empty profile or traps for want of an initial. The list of blocked
users is `listed`, its rows on display are `drawn`: between `Unblock` and its completion
they differ, and a second swipe takes the wrong user or an index outside the array. An answer
to a list that has gone (`lingering`) traps after a sign-out (`FUser.swift` 396). `writes[a]` is the queue Firestore keeps for account a: queue and
completions belong to the account that was signed in at the call, and nothing is sent
while it is not signed in (`FSTSyncEngine` under `Pods`). `RestartWith` is the end of the
process, by a kill or a nil unwrapped, followed by the start and `didBecomeActive`, with
whatever account, record and queues the callback left that ended it (`Restart`: those at hand); a
write left behind is sent by the next process but has no completion any more.
Two auxiliary variables say when the code gives up its promises: `overtaken` (two
exchanges with the document at once, a row swiped that waits to be drawn, or an exchange cut off by a
restart, since the sign-in)
and `stray` (an exchange of an account that is signed out or being deleted, an account being
created beside the one signed in, or the welcome screen shown to a signed-in user). The invariants hold wherever these are false.

### Groups (with MCGroups, GroupsProofs)

One group: `store` is its document and its recents, `writes[u]` u's queue, `calls[u]`
the queries of recents outstanding, `screens[u]` u's chat screens of the group from the
bottom up. A screen holds the group *as it was when `getCurrentGroup` answered*
(`GroupLoaded`), or a group without a document as long as that has not happened;
`Done` (the invitation) and `Save` (the name) compute from that copy, and `Done` also
leaves what the invite screen has collected. `Create` is a press of
`createButtonPressed`; as the list of members is the screen's own and each press appends
the owner, the n-th group founded from one screen has the owner n times. `CreateRecents` and
`UpdateRecents` are the answers of `createRecent` and
`updateExistingRecentWithNewValues`, each over one snapshot. The writes of one
callback are one batch, of the group's document or of some recents, each its own write
(`SetRecents`, `UpdateAll`, `DeleteRecent`); a batch is queued and applied as a whole, and `Send` is one
step: the interleavings inside them are those of Recents. Members are sequences, here where a duplicate counts;
the order in which users are selected is left out, the avatar goes the way of the name.

The auxiliary variables say what was asked for: `meant` who was to be a member,
`muted` and `gone` who muted or deleted a row, `lost` that a query failed or an app was
killed, and `crossed` that a screen worked from a copy older than the group (the code then
drops the invitations of others, and the properties that need the copy to be current
say so).

### UserLists (with MCUserLists, UserListsProofs)

One screen, its kind chosen in `Init`: users nearby, users to invite, contacts, contacts
for a group. `queries` are its loads without an answer, `all`, `titles` and `groups` the
lists the table reads (`Sections`), `text` and `filtered` the search. `Answer` replaces the
lists and cuts them into sections; that code exists three times, twice alike, and
the contacts' copy keeps old titles and sections (`AddToContacts`). `Return` is
`viewWillAppear` after a chat, a profile or the screen of a new group. A name is its place
in the order of the query and its initial, a search text the set of names it is in,
a phone number its digits; `RemoveCountryCode` removes the code wherever it is. Every
change of the lists is followed by `reloadData` in the same callback, so what the table
shows is a function of them. `Change` is somebody who registers or deletes his account.
The query always finds the signed-in user, so its answer is never empty.

The auxiliary variables name the answer on display (`answer`), a search typed before it
(`stale`), loads that overlapped, an invite screen shown again (`returned`) and users who
left (`gone`).

### ChatPaging (with ScreenProofs)

`max`, `min`, `displayed` (`loadedMessagesCount`), `len`, `loadOld` and `header` are the controller's
variables.
Since older messages are put in front of the array, a message is named by its age
(1 is the newest), and `items` lists ages from the bottom up. A range with its bounds
crossed or an index outside the array is the state `trapped`.

### Typing, PushIds, MediaCache, ChatList (composed by MCScreens; with ScreenProofs)

Four parts of the client that share no state; `MCScreens` lets `Init` choose which one
runs. *Typing*: `flags` is the document of the room, `typingCounter[u][k]` the counter of u's
k-th chat screen, which counts its running timers too; timers outlive the screen.
`flagsHeard` is what the listener was last called with, `LocalFlags` what it will be called
with. *PushIds*: `getMembersToPush` and `getUsersFromFirestore` ask for the
documents of `asked`, any set of users, at once and count answers; an answer has a document, none,
or no snapshot. *MediaCache*:
`stored` is the storage, `sent` the media in it whose message was sent (`putData` answers first and the
progress view goes, so the next upload may start before `downloadURL` answers), `files` the documents directory of one reader, a file name the kind and
the date (the part of the url that `fileInDocumentsDirectory` is given), `tasks` the downloads, which
look for the file again when they end. *ChatList*: `recents` is the collection with the
user's own writes, `recentChats`, `filteredChats` and `rows` the controller's lists and what
`reloadData` last drew; `swiped` is an open row with the `tempRecent` its buttons captured;
an index outside its array is the state `trapped`.

### FirestoreClient (with WriteQueue, MCFirestoreClient, FirestoreClientProofs, WriteQueueProofs)

One device. Everything in the client runs on one worker queue, so a handler is an action.
`queue[u]` are u's mutation batches in LevelDB, `acked[u]` the highest id acknowledged, `cache` the
remote documents; `pipeline` and `stream` the remote store's, `held` the results that wait for
the watch stream, `targets` the documents listened to. `requests` and `responses` are what is
under way on the current stream, `history` what the backend has committed. `Write` is
`writeMutations`; `FillWritePipeline` is part of every handler that calls it; `WriteResponse` and
`WriteError` take the pipeline's *first* write to be the one answered, as the code does, since
an answer carries no id. `StreamBreaks` loses what is under way, whatever the
server did with it; `ServerRefuses` is a permanent error. `Restart` keeps what is in LevelDB
only, and `CredentialDidChange` exchanges the queues. `LoadNextBatchID` is the highest id in any queue plus one, so ids
are used again. A document has two fields, each with the number of the write that put it there: enough to
tell `setData`, `updateData` and `delete`, and which of several writes is on display.
`outcome`, `settled`, `calls` and `calm` are auxiliary.

`WriteQueue` is what remains if ids, streams, caches and users' turns are taken away: a queue per user
from which the server takes writes in order; each is settled once, as successful only if it was
taken; a lost connection forgets what the server took but not what is settled. `QueueSpec` is its specification under the
mapping that reads `pending` from the unacknowledged batches, `taken` and `refused` from the
answers on their way.

## The runs

| Run | Question | Instance | Size |
|---|---|---|---|
| `recents_safety` | can counters overcount, a burst undercount, last messages differ; is the partner right; do creation, deletion, blocking and re-creation implement the board? | a group of 2 (2 messages, a start, a row, Back, a kill, a failed query) or a private chat of 2 (2 starts, a row, a message, a deletion, a block) | 504 000 states |
| `recents_live` | does a message reach the recent, does blocking erase; are members complete unless somebody muted? | 2 users; start, row, message, block, mute, deletion; fair | 12 000 |
| `messages_safety` | deleted stays deleted, read means taken in and stays read, is anything listed twice? | 2 users, seven scenarios: a writer and a reader in two zones who deletes (2 texts); an answer lost (1), also to a reader with two screens; one who scrolls, deletes, leaves and returns (3 messages, 2 screens), or who opens the chat over itself (2); a reader who leaves while loading (1 picture, 1 fault of any kind, sender muted or not), or who looks at something else (1 text) | 1 860 000 |
| `messages_live` | is what arrives shown, and does a receipt that finds the sender's copy mark it? | 2 users, 2 texts; fair | 26 000 |
| `chat_paging` | order, header, traps, reachability of pages | the code's 10 and 11, up to 45 older messages | 182 |
| `session` | whose record is local, is it the document in all but the date, what does blocking write; does a registration end? | 2 accounts, one new; 2 users, blocked by the old one; 3 inputs, 1 failure; fair | 1 067 000 |
| `groups` | does the document keep everybody a screen invited, do the recents follow it, one each, and does everybody invited get one? | 4 users, 2 of them acting, 1 to select; two presses of Create; 3 inputs, a failure or a kill counting as one | 400 000 |
| `user_lists` | do the sections hold everybody once, and are they those of the filter selected? | 4 other users, 3 loads, 2 changes, 2 address books, all four screens | 947 000 |
| `screens` | does an indicator go off; who is pushed when users are missing; is a cached file the right one; is the list of chats the collection, and does a row lead to its chat? | 2 typists (2 keys, 2 screens each); 4 asked; 2 media of 3 kinds on 2 dates, displayed twice; 3 chats, 3 changes by others, 3 touches | 759 000 |
| `firestore` | does an answer meet its write; do the client's assertions hold; is a write lost or settled twice; does the device show its own writes; is the queue implemented; is everything settled? | 2 users, 2 documents, a pipeline of 2, ten scenarios of 1 to 3 writes with refusals, breaks, restarts, changes of user, listeners, another device; fair | 382 000 |
| `session_push` | *violated*: "update one signal id" | one sign-in | - |
| `messages_status` | *violated*: "update local message" | one text; fair | - |

Two runs record disagreements between a comment and the code. The listener `//to
update message status` (`ChatViewController.swift` 523) ends in
`objectMessages[index] == messageDictionary` (680), a comparison, so a row keeps its old
status until the chat is opened again. `//update one signal id` (`AppDelegate.swift`
192) is run by the sign-in notification, when the record of the user who signs in has
only been asked for: `updateCurrentUserInFirestore` (`FUser.swift` 194) finds none and
sends nothing, so the document is without this device's push id until the next start.
That a sign-out leaves no push id in the document, or that a save ends, no property says. Two more
divergences no property covers: the branch `//send location`
(`ChatViewController.swift` 492-508) composes a message, announces it by push and
returns without `OutgoingMessages.sendMessage`; and `didTapAvatarImage` of
`ContactsTableViewController.swift` (443) takes the row's number for that of its section.

**Bounds.** `Budgets` (Recents) says how often each operation happens in a room of either
kind; two starts, one
deletion and a row are what it takes to create, delete and re-create a recent while
another client does the same, and two messages what it takes for increments to be lost.
`messages_safety` has its bounds in its scenarios. Messages loads `Limit = 2` and shows one where the code loads 11 and shows 10: with three
messages the load, the older ones and the listener each get one, and dates tie
across each boundary. A scenario's
`time`, `screens`, `lost` and `does` bound the rest. ChatPaging uses the code's own numbers and five further
pages. Session counts all inputs together: three are enough for a sign-in, an update and a sign-out,
for a registration with two updates, or for a sign-in and two swipes in the list of blocked
users, both of whom the existing account has blocked before (`Blocked`). The device has a player id; with
none, or a token only, the safety was checked as well (1 490 000 states). An account is asked for
once at a time (`Done`): two presses of "Done" for one e-mail address, the second of which Firebase
refuses, are not modelled.
Groups counts inputs too, failures and kills among them (`MaxInputs`), and stops soon after
the first outdated edit (`MaxCrossing`), since its properties then promise nothing more; it was also
checked with one input more (1 590 000 states). In UserLists three loads are one
on display and two that overlap, and two changes let a user come and go. In FirestoreClient a
pipeline of two (`kMaxPendingWrites` is 10) is filled by three writes with one left over; a refusal, a break or a
restart once is enough to be between any two steps, and two changes of user bring the first back. Two overlapping timers,
a screen opened twice and two media are the least for the races of `screens`; three chats give a
search that hides one of them. Every cfg has `CHECK_DEADLOCK FALSE`: with its
budget spent a bounded program ends.

**Fairness.** Liveness assumes that a query that was asked is answered, a listener
delivers and a queued write reaches the server: Firestore retries for ever while the
app runs; in Session, for the account that stays signed in. FirestoreClient shows the part
of it that concerns writes (`EverythingSettles`) from less: the stream opens when it was started and
shakes hands, the worker queue takes the answers it was given, the server takes or refuses what it was
sent, and a listener hears of the latest version in the end; connections break finitely often, as
`break` is bounded. No fairness is assumed of the user, with one exception named in its
property: `AllShown` supposes that he keeps tapping the header. The liveness runs
have no kills and no failed queries; with them the properties are false, as the
code retries nothing itself.

**What the properties leave out.** Some of the code's behaviour is unpleasant but
contradicts nothing the repository says, so the properties are stated around it:
increments of a counter can be lost between clients; two senders' updates can leave
recents with different last messages; two clients that start a chat at once create
a user's recent twice (one client alone never does: the board); a
message dated at or before the last loaded one does not show on an open screen (same
second, sender's clock behind, long upload); a screen that is covered, in the background, or was left while
loading keeps a listener that sends receipts for messages nobody sees, so read does not
mean seen: `ReadMeansTakenIn` says that a screen took the message in, the weaker thing that holds; a receipt
whose `getDocument` is answered before the sender's own copy has reached the server is dropped for good, so that a
message may be shown and stay unread (`ReceiptMarksRead` is about the receipts answered later); a message deleted
from a chat opened over itself stays listed on the screen below (`outlived`); a message whose
write is repeated after a lost answer comes back unread or undeleted (`repeated`); the header tapped
before the older messages came traps (`NoTrapOnceLoaded`); the local record has a date of update that its document
never gets (`AsSent`), overlapping updates undo each other in it (`overtaken`), what was under way at a sign-out, a
deletion or a cancelled registration puts its record into another's session or ends the app (`stray`), and
a row of the list of blocked users swiped before it was drawn again unblocks somebody else or ends the app
(`overtaken`, too); an edit of a group from an
outdated screen drops the invitations of others (`crossed`), and an invitation overwrites the
mutes of others; users whose initials are not contiguous in the order of the query (capitals come
before small letters) vanish from the lists (`Contiguous`), overlapping filters show the
answer that came last (`overlapped`), and numbers in the address book that contain the country code, or are a
user's own and start with it, match the wrong contacts or none (`PlainBook`); a missing user makes a push go out once for each that was
not found, and the list of users come several times (`EachFailureCompletes` says how often);
two media of a kind and of one second share a file (`Twins`), deleting a row of a chat already
deleted elsewhere takes another one off the list for a while (`astray`), and a list that became empty is
not drawn.

## What is proved

TLAPS checks every proof with no step left out, for every value of the constants
that satisfies the modules' assumptions (`BudgetAssumption`, `RoomAssumption`: a private
room has two users; `LimitAssumption`, `BoundAssumption`, `ScenarioAssumption`; ChatPaging's
page size; `ClientAssumption`: a signed-in user, room for at least one write in the
pipeline, finitely many budgets to choose from; `AccountAssumption`: nobody is no account and no record; `BlockedAssumption`: who is blocked is one of the people; `PushAssumption`: finitely many users;
`MediaAssumption`: the kinds of media are the three that have a file name; `TypingAssumption`;
Groups' `OwnerAssumption`: finitely many users, the owner among those who act; `PicksAssumption`: lists
of other users, nobody twice; `NilAssumption`: no document is none; UserLists' `UsersAssumption`: one document per user,
no empty first name; `NumbersAssumption`: numbers are digits, no code is empty).

*Recents* (RecentsProofs): all its safety properties, for any number of users and any budget.

* `TypeCorrect` and `UnreadBounded`. `TypeOK` is inductive. With it
  `UnreadNeverOvercounts` is too (`CounterInv`): the counter a callback reads is one at the
  server or one in the client's own queue, both at most `announced[owner]`, and the
  callback raises `announced` in the step in which it queues the increased value.
* `ImplementsBoard`: `Spec => BoardSpec`. The board lets a row go up
  once and only while its creator has no other up for its owner; `createRecent` knows only
  what its client's query showed. `BoardInv` adds what makes that enough: ids are drawn
  fresh by each call and what waits is neither stored nor retired (`FreshIds`,
  `SetsAreNew`), and in a client's queue the set of a recent is behind the deletions of
  those it replaces (`InOrderOfDeletion`). `Serve` is the one step that maps to steps of the board.
* `MembersComplete`, `PartnerNamed`: as long as nobody mutes, every
  list of members that is stored, queued or passed to a call is complete (`AllComplete`);
  as long as nothing is deleted, a call that would name its owner as the partner finds
  the owner's recent there (`OthersOnly`, on top of `BoardInv`).
* `BurstsCounted`: `BurstInv` says the same of all increments in a
  queue, that a batch has one per document, and that a client resets no counter but its own.
* `LastMessageAgrees`: while writes wait the documents differ; what
  agrees is what the *sender's client* sees. `AgreeInv` says so, with two facts: nobody
  else has messages queued, and none waits for a document another has still to put up.

*Messages*: its four safety properties, for any number of users, messages and screens, any
zones and any faults (MessagesProofs).

* `ListedOnce`: `RowsInv` says of each screen on its user's stack, in view or covered, that a message is on
  display once, or among the earlier ones, not both; that earlier ones are dated no later
  than the date the listener starts behind; that what is newer came from the listener, which
  remembers it; and that while older messages are asked for no row is older than the one left out.
* `DeletedStays`, `ReadStays`: a copy is written by its sender, once (`CopiesInv`: in a
  mailbox or waiting, not both); what was deleted will be written by nobody else, and in the
  user's own queue the removal is behind (`DeletedInv`); what is on a screen waits in nobody
  else's queue (`HeldInv`), which is why deleting it is for good. Messages that were sent twice
  (`repeated`) are exempt.
* `ReadWasTakenIn`: the justification of a mark, that a screen of another user took the message in, is carried
  from the receipt asked for, over the queue, to the mailbox.

*WriteQueue*: `SettledOnce`, `NeverAppliedLate` (WriteQueueProofs), with writes numbered
(`Writes \subseteq Nat`): what the app may rely on if the client is this queue. That it
is, is the next theorem.

*FirestoreClient* (FirestoreClientProofs), for any number of users, documents and writes, any
limit of the pipeline and any order of lost connections, refusals, changes of user and restarts:

* `Implements`: `Spec => QueueSpec`. `Write` issues, `ServerTakes` and `ServerRefuses` take
  and refuse, `WriteResponse` confirms, `WriteError` fails, a broken stream, a change of user and a
  restart lose the connection; every other step stutters, although results are
  released from the queue in it or documents change (`ClientStep`).
* `NeverSentAgain`: what `NeverAppliedLate` says of the abstract queue, carried over to the
  client by the refinement.
* `AnswersMatch`, `NoAssertionFails`, `WritesKept`: the three invariants of the run about the
  queue, the pipeline and what the app is told.

None of them is inductive. `ClientInv` (theorem `ClientInvariant`) is; its parts lean on each other:

* `IdsInOrder`: in each queue ids and writes grow together, below the next id. A restart computes the next
  id from what the queues still have and gives ids again; `acked[u]` of a queue that is not empty
  is never above its last id, so that an id given again is never one taken for acknowledged.
* `HeldFirst`: the held results are those of the first batches of the queue and exactly the
  acknowledged ones; `PipelineNext`: the pipeline follows them without a gap. This is
  why an answer without an id is matched to the right batch, and why dropping the
  acknowledged batches at a start drops nothing else.
* `AnswersInOrder`: what is answered and under way is the beginning of the pipeline, what is sent and not
  answered its rest; a refusal is the last answer and is one the rules justify.
* `QueuesPending`, `OutcomesTrue`, `CallsTrue`: a write is pending exactly while it is in its user's queue
  above the acknowledged id; what is settled was taken or refused by the backend; a completion waits for
  a pending write only and is called with its outcome. `WritesNumbered`: a write's
  number is within the bounds, which the abstract queue needs to know it.

What the device shows of the documents are two more theorems, each with an invariant of its own on top of `ClientInv`:

* `SettledIsEqual`: `Spec => []SettledMeansEqual`, through restarts, changes of user and writes of others. `CacheInv`:
  a document that the backend has not changed since the version its target is resumed from is cached as the backend has it
  (`CacheTrue`); nothing cached is newer than the backend's. The first held result is
  ahead of the watch stream (`HeldAhead`), so once the listener has caught up nothing is held; and no result is newer than
  the backend's document (`HeldFresh`, `AnswersFresh`), so none is applied over a document that is up to date.
* `OwnWritesAreShown`: `Spec => []OwnWritesShown`, as long as nobody else interferes (`calm => OwnInv`). A stream that broke
  leaves writes that the backend took and that are sent again, so the history is not the queue's order, the base of an update may
  be gone when it is repeated, and a write can be taken and refused afterwards. `TakenInOrder`, `LastTaken`: what was taken of the queue
  is its beginning, and an answer or a held result has the version after which only later writes were taken. `UpdatesOnDocs`,
  `TakenAgain`: an update that was taken finds its document when it is repeated, or a write that makes it is repeated first, or a
  later write has replaced it. Hence `FailedOver`, `RefusedOver`: what was taken and then refused was overwritten. `BackendShows`: the
  backend shows an answered write that no later one replaced (`Latest`) from the last version that took it on. `CacheShows`: the cache shows
  what landed, or it is exactly the backend's document at its version, since no result is applied over a newer document
  (`AppliedShows`). `ListenersKnow`: what landed is in every snapshot still to come, so none of them takes it back. The queue
  over such a cache shows all own writes and nothing older (`LocalShows`, by induction along the queue).

*Session* (SessionProofs), for any number of accounts, of other users, of inputs and failures:
`OwnRecord`, `MirrorsDocument` and `BlocksAsMeant` are the three safety properties of the run `session`.
None is inductive. `Inv` (theorem `SessionInvariant`) is, with what the queues have to be for them:

* `Known`, in every state: an account without a login is unknown to the server; the write of a whole
  document is first in its queue, with an update behind it, and finds none (`AllFirst`); a document keeps the date
  of its registration (`DocsOf`), and an account that is being created never had a login (`Calls`). This is
  why a registration's update, which an `updateData` on a missing document would reject, changes the document.
* `Unstrayed`, as long as nothing is `stray`: the local record, the copies under way and the answers are
  the account's own. While the deletion of a document waits nothing else is queued, the local record is gone, and
  `getDocument`, which reads through that queue, does not bring it back (`NoneOnly`, `SeenIs`).
* `Mirrors`, as long as nothing is `overtaken` either: while a record is asked for there is none; what an
  update will find (`Base`: the document, or the new one queued before it) is what it was made of (`MadeFrom`), and
  what the local record is, until the update is applied; then the copy in its answer is the document.

Most actions leave the account, its record and the documents alone and queue at most one update of
the local record (`Quiet`, with the end of the process, after which every queue is as long as before and
nobody waits for it); one lemma (`InvQuiet`) serves them all. Sign-in, registration, answer, acknowledgement,
completion, sign-out and deletion have one each. That `Seen` is what the queue makes of the document is an
induction over its recursive function `after` (`SeenAfters`).

*Groups* (GroupsProofs), for any number of users, of chats on a stack, of inputs and failures:
`NobodyIsLost`, `TheRecentsFollow`, `TheInvitedHaveRecents` and `OneEach` are the four invariants of the run
`groups`. `Inv` (theorem `GroupsInvariant`) is the inductive one:

* `Agree`, as long as no edit crossed another: there is *one list* with the members meant, and everything
  goes by it. `GroupFollows`: whatever is queued for the group's document is that list and the last name, and a
  field of the document that is not has a write on its way. `AllFollow`, unless a call was lost, says so of the
  recents: of what is stored, queued and asked for; a field that is not right will be rewritten by a queued
  batch or by a call that has still to be answered, which then sees the recent (`Rewrites`). An edit that does not
  cross finds everything settled, so it replaces the list by its own and leaves no field that is wrong without a
  write (`EditFollows`). Once somebody muted, only the name is followed (`Followed`).
* `Cared`, whether or not edits cross: who is meant to be a member and deleted nothing has a recent at the server, or
  one that is queued, or a call that will create one, unless a call was lost. `createRecent` passes over him only if its client sees a
  recent of his, which is then stored or queued (`SeenIs`, `MissingIs`); a recent is deleted by
  its owner only (`OwnDeleted`).
* `Untouched` before a group is created; the types of documents, queues, calls and screens. In them the two lists of a
  group's document are one sequence (`IsGroup`), as the initialiser of `Group` and every invitation leave them.

What a queue of batches makes of the documents is again the recursive function `after` (`Seen`), by induction.
`OneEach` counts, on top of `Inv` (the invariant is `Counts`). There is one number p, how often "Create" was pressed,
such that every list of members that is stored, queued or open on a screen has the owner p times and all others once
(`Lists`, `Pressed`): the first list has, and an invitation adds distinct users who are not in it (`PressedConcat`). On
the other side are the recents made, stored or queued (`Made`), and those about to be deleted (`Erased`). `Counted`: what is
left of a user's is never more than he is due, and is just that for a member who deleted none, unless a call to create
recents is open. Such a call is the only one and no other recents are on their way (`Fresh`, `OnceAsked`, `OnceSet`): edits
that do not cross found everything settled. So the client that answers sees all that is left and nothing that was not
made (`SeenOwned`) and makes what is missing (`MadeUp`), under ids that are new because they bear the number of the
call. A batch that reaches the server changes nothing of what is left, because no id that is still to be set was stored or
deleted before. A row that can be deleted has a message, hence is stored (`SeenMore`: queued recents have none).

*The parts of the screens* (ScreenProofs), for any number of users, chats, media, keys and screens:

* `GoesOff` (Typing). `TypingInv` has three parts, each about one user. `Cleared`: the last write that waits
  of a typist without a running timer clears his flag, or, if none waits, it is off at the server. `OfHeard`:
  the indicator is one of the flags the listener was last called with, if there was any but the
  own. `ForSomebody`: who sees the indicator on has no creation of the document under way, and the
  server has a flag of somebody else; otherwise the listener could be called last with nobody's flag, which leaves
  the indicator as it was. That this holds is why creating the document again, which drops the flags of all
  others, does no harm: only a client without any flag on display does so (`LocalFlagsAre`).
* `OnePerFailure` (PushIds): `PushInv` counts. `count` is the number of those found, the completions so far are as many as
  failures of the kind that completes, and what they were called with grows.
* `ItemsAreSent` (MediaCache): `MediaInv` says that each file bears the name of the medium in it and was
  uploaded (`FilesNamed`), that a download fetches by the url of an uploaded medium (`TasksFetch`), and that an
  item shows a file with the name of its own medium (`ItemsOwn`); a medium with no twin is then the only one it can be.
* `Follows`, `RowsLead` (ChatList): the two properties are inductive together.
* `InOrder`, `NoTrap`, `Button`, `PagingTypes`: all the safety of ChatPaging, for any page size and any number of
  messages. None is inductive alone; `PagingInv` adds where `max` and `min` stand: before the older
  messages come, the first page (`FirstPage`); afterwards, either no tap yet and
  `max = len - displayed - 1`, or `min = len - displayed` (`LaterPages`). `NextRange` derives
  that the range asked for lies on top of what is shown and within the array.

*UserLists* (UserListsProofs), for any users, names, cities, address books and search texts, and any number of loads
at once, failures, registrations and deletions: `ListedOnce` and `FilterIsShown` are the two invariants of the run
`user_lists`. `Inv` is the inductive one:

* `ListsInv`: the list has the order of the names; every title has a section, of users with that initial. If no
  initial comes again in the list (`Together`), each of its users is in the section of his initial once and
  no title is listed twice (`Holds`). The contacts' copy of the code, which keeps the sections of earlier answers, lists a title once even then.
* `AnswerInv`: the list is what the answer on display holds; `RowsInv`: a row is a user of the list or, on the
  contacts, of an earlier answer: he matches the address book and is known to the last answer, too, or has left (`gone`).
  So an old section that the new answer does not replace has nobody the list lacks but those who left. `SearchInv` says what a
  search found, unless a later answer made it `stale`.
* `FilterInv`: without overlapping loads there is one load at most, and it is for the filter selected, as is the answer
  once there is none.

Two lemmas say what the recursive functions do, by induction over their indices. `CutAre`: cutting a list without recurring
initials into sections, whatever sections there were, gives each of its users one row under his title, and leaves the
sections of other titles as they were. `RemovedIs`: `RemoveCountryCode` takes the code off the front of a number and
leaves the rest, in a number where the code occurs nowhere else; hence `compareUsers` finds exactly those whose
number is in the book (`MatchesAre`, under `PlainBook`).

`SelectSeq` and folds take an operator, which these provers cannot instantiate; the code's filters of queues are
therefore written as the recursive function `Kept` in FirestoreClient, the results applied to the cache and the queue
applied over it as the functions in `WithResults` and `LocalDocument`, the lists and
sections of UserLists as `Kept` and `Cut`, the flags behind a typist's queue
as the recursive function `after`, and ChatList's filter by the last message has a name (`WithMessage`)
of which the proofs need nothing but that it is a function of the collection. What
`Kept` keeps there (`KeptSuffix`, `KeptAppend`), the documents between two results or two mutations (`ResultsApplied`,
`LocalIs`, both by `FoldExists`) and what a queue makes of the flags (`LocalFlagsAre`) are
proved by an induction over a set of numbers (`SetInduction`) that rests on the well-foundedness of `<`.

The refinement (`Implements`, `NeverSentAgain`, the run's `QueueSpec`) rests on one thing about the backend that
is outside the client: it takes nothing from a stream that was given up once the next one has started. The client half-closes a stream
(`FSTStream.mm` 395-403) without waiting for what it has sent; in the model those requests are dropped (`StreamBreaks`,
`CredentialDidChange`, `Restart`). A backend that took one later would apply a write out of the queue's order.

Only model-checked: liveness everywhere (fairness and ENABLED are beyond these provers). Every invariant of a passing run
is a theorem.

## What is not modelled

* Several rooms in one instance (rooms share no state but the list on display, ChatList).
* Member lists are sets in Recents; Groups has them as sequences. One device per user. Answers from Firestore's offline cache.
* Messages of unknown type: ChatPaging takes any number left by `removeBadMessages`;
  Messages has none. Text, encryption (`RNCryptor`, one shared key), sounds, layout.
* In Messages, tapping the header before the older messages came: ChatPaging has it.
* In Session: sign-in by phone number (no screen calls it), location updates, settings
  that only change the display, failed loads of the list of blocked users.
* In Groups: the avatar, several groups; the list of users to invite is in UserLists.
* In UserLists: reading the address book, the table of country codes (a contact without a known
  code ends the app), the HUD, the check marks of reused cells.
* In FirestoreClient: queries over several documents, limbo documents and existence filters,
  tokens of the streams, transactions, garbage collection of the cache, disabling the network,
  the online state, the lengths of delays. The app uses none of the three that an app could
  call. The other vendored libraries (gRPC, BoringSSL, Protobuf, LevelDB, message
  views) are not the program's logic.
* Camera, map, pictures, cells, the notification extension: display or library calls only.

## The plan

1. Done: Recents, RecentBoard, Messages, ChatPaging, Session, Groups, UserLists.
2. Done: Typing, PushIds, MediaCache, ChatList, FirestoreClient, WriteQueue.
3. Done: proofs of the safety properties of Recents, its refinement of the board, Messages,
   ChatPaging; what WriteQueue promises; FirestoreClient's inductive invariant, its refinement
   of WriteQueue and what it shows of the documents; the safety properties of Typing, PushIds, MediaCache, ChatList, Session, Groups and UserLists.
4. Left: Recents, Session and Groups with repeated writes.
