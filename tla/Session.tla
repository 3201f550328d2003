------------------------------ MODULE Session ------------------------------
(***************************************************************************)
(* The signed-in user on one device (Class/FUser.swift, AppDelegate.swift, *)
(* the welcome and the settings screens).                                  *)
(*                                                                         *)
(* His record lives twice: as a document of the collection User, and as a  *)
(* copy in UserDefaults (kCURRENTUSER) that every screen reads.  An update *)
(* copies the local record, changes one field of the copy and its date of  *)
(* update, sends that field to the server, without the date, and when the  *)
(* server has answered puts the whole copy into UserDefaults.  In between  *)
(* anything may happen: other updates, a sign-out, another sign-in, the    *)
(* end of the process.                                                     *)
(***************************************************************************)
EXTENDS Naturals, Sequences, FiniteSets

CONSTANTS Accounts,   \* the accounts used on this device
          Existing,   \* those registered before
          People,     \* other users, who may be blocked
          Blocked,    \* whom the existing accounts have blocked before
          OneSignal,  \* what OneSignal may have given the device
          Nil,        \* no account, no record, no id
          MaxInputs,  \* how many things the user may do (bounds the model)
          MaxFailures \* how many calls may fail (bounds the model)

(* Records: what the rest of the program depends on of an FUser, and when   *)
(* it was updated.  A profile is "bare", "full", "edited" or "empty", made   *)
(* of text fields that were emptied.                                        *)
Records == [id : Accounts, pushId : {"", "player"}, isOnline : BOOLEAN,
            profile : {"bare", "full", "edited", "empty"},
            blockedUsers : SUBSET People, updatedAt : {"registered", "later"}]

ASSUME AccountAssumption == Existing \subseteq Accounts /\ Nil \notin Accounts \cup Records
ASSUME BlockedAssumption == Blocked \subseteq People
ASSUME OneSignalAssumption == OneSignal \subseteq {"nothing", "token", "player"}
ASSUME BoundAssumption == MaxInputs \in Nat /\ MaxFailures \in Nat

VARIABLES auth,       \* Auth.auth().currentUser, kept over restarts
          current,    \* UserDefaults, kCURRENTUSER: a record or Nil
          playerId,   \* UserDefaults, kPUSHID
          oneSignal,  \* what it has given: a token, a player id, or neither
          logins,     \* the accounts Firebase knows
          closed,     \* the accounts deleted there (their ids never return)
          users,      \* collection User at the server: account -> record or Nil
          writes,     \* account -> its queue of writes (external)
          answers,    \* completions of applied writes, on the main queue
          fetches,    \* account -> its getDocument calls without an answer
          leaving,    \* the account whose deletion is asked for, or Nil
          creating,   \* account -> its createUser call: "no", "asked", "cancelled"
          screen, listening, active,        \* the app: what is on display,
          saving, registering,              \*   what it waits for,
          listed, drawn,    \* blockedUserArray, and the rows on display
          listing,    \* the blocked users asked for
          lingering,  \* were any asked for by a screen that has gone since?
          inputs, failures,  \* how many there were (for the bounds)
          overtaken, stray   \* auxiliary, see Observe

device == <<auth, current, playerId, oneSignal>>
server == <<logins, closed, users>>
requests == <<fetches, leaving, creating>>
traffic == <<writes, answers, requests>>
lists == <<listed, drawn, listing, lingering>>
view == <<screen, listening, active, saving, registering, lists>>
spent == <<inputs, failures>>
vars == <<device, server, traffic, view, spent, overtaken, stray>>

----------------------------------------------------------------------------
\* A new user before his profile is written.
NewUser(a) == [id |-> a, pushId |-> "", isOnline |-> TRUE, profile |-> "bare",
               blockedUsers |-> {}, updatedAt |-> "registered"]

\* FUser.currentUser()
CurrentUser == IF auth = Nil THEN Nil ELSE current

(* A write changes one field of the account's document (or "all" of it, or *)
(* deletes it: "none").  copy is the record its completion puts into       *)
(* UserDefaults, then says what else it does, about names the user a block *)
(* or unblock is meant for (auxiliary).  A write left in the queue by a    *)
(* process that ended is sent by the next one, but has no completion left. *)

Fields == {"pushId", "isOnline", "profile", "blockedUsers"}

\* saveUserToFirestore and delete(): no completion that does anything.
Silent(field, copy) == [field |-> field, copy |-> copy, then |-> "nothing",
                        about |-> Nil, live |-> FALSE]

IsUpdate(w) == w.field \in Fields

\* updateCurrentUserInFirestore with the local record rec: the queue q after it.
\* Without a local record nothing is sent, and the completion never runs.
Updated(q, rec, field, value, then, about) ==
    IF rec = Nil THEN q
    ELSE Append(q, [field |-> field,
                    copy |-> [rec EXCEPT ![field] = value, !.updatedAt = "later"],
                    then |-> then, about |-> about, live |-> TRUE])

\* What a write makes of a document: an update changes the field that was sent,
\* and the date of update was not.  updateData fails on a missing document.
Applied(rec, w) ==
    CASE w.field \in {"all", "none"} -> w.copy
      [] w.field \in Fields /\ rec = Nil -> Nil
      [] OTHER -> [rec EXCEPT ![w.field] = w.copy[w.field]]

\* getDocument reads through the queue of the signed-in account.
Seen(a) ==
    LET after[n \in 0..Len(writes[a])] ==
            IF n = 0 THEN users[a] ELSE Applied(after[n - 1], writes[a][n])
    IN  IF auth = a THEN after[Len(writes[a])] ELSE users[a]

----------------------------------------------------------------------------
(* Starting and ending.                                                    *)

Input == inputs < MaxInputs /\ inputs' = inputs + 1 /\ UNCHANGED failures

Failure == failures < MaxFailures /\ failures' = failures + 1 /\ UNCHANGED inputs

\* startOneSignal: the push id is stored once the device has a token ...
NewPlayerId ==
    CASE oneSignal = "nothing" -> playerId
      [] oneSignal = "token" -> Nil
      [] oneSignal = "player" -> "player"

\* ... and updateOneSignalId sends it, or an empty one, to the document.
PushIdSent(q, rec) ==
    Updated(q, rec, "pushId", IF NewPlayerId = Nil THEN "" ELSE NewPlayerId,
            "nothing", Nil)

\* goToApp as account a with local record rec: USER_DID_LOGIN is observed by
\* startOneSignal.
GoToApp(a, rec) ==
    /\ playerId' = NewPlayerId
    /\ writes' = [writes EXCEPT ![a] = PushIdSent(@, rec)]

\* The user a with local record rec is online, or not.
OnlineSent(queues, a, rec, online) ==
    IF a = Nil THEN queues
    ELSE [queues EXCEPT ![a] = Updated(@, rec, "isOnline", online, "nothing", Nil)]

NoCalls == [a \in Accounts |-> "no"]

Creating == {a \in Accounts : creating[a] # "no"}

\* The process ends (killed, or a nil unwrapped) with account a, local record rec
\* and these queues, is started anew, and becomes active.  What was in memory is
\* gone; an account deletion is not resent; an account whose creation was asked
\* for may have been made.
RestartWith(a, rec, queues) ==
    /\ writes' = OnlineSent([b \in Accounts |->
                    [i \in DOMAIN queues[b] |-> [queues[b][i] EXCEPT !.live = FALSE]]],
                   a, rec, TRUE)
    /\ auth' = a
    /\ current' = rec
    /\ answers' = <<>>
    /\ fetches' = [b \in Accounts |-> 0]
    /\ leaving' = Nil
    /\ creating' = NoCalls
    /\ \E made \in SUBSET Creating :
          /\ a \in logins \cup made \cup {Nil}
          /\ logins' = logins \cup made
    /\ screen' = "welcome"
    /\ listening' = TRUE
    /\ active' = TRUE
    /\ saving' = FALSE /\ registering' = FALSE
    /\ listed' = <<>> /\ drawn' = <<>> /\ listing' = {} /\ lingering' = FALSE
    /\ UNCHANGED <<playerId, oneSignal, closed, users>>

Restart == RestartWith(auth, current, writes)

Kill == Input /\ Restart

\* The auth state listener of didFinishLaunching, which removes itself.
AuthListener ==
    /\ listening
    /\ listening' = FALSE
    /\ IF auth # Nil /\ current # Nil
       THEN GoToApp(auth, current) /\ screen' = "main"
       ELSE UNCHANGED <<playerId, writes, screen>>
    /\ UNCHANGED <<auth, current, oneSignal, server, answers, requests,
                   active, saving, registering, lists, spent>>

BecomeActive ==
    /\ ~active
    /\ active' = TRUE
    /\ writes' = OnlineSent(writes, auth, current, TRUE)
    /\ UNCHANGED <<device, server, answers, requests, screen, listening,
                   saving, registering, lists, spent>>

EnterBackground ==
    /\ active
    /\ Input
    /\ active' = FALSE
    /\ writes' = OnlineSent(writes, auth, current, FALSE)
    /\ UNCHANGED <<device, server, answers, requests, screen, listening,
                   saving, registering, lists>>

----------------------------------------------------------------------------
(* Signing in and registering.                                             *)

\* loginUserWith succeeded: the record is asked for, and the app opens at once.
Login(a) ==
    /\ screen = "welcome" /\ ~listening /\ a \in logins
    /\ Input
    /\ auth' = a
    /\ fetches' = [fetches EXCEPT ![a] = @ + 1]
    /\ GoToApp(a, current)
    /\ screen' = "main"
    /\ registering' = FALSE
    /\ UNCHANGED <<current, oneSignal, server, answers, leaving, creating,
                   listening, active, saving, lists>>

\* fetchCurrentUserFromFirestore: a document is stored, whoever is signed in.
FetchAnswer(a) ==
    /\ fetches[a] > 0
    /\ fetches' = [fetches EXCEPT ![a] = @ - 1]
    /\ current' = IF Seen(a) = Nil THEN current ELSE Seen(a)
    /\ UNCHANGED <<auth, playerId, oneSignal, server, writes, answers, leaving,
                   creating, view, spent>>

FetchFails(a) ==
    /\ fetches[a] > 0
    /\ Failure
    /\ fetches' = [fetches EXCEPT ![a] = @ - 1]
    /\ UNCHANGED <<device, server, writes, answers, leaving, creating, view>>

OpenRegistration ==
    /\ screen = "welcome" /\ ~listening
    /\ screen' = "finish"
    /\ UNCHANGED <<device, server, traffic, listening, active, saving,
                   registering, lists, spent>>

\* A screen goes: the completions it waits for no longer change what is shown.
Gone(w) ==
    [w EXCEPT !.then = CASE w.then \in {"save", "unblock"} -> "nothing"
                         [] w.then = "finish" -> "finished"
                         [] OTHER -> w.then]

ScreenGoes ==
    /\ writes' = [a \in Accounts |-> [i \in DOMAIN writes[a] |-> Gone(writes[a][i])]]
    /\ answers' = [i \in DOMAIN answers |-> [answers[i] EXCEPT !.write = Gone(@)]]

\* doneButtonPress: createUser is asked for.
Done(a) ==
    /\ screen = "finish" /\ a \notin logins \cup closed \cup Creating
    /\ Input
    /\ creating' = [creating EXCEPT ![a] = "asked"]
    /\ registering' = TRUE
    /\ UNCHANGED <<device, server, writes, answers, fetches, leaving, screen,
                   listening, active, saving, lists>>

\* cancelButtonPress empties the text fields; the call stays under way.
Cancel ==
    /\ screen = "finish"
    /\ screen' = "welcome"
    /\ creating' = [a \in Accounts |-> IF creating[a] = "asked" THEN "cancelled"
                                       ELSE creating[a]]
    /\ ScreenGoes
    /\ UNCHANGED <<device, server, fetches, leaving, listening, active, saving,
                   registering, lists, spent>>

\* saveUserToFirestore, then the profile from the text fields, like any update.
Saved(q, a) == Append(q, Silent("all", NewUser(a)))

ProfileWritten(q, rec) == Updated(q, rec, "profile", "full", "finish", Nil)

EmptyWritten(q, rec) == Updated(q, rec, "profile", "empty", "finished", Nil)

\* registerUserWith succeeded: the new user is saved in both places, then
\* registerUser writes the profile.
Registered(a) ==
    /\ creating[a] = "asked"
    /\ auth' = a
    /\ logins' = logins \cup {a}
    /\ current' = NewUser(a)
    /\ writes' = [writes EXCEPT ![a] = ProfileWritten(Saved(@, a), NewUser(a))]
    /\ creating' = [creating EXCEPT ![a] = "no"]
    /\ UNCHANGED <<playerId, oneSignal, closed, users, answers, fetches, leaving,
                   view, spent>>

\* After a cancel its text fields are empty.  If a picture was picked they are
\* written like that; if none was, imageFromInitials traps on "".first!, and
\* whether the document just set is on disk by then is open.
RegisteredLate(a) ==
    /\ creating[a] = "cancelled"
    /\ UNCHANGED spent
    /\ \/ /\ auth' = a
          /\ logins' = logins \cup {a}
          /\ current' = NewUser(a)
          /\ writes' = [writes EXCEPT ![a] = EmptyWritten(Saved(@, a), NewUser(a))]
          /\ creating' = [creating EXCEPT ![a] = "no"]
          /\ UNCHANGED <<playerId, oneSignal, closed, users, answers, fetches,
                         leaving, view>>
       \/ \E queue \in {writes[a], Saved(writes[a], a)} :
             RestartWith(a, NewUser(a), [writes EXCEPT ![a] = queue])

\* createUser failed, or its answer was lost and the account was made.
RegisterFails(a) ==
    /\ creating[a] # "no"
    /\ Failure
    /\ creating' = [creating EXCEPT ![a] = "no"]
    /\ registering' = FALSE
    /\ logins' \in {logins, logins \cup {a}}
    /\ UNCHANGED <<device, closed, users, writes, answers, fetches, leaving, screen,
                   listening, active, saving, lists>>

----------------------------------------------------------------------------
(* The network (external) and the completions.                             *)

\* The server applies the oldest write of the signed-in account, or rejects it.
Acknowledge(a, rejected) ==
    LET w == Head(writes[a])
        failed == rejected \/ (IsUpdate(w) /\ users[a] = Nil)
    IN  /\ auth = a /\ writes[a] # <<>>
        /\ writes' = [writes EXCEPT ![a] = Tail(@)]
        /\ users' = IF failed THEN users
                    ELSE [users EXCEPT ![a] = Applied(@, w)]
        /\ answers' = IF w.live THEN Append(answers, [write |-> w, failed |-> failed])
                      ELSE answers
        /\ UNCHANGED <<device, logins, closed, requests, view>>

Apply(a) == Acknowledge(a, FALSE) /\ UNCHANGED spent

Reject(a) == Failure /\ Acknowledge(a, TRUE)

\* (Wrong variants of the completions: the local record is not brought up to
\* date, the button and the spinner come back only after a success.)
StaysAsItIs(w) == current

SpinsAfterFailure(failed, next) ==
    /\ registering' = (registering /\ failed)
    /\ IF failed THEN UNCHANGED <<playerId, writes, screen>>
       ELSE /\ GoToApp(auth, current')
            /\ screen' = next
    /\ UNCHANGED <<saving, drawn>>

\* The completion of updateCurrentUserInFirestore runs: the copy becomes the
\* local record, then the caller's completion runs.
Completed(w) == w.copy

SaveDone(failed) ==
    /\ saving' = FALSE
    /\ screen' = IF ~failed /\ screen = "edit" THEN "main" ELSE screen
    /\ UNCHANGED <<playerId, writes, registering, drawn>>

FinishDone(failed, next) ==
    /\ registering' = FALSE
    /\ IF failed THEN UNCHANGED <<playerId, writes, screen>>
       ELSE /\ GoToApp(auth, current')
            /\ screen' = next
    /\ UNCHANGED <<saving, drawn>>

UnblockDone ==
    /\ drawn' = listed         \* reloadData
    /\ UNCHANGED <<playerId, writes, screen, saving, registering>>

\* After a sign-out FUser.currentUser()! or currentId() traps in the completion
\* of a block or a registration, when the copy is already in UserDefaults.
Complete ==
    /\ answers # <<>>
    /\ UNCHANGED spent
    /\ LET w == Head(answers).write
           failed == Head(answers).failed
       IN  IF auth = Nil /\ ~failed /\ w.then \in {"block", "finish", "finished"}
           THEN RestartWith(Nil, Completed(w), writes)
           ELSE /\ answers' = Tail(answers)
                /\ current' = IF failed THEN current ELSE Completed(w)
                /\ CASE w.then = "save" -> SaveDone(failed)
                     [] w.then = "finish" -> FinishDone(failed, IF screen = "finish" THEN "main" ELSE screen)
                     [] w.then = "finished" -> FinishDone(failed, screen)
                     [] w.then = "unblock" -> UnblockDone
                     [] OTHER -> UNCHANGED <<playerId, writes, screen, saving,
                                             registering, drawn>>
                /\ UNCHANGED <<auth, oneSignal, server, requests,
                               listening, active, listed, listing, lingering>>

----------------------------------------------------------------------------
(* Profile, block list.                                                    *)

\* EditProfile reads FUser.currentUser()! when it opens.
OpenEdit ==
    /\ screen = "main"
    /\ UNCHANGED spent
    /\ IF CurrentUser = Nil THEN Restart
       ELSE /\ screen' = "edit"
            /\ saving' = FALSE
            /\ UNCHANGED <<device, server, traffic, listening, active,
                           registering, lists>>

Save ==
    /\ screen = "edit" /\ ~saving
    /\ Input
    /\ saving' = TRUE
    /\ writes' = [writes EXCEPT ![auth] =
                    Updated(@, current, "profile", "edited", "save", Nil)]
    /\ UNCHANGED <<device, server, answers, requests, screen, listening,
                   active, registering, lists>>

LeaveEdit ==
    /\ screen = "edit"
    /\ screen' = "main"
    /\ saving' = FALSE
    /\ ScreenGoes
    /\ UNCHANGED <<device, server, requests, listening, active, registering, lists, spent>>

\* blockButtonPressed on u's profile, which also opens from the list of blocked
\* users.  (What it does to the chats with u is module Recents.)
Toggled(set, u) == IF u \in set THEN set \ {u} ELSE set \cup {u}

Block(u) ==
    /\ screen \in {"main", "blocked"}
    /\ Input
    /\ IF CurrentUser = Nil THEN Restart
       ELSE /\ writes' = [writes EXCEPT ![auth] =
                            Updated(@, current, "blockedUsers",
                                    Toggled(current.blockedUsers, u), "block", u)]
            /\ UNCHANGED <<device, server, answers, requests, view>>

\* BlockedUsers loads the users whose ids are in the local record when it opens.
OpenBlocked ==
    /\ screen = "main"
    /\ UNCHANGED spent
    /\ IF CurrentUser = Nil THEN Restart
       ELSE /\ screen' = "blocked"
            /\ listing' = current.blockedUsers
            /\ UNCHANGED <<device, server, traffic, listening, active, saving,
                           registering, listed, drawn, lingering>>

\* The users come in the order of the answers.
ListAnswer ==
    /\ screen = "blocked" /\ listing # {}
    /\ \E order \in [1..Cardinality(listing) -> listing] :
          /\ \A u \in listing : \E i \in DOMAIN order : order[i] = u
          /\ listed' = order /\ drawn' = order
    /\ listing' = {}
    /\ UNCHANGED <<device, server, traffic, screen, listening, active, saving,
                   registering, lingering, spent>>

\* getUsersFromFirestore asks FUser.currentId(), which traps after a sign-out.
LateListAnswer ==
    /\ lingering
    /\ UNCHANGED spent
    /\ IF auth = Nil THEN Restart
       ELSE /\ lingering' = FALSE
            /\ UNCHANGED <<device, server, traffic, screen, listening, active, saving,
                           registering, listed, drawn, listing>>

\* The list of blocked users goes, with or without its answer.
ListGoes ==
    /\ listed' = <<>> /\ drawn' = <<>> /\ listing' = {}
    /\ lingering' = (lingering \/ listing # {})

LeaveBlocked ==
    /\ screen = "blocked"
    /\ screen' = "main"
    /\ ListGoes
    /\ ScreenGoes
    /\ UNCHANGED <<device, server, requests, listening, active, saving, registering,
                   spent>>

\* Swipe and "Unblock" on u's row.  The rows are drawn again in the completion,
\* the array has changed by then: u and the user who is unblocked may differ.  A
\* row without a user traps, and so does index(of:)! when he is no longer in the
\* record.
Without(s, i) == [j \in 1..(Len(s) - 1) |-> s[IF j < i THEN j ELSE j + 1]]

Unblock(u) ==
    /\ screen = "blocked"
    /\ Input
    /\ \E i \in DOMAIN drawn :
          /\ drawn[i] = u
          /\ IF CurrentUser = Nil \/ i > Len(listed) \/ listed[i] \notin current.blockedUsers
             THEN Restart
             ELSE /\ listed' = Without(listed, i)
                  /\ writes' = [writes EXCEPT ![auth] =
                        Updated(@, current, "blockedUsers",
                                current.blockedUsers \ {listed[i]}, "unblock", u)]
                  /\ UNCHANGED <<device, server, answers, requests, screen, listening,
                                 active, saving, registering, drawn, listing, lingering>>

----------------------------------------------------------------------------
(* Signing out and deleting the account.                                   *)

\* (Wrong variant of AfterLogOut: the record stays.)
KeptRecord == current

AfterLogOut == Nil

\* logOutCurrentUser: the push id is removed by an update like any other, then
\* the local record, then the account signs out (if that does not throw).
LogOut(throws) ==
    /\ screen = "main" /\ auth # Nil
    /\ playerId' = Nil
    /\ writes' = [writes EXCEPT ![auth] =
                    Updated(@, current, "pushId", "", "nothing", Nil)]
    /\ current' = AfterLogOut
    /\ IF throws THEN UNCHANGED <<auth, screen>>
       ELSE auth' = Nil /\ screen' = "welcome"
    /\ UNCHANGED <<oneSignal, server, answers, requests, listening,
                   active, saving, registering, lists>>

SignOut == Input /\ LogOut(FALSE)

SignOutThrows == Failure /\ LogOut(TRUE)

\* Settings, deleteUser: the local record goes first, then the document, then
\* the account, if Firebase agrees.  The welcome screen is presented by Settings,
\* which cannot when the user has signed out meanwhile.
DeleteUser ==
    /\ screen = "main" /\ auth # Nil /\ leaving = Nil
    /\ Input
    /\ playerId' = Nil
    /\ current' = Nil
    /\ writes' = [writes EXCEPT ![auth] = Append(@, Silent("none", Nil))]
    /\ leaving' = auth
    /\ UNCHANGED <<auth, oneSignal, server, answers, fetches, creating, view>>

Deleted ==
    /\ leaving # Nil
    /\ leaving' = Nil
    /\ logins' = logins \ {leaving}
    /\ closed' = closed \cup {leaving}
    /\ IF auth = leaving
       THEN /\ auth' = Nil
            /\ screen' = "welcome"
            /\ saving' = FALSE
            /\ ListGoes
            /\ ScreenGoes
       ELSE UNCHANGED <<auth, screen, saving, lists, writes, answers>>
    /\ UNCHANGED <<current, playerId, oneSignal, users, fetches, creating,
                   listening, active, registering, spent>>

DeleteFails ==
    /\ leaving # Nil
    /\ Failure
    /\ leaving' = Nil
    /\ UNCHANGED <<device, server, writes, answers, fetches, creating, view>>

----------------------------------------------------------------------------
(* overtaken: since the sign-in, two exchanges with the document were under *)
(* way at once, as they are when a row is swiped that waits to be drawn     *)
(* again, or one was cut off by a restart.  stray: an exchange of an        *)
(* account was under way while it was not the one signed in or about to be  *)
(* deleted, another was being created, or the welcome screen was on display *)
(* to a user who is signed in.                                              *)

Updates(a) == {i \in DOMAIN writes[a] : IsUpdate(writes[a][i])}

UnderWay(a) == Cardinality(Updates(a)) + Len(answers) + fetches[a]

Crowded ==
    \/ auth # Nil /\ UnderWay(auth) > 1
    \/ \E a \in Accounts : \E i \in DOMAIN writes[a] :
            IsUpdate(writes[a][i]) /\ ~writes[a][i].live

Stray ==
    \/ \E a \in Accounts \ {auth} : fetches[a] > 0
    \/ \E i \in DOMAIN answers : answers[i].write.copy.id # auth
    \/ leaving # Nil /\ UnderWay(leaving) > 0
    \/ auth # Nil /\ Creating # {}
    \/ screen = "welcome" /\ auth # Nil /\ ~listening

Observe ==
    /\ overtaken' = \/ Crowded'
                    \/ drawn # listed /\ \E u \in People : Unblock(u)
                    \/ overtaken /\ auth' \in {auth, Nil}
                    \/ listening' /\ answers # <<>>
    /\ stray' = (stray \/ Stray')

Init ==
    /\ auth = Nil /\ current = Nil /\ playerId = Nil
    /\ oneSignal \in OneSignal
    /\ logins = Existing /\ closed = {}
    /\ users = [a \in Accounts |->
                    IF a \in Existing
                    THEN [NewUser(a) EXCEPT !.profile = "full", !.blockedUsers = Blocked]
                    ELSE Nil]
    /\ writes = [a \in Accounts |-> <<>>] /\ answers = <<>>
    /\ fetches = [a \in Accounts |-> 0] /\ leaving = Nil /\ creating = NoCalls
    /\ screen = "welcome" /\ listening = TRUE /\ active = TRUE
    /\ saving = FALSE /\ registering = FALSE
    /\ listed = <<>> /\ drawn = <<>> /\ listing = {} /\ lingering = FALSE
    /\ inputs = 0 /\ failures = 0
    /\ overtaken = FALSE /\ stray = FALSE

User ==
    \/ Kill \/ BecomeActive \/ EnterBackground
    \/ \E a \in Accounts : Login(a) \/ Done(a)
    \/ OpenRegistration \/ Cancel
    \/ OpenEdit \/ Save \/ LeaveEdit
    \/ OpenBlocked \/ LeaveBlocked
    \/ \E u \in People : Block(u) \/ Unblock(u)
    \/ SignOut \/ SignOutThrows \/ DeleteUser

Callback ==
    \/ AuthListener \/ Complete \/ ListAnswer \/ LateListAnswer
    \/ Deleted \/ DeleteFails
    \/ \E a \in Accounts : Registered(a) \/ RegisteredLate(a) \/ RegisterFails(a)
    \/ \E a \in Accounts :
            Apply(a) \/ Reject(a) \/ FetchAnswer(a) \/ FetchFails(a)

Next == (User \/ Callback) /\ Observe

Spec == Init /\ [][Next]_vars

\* Liveness assumes the network answers createUser and the writes of the account
\* that stays signed in, and that the main queue runs what was put there.
FairSpec ==
    /\ Spec
    /\ WF_vars(Complete /\ Observe)
    /\ \A a \in Accounts :
          /\ WF_vars((Apply(a) \/ Reject(a)) /\ Observe)
          /\ WF_vars((Registered(a) \/ RegisteredLate(a)) /\ Observe)

----------------------------------------------------------------------------
(* Properties.                                                             *)

\* The record every screen takes for the current user's is his: after a
\* sign-out nothing of the user is left, and the next one never sees it.  This
\* is lost by completions and answers that arrive after a sign-out or while the
\* account is being deleted, or by cancelling a registration half-way and
\* signing in as somebody else.
LocalIsOwn ==
    ~stray => current = Nil \/ (auth # Nil /\ current.id = auth)

\* When nothing is under way, and nothing overtook anything since the sign-in,
\* the local record is the document: also after writes the server rejected,
\* restarts, a registration, and any number of updates one after the other.
\* All but the date of update: that one is put into the copy and not sent, so
\* the document keeps the date of the registration.
AsSent(rec) == [rec EXCEPT !.updatedAt = "registered"]

LocalMirrors ==
    (auth # Nil /\ UnderWay(auth) = 0 /\ ~overtaken /\ ~stray /\ current # Nil)
        => users[auth] \in {AsSent(current), Nil}

\* Blocking writes the whole list, taken from the local record.  As long as
\* exchanges do not overtake each other, the list at the server still only
\* loses or gains the user the button was pressed for.
OnlyMeantMove ==
    [][\A a \in Accounts :
        (users[a] # Nil /\ users'[a] # Nil /\ ~overtaken /\ ~stray
            /\ users'[a].blockedUsers # users[a].blockedUsers)
        => users'[a].blockedUsers
              = Toggled(users[a].blockedUsers, Head(writes[a]).about)]_vars

\* A registration ends, in the app or with an error: its update finds the local
\* record just saved, and the document it changes is written before it.
RegistrationEnds == registering ~> ~registering

\* The app announces the push id at sign-in ("update one signal id",
\* AppDelegate.swift:192): once nothing is under way, the user's document holds
\* the id this device gave itself.  It does not after a sign-in, since the local
\* record is not there yet when updateOneSignalId looks for it.
PushIdAnnounced ==
    (auth # Nil /\ UnderWay(auth) = 0 /\ current # Nil /\ playerId # Nil
        /\ screen = "main" /\ ~overtaken /\ ~stray /\ failures = 0)
        => users[auth].pushId = playerId

=============================================================================
