------------------------------- MODULE ChatList -------------------------------
(***************************************************************************)
(* The list of chats on display (ChatsViewController.swift): the listener  *)
(* refills recentChats, a search keeps filteredChats, and the table shows  *)
(* what it read at the last reloadData.  What the operations on a recent   *)
(* do to the others is in Recents.                                         *)
(***************************************************************************)
EXTENDS Integers, Sequences, SequencesExt

CONSTANTS Chats,          \* ids of the user's recents
          Matching,       \* those a search finds: the text is in their names
          MaxChanges,     \* bound: changes made by others
          MaxTouches      \* bound: what the user does with the list

ASSUME ListAssumption == Matching \subseteq Chats /\ MaxChanges \in Nat /\ MaxTouches \in Nat

VARIABLES
    recents,       \* the user's recents with his own writes, newest first
    silent,        \* those without a last message
    due,           \* the listener has not been called since the last change
    appeared,      \* the screen is on top and recentListner is set
    recentChats, filteredChats,
    searching,     \* the search is active and its text not empty
    rows,          \* what the table read at its last reloadData
    swiped,        \* the row swiped open and its tempRecent, in a set
    trapped,       \* the call that took an index outside its array, or "no"
    changes, touches,
    astray         \* a row was deleted of a chat already gone (auxiliary)

listVars == <<recents, silent, due, appeared, recentChats, filteredChats,
              searching, rows, swiped, trapped, changes, touches, astray>>

Without(list, c) == SelectSeq(list, LAMBDA x : x # c)
At(list, i) == SubSeq(list, 1, i - 1) \o SubSeq(list, i + 1, Len(list))

\* The array the table's callbacks read.
Source == IF searching THEN filteredChats ELSE recentChats

\* reloadData, which also closes a row swiped open (external).
Reload == rows' = Source' /\ swiped' = {}

KeepTable == UNCHANGED <<rows, swiped>>

Touch == touches < MaxTouches /\ touches' = touches + 1 /\ trapped = "no"

\* viewWillAppear, viewWillDisappear when something is pushed over the list.
ChatsAppear ==
    /\ ~appeared /\ trapped = "no"
    /\ appeared' = TRUE /\ due' = TRUE
    /\ UNCHANGED <<recents, silent, recentChats, filteredChats, searching, trapped,
                   changes, touches, astray>>
    /\ KeepTable

\* Wrong variant: the list is emptied only to be filled again.
KeptIfEmpty(listed) == IF recents = <<>> THEN recentChats ELSE listed

Refilled(listed) == listed

\* Those with a last message; of an empty snapshot nothing is read.
WithMessage(list, without) == SelectSeq(list, LAMBDA c : c \notin without)

Listed == IF recents = <<>> THEN <<>> ELSE WithMessage(recents, silent)

\* The snapshot listener of loadRecentChats.
RecentsHeard ==
    /\ appeared /\ trapped = "no" /\ due
    /\ due' = FALSE
    /\ recentChats' = Refilled(Listed)
    /\ astray' = FALSE
    /\ UNCHANGED <<recents, silent, appeared, filteredChats, searching, trapped,
                   changes, touches>>
    /\ IF recents = <<>> THEN KeepTable ELSE Reload

\* Wrong variant: the table is drawn for the text only, not when it is gone.
OnlyWhileTyping(active) == IF active THEN Reload ELSE KeepTable

Drawn(active) == Reload

\* updateSearchResults, while typing and when the search ends.
FilterContent(active) ==
    /\ Touch /\ appeared
    /\ searching' = active
    /\ filteredChats' = IF active THEN SelectSeq(recentChats, LAMBDA c : c \in Matching) ELSE <<>>
    /\ UNCHANGED <<recents, silent, due, appeared, recentChats, changes, trapped, astray>>
    /\ Drawn(active)

\* didSelectRowAt and didTapAvatarImage: the chat or a profile is pushed.
TapRow(i) ==
    /\ Touch /\ appeared
    /\ IF i \in DOMAIN Source
       THEN appeared' = FALSE /\ UNCHANGED trapped
       ELSE trapped' = "tap" /\ UNCHANGED appeared
    /\ UNCHANGED <<recents, silent, due, recentChats, filteredChats, searching,
                   changes, astray>>
    /\ KeepTable

\* editActionsForRowAt: the recent is taken from the array shown.
SwipeRow(i) ==
    /\ Touch /\ appeared
    /\ IF i \in DOMAIN Source
       THEN swiped' = {[row |-> i, tempRecent |-> Source[i]]} /\ UNCHANGED trapped
       ELSE trapped' = "swipe" /\ UNCHANGED swiped
    /\ UNCHANGED <<recents, silent, due, appeared, recentChats, filteredChats, searching,
                   rows, changes, astray>>

\* deleteAction: the row out of recentChats, the swiped recent from the server.
DeleteSwiped(s) ==
    /\ s \in swiped /\ Touch /\ appeared
    /\ IF s.row \in DOMAIN recentChats
       THEN /\ recentChats' = At(recentChats, s.row)
            /\ recents' = Without(recents, s.tempRecent)
            /\ silent' = silent \ {s.tempRecent}
            /\ due' = (due \/ recents' # recents)
            /\ astray' = (astray \/ recents' = recents)
            /\ UNCHANGED <<trapped, filteredChats, searching>>
            /\ Reload
       ELSE /\ trapped' = "delete"
            /\ UNCHANGED <<recents, silent, due, recentChats, astray, filteredChats, searching>>
            /\ KeepTable
    /\ UNCHANGED <<appeared, changes>>

\* Others (external): a recent is created without a message, a message moves
\* it to the top, it is deleted.
Elsewhere(c, what) ==
    /\ changes < MaxChanges /\ changes' = changes + 1 /\ trapped = "no"
    /\ CASE what = "created" -> /\ ~Contains(recents, c)
                                /\ recents' = <<c>> \o recents /\ silent' = silent \cup {c}
         [] what = "message" -> /\ Contains(recents, c)
                                /\ recents' = <<c>> \o Without(recents, c)
                                /\ silent' = silent \ {c}
         [] what = "deleted" -> /\ Contains(recents, c)
                                /\ recents' = Without(recents, c) /\ silent' = silent \ {c}
    /\ due' = TRUE
    /\ UNCHANGED <<appeared, recentChats, filteredChats, searching, trapped,
                   touches, astray>>
    /\ KeepTable

ListInit ==
    /\ recents \in {SetToSeq(X) : X \in SUBSET Chats}
    /\ silent = {} /\ due = TRUE /\ appeared = TRUE
    /\ recentChats = <<>> /\ filteredChats = <<>> /\ rows = <<>>
    /\ searching = FALSE /\ swiped = {} /\ trapped = "no"
    /\ changes = 0 /\ touches = 0 /\ astray = FALSE

ListNext ==
    \/ ChatsAppear \/ RecentsHeard
    \/ \E active \in BOOLEAN : FilterContent(active)
    \/ \E i \in DOMAIN rows : TapRow(i) \/ SwipeRow(i)
    \/ \E s \in swiped : DeleteSwiped(s)
    \/ \E c \in Chats, what \in {"created", "message", "deleted"} : Elsewhere(c, what)

ListSpec == ListInit /\ [][ListNext]_listVars

----------------------------------------------------------------------------
\* Once the listener has been called, the list is what the collection holds,
\* with a search in between, rows deleted in it at the wrong place and the
\* screen left and shown again; the table shows it unless it became empty,
\* which is not drawn.  Only deleting, in a search that still shows it, a chat
\* already deleted elsewhere leaves another one out, until the next change.
ListFollows ==
    appeared /\ ~due /\ ~astray /\ trapped = "no" =>
        /\ recentChats = Listed
        /\ searching \/ recents = <<>> \/ rows = Listed

\* A row on display is the chat its taps and swipes take, and a row swiped open
\* is still the one that its Delete deletes, whatever arrived in between.  An
\* index leaves its array only when the chats were all deleted elsewhere, or in
\* a search that shows more than is left.
RowsLeadToChats ==
    /\ rows = Source \/ (~searching /\ recentChats = <<>>)
    /\ \A s \in swiped : s.row \in DOMAIN rows /\ rows[s.row] = s.tempRecent
    /\ trapped # "no" => recentChats = <<>> \/ (searching /\ trapped = "delete")
=============================================================================
