---------------------------- MODULE RecentBoard ----------------------------
(***************************************************************************)
(* What the recents of a room promise, without queries, callbacks, queues  *)
(* or apps that are killed: a board of rows.  Recents implements it.       *)
(*                                                                         *)
(* A row is put up once, unread count 0 and no message on it.  While it is *)
(* up, its members and its partner stay as they are and its unread count   *)
(* never exceeds what the others have announced to its owner.  A row that  *)
(* was taken down never comes back, not even by a late update.             *)
(***************************************************************************)
EXTENDS Naturals

CONSTANTS Users, Id

VARIABLES docs,        \* the rows that are up
          announced,   \* user -> how many messages others announced to him
          retired      \* the rows taken down

vars == <<docs, announced, retired>>

Init ==
    /\ DOMAIN docs = {}
    /\ announced = [u \in Users |-> 0]
    /\ retired = {}

Announce(u) ==
    /\ announced' = [v \in Users |-> announced[v] + IF v # u THEN 1 ELSE 0]
    /\ UNCHANGED <<docs, retired>>

PutUp(id) ==
    /\ id \in Id \ (DOMAIN docs \cup retired)
    /\ \A i \in DOMAIN docs : ~(i.creator = id.creator /\ i.userId = id.userId)
    /\ DOMAIN docs' = DOMAIN docs \cup {id}
    /\ \A i \in DOMAIN docs : docs'[i] = docs[i]
    /\ docs'[id].counter = 0 /\ docs'[id].lastMessage = 0
    /\ id.userId \in docs'[id].members
    /\ UNCHANGED <<announced, retired>>

Change(id) ==
    /\ id \in DOMAIN docs
    /\ DOMAIN docs' = DOMAIN docs
    /\ \A i \in DOMAIN docs \ {id} : docs'[i] = docs[i]
    /\ docs'[id].members = docs[id].members
    /\ docs'[id].withUser = docs[id].withUser
    /\ docs'[id].counter <= announced[id.userId]
    /\ UNCHANGED <<announced, retired>>

TakeDown(id) ==
    /\ id \in DOMAIN docs
    /\ DOMAIN docs' = DOMAIN docs \ {id}
    /\ \A i \in DOMAIN docs' : docs'[i] = docs[i]
    /\ retired' = retired \cup {id}
    /\ UNCHANGED announced

Next ==
    \/ \E u \in Users : Announce(u)
    \/ \E id \in DOMAIN docs \cup DOMAIN docs' :
          PutUp(id) \/ Change(id) \/ TakeDown(id)

Spec == Init /\ [][Next]_vars
=============================================================================
