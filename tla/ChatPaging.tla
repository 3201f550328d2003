----------------------------- MODULE ChatPaging -----------------------------
(***************************************************************************)
(* How ChatViewController.swift pages through loadedMessages: the first    *)
(* query fills it with the last messages, getOldmessagesInBackground puts  *)
(* all older ones in front, insertMessages and loadMoreMessages insert     *)
(* rows by index.                                                          *)
(*                                                                         *)
(* Putting messages in front of the array shifts its indices, so a message *)
(* is named here by its age: the newest loaded one has age 1, the one at   *)
(* index i age len - i. items lists the ages on display from the bottom up.*)
(***************************************************************************)
EXTENDS Integers, Sequences

CONSTANTS NumberOfMessages,    \* kNUMBEROFMESSAGES, 10 (once a literal)
          FirstQuery,          \* limit(to: 11)
          MaxOlder             \* bound on the older messages stored

ASSUME PageAssumption ==
    /\ NumberOfMessages \in Nat \ {0}
    /\ FirstQuery = NumberOfMessages + 1
    /\ MaxOlder \in Nat

VARIABLES
    phase,      \* of loadMessages: "loading", "loaded"; "trapped" by an index
    history,    \* of getOldmessagesInBackground
    len,        \* loadedMessages.count
    displayed,  \* loadedMessagesCount
    max, min,   \* maxMessageNumber, minMessageNumber
    loadOld,
    header,     \* showLoadEarlierMessagesHeader
    items

pagingVars == <<phase, history, len, displayed, max, min, loadOld, header, items>>

Clipped(n) == IF n < 0 THEN 0 ELSE n

\* Wrong variants: the button stays with the first page; it goes with the second.
ButtonOfFirstPage(c, n) == n > NumberOfMessages
ButtonUntilFirstTap(c, n) == c = NumberOfMessages /\ c # n

ShowButton(c, n) == c # n

\* The rows after inserting, one by one on top, indices hi down to lo.
Inserted(hi, lo) ==
    [k \in 1..(Len(items) + hi - lo + 1) |->
        IF k <= Len(items) THEN items[k] ELSE len - hi + (k - Len(items) - 1)]

----------------------------------------------------------------------------
PagingInit ==
    /\ phase = "loading" /\ history = "none"
    /\ len = 0 /\ displayed = 0
    /\ max = 0 /\ min = 0
    /\ loadOld = FALSE /\ header = FALSE
    /\ items = <<>>

\* loadMessages with n messages left by removeBadMessages: insertMessages, and
\* the older ones are asked for when there are more than 10.
LoadMessages(n) ==
    /\ phase = "loading"
    /\ phase' = "loaded"
    /\ len' = n
    /\ max' = n
    /\ min' = Clipped(n - NumberOfMessages)
    /\ displayed' = max' - min'
    /\ items' = [k \in 1..displayed' |-> k]
    /\ header' = ShowButton(displayed', n)
    /\ history' = IF n > NumberOfMessages THEN "asked" ELSE "none"
    /\ UNCHANGED loadOld

\* The answer with n older messages.
OldMessages(n) ==
    /\ phase = "loaded" /\ history = "asked"
    /\ history' = "loaded"
    /\ len' = len + n
    /\ max' = len' - displayed - 1
    /\ min' = max' - NumberOfMessages
    /\ UNCHANGED <<phase, displayed, loadOld, header, items>>

OldMessagesFailed ==
    /\ phase = "loaded" /\ history = "asked"
    /\ history' = "failed"
    /\ UNCHANGED <<phase, len, displayed, max, min, loadOld, header, items>>

\* The range that the header's button asks for.  A range with max < min, or an
\* index beyond the array, traps.

\* Wrong variant: the page begins where the last one ended.
SameMax == IF loadOld THEN min ELSE max

NextMax == IF loadOld THEN min - 1 ELSE max

\* Wrong variant: the last page is not clipped.
NextUnclipped == IF loadOld THEN NextMax - NumberOfMessages ELSE min

NextMin == Clipped(IF loadOld THEN NextMax - NumberOfMessages ELSE min)

LoadMore ==
    /\ phase = "loaded" /\ header
    /\ max' = NextMax /\ min' = NextMin
    /\ IF 0 <= NextMin /\ NextMin <= NextMax /\ NextMax < len
       THEN /\ items' = Inserted(NextMax, NextMin)
            /\ displayed' = displayed + NextMax - NextMin + 1
            /\ loadOld' = TRUE
            /\ header' = ShowButton(displayed', len)
            /\ UNCHANGED phase
       ELSE /\ phase' = "trapped"
            /\ UNCHANGED <<items, displayed, loadOld, header>>
    /\ UNCHANGED <<history, len>>

PagingNext ==
    \/ \E n \in 0..FirstQuery : LoadMessages(n)
    \/ \E n \in 0..MaxOlder : OldMessages(n)
    \/ OldMessagesFailed
    \/ LoadMore

PagingSpec == PagingInit /\ [][PagingNext]_pagingVars

\* The user who keeps pressing the button.
FairPagingSpec == PagingSpec /\ WF_pagingVars(LoadMore)

----------------------------------------------------------------------------
(* Properties.                                                             *)

\* The types of the controller's counters.
PagingTypeOK ==
    /\ phase \in {"loading", "loaded", "trapped"}
    /\ history \in {"none", "asked", "loaded", "failed"}
    /\ len \in Nat /\ displayed \in Nat
    /\ max \in Int /\ min \in Int
    /\ loadOld \in BOOLEAN /\ header \in BOOLEAN
    /\ items \in Seq(1..len)

\* However the older messages and the taps on the button follow each other,
\* the rows are the newest loaded messages in order, none missing, none twice.
RowsInOrder == items = [k \in 1..displayed |-> k]

\* The button is there exactly as long as loaded messages are not on display,
\* so the next page is never empty.
ButtonWhileEarlier == phase = "loaded" => header <=> displayed < len

\* Once the older messages have come, no tap leaves the array or asks for an
\* empty range (a tap before that does: index 11 of 11).
NoTrapOnceLoaded == phase = "trapped" => history # "loaded"

\* Once the older messages have come, tapping shows all of them.
AllShown == history = "loaded" ~> (displayed = len)
=============================================================================
