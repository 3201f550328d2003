----------------------------- MODULE UserLists -----------------------------
(***************************************************************************)
(* One screen that lists users: those nearby (UsersTableViewController),   *)
(* those to invite to a group (InviteUserTableViewController), or those in *)
(* the address book, to chat with or to found a group with                 *)
(* (ContactsTableViewController).                                          *)
(*                                                                         *)
(* Each load is a query of its own; its answer replaces the lists and cuts *)
(* them into sections by initial.  Loads overlap, since the segments of    *)
(* the filter stay active, and users register and leave in the meantime.   *)
(***************************************************************************)
EXTENDS Naturals, FiniteSets, SequencesExt

CONSTANTS Me,           \* the signed-in user
          Names,        \* all users, in the order of their first names
          Initial,      \* user -> first letter of his name, transliterated
          City,         \* the users with my city and ...
          Country,      \* ... with my country
          Phone,        \* user -> the digits of his phone number
          Books,        \* address books: sets of [code, digits]
          Texts,        \* search texts, each the set of users it is in the name of
          Blocked,      \* users that checkBlockedStatus holds for
          MaxLoads, MaxChanges      \* bounds of the model

Users == Range(Names)

\* Each user has one document; a first name has a first letter.
ASSUME UsersAssumption ==
    /\ Names \in Seq(Users)
    /\ \A i, j \in 1..Len(Names) : Names[i] = Names[j] => i = j
    /\ Me \in City \cap Country
    /\ Users = DOMAIN Initial /\ \A u \in Users : Initial[u] # ""

\* Phone numbers are sequences of digits; each country has a code.
ASSUME NumbersAssumption ==
    /\ Phone \in [Users -> Seq(Nat)]
    /\ \A B \in Books : B \subseteq [code : Seq(Nat) \ {<<>>}, digits : Seq(Nat)]

VARIABLES kind,         \* which of the screens it is
          book,         \* the address book of the phone
          known,        \* the users that have a document (external)
          queries,      \* the loads without an answer
          segment,      \* the filter selected, kCITY at first
          all,          \* allUsers; matchedUsers of the contacts
          titles,       \* sectionTitleList
          groups,       \* allUsersGroupped: initial -> users
          text,         \* what the search bar holds, NoText for ""
          filtered,     \* filteredUsers, filteredMatchedUsers
          picked,       \* memberIdsOfGroupChat
          away,         \* is a chat or a profile shown on top of the screen?
          loads, changes,      \* for the bounds
          answer, stale, overlapped, returned, gone      \* auxiliary, see below

lists == <<all, titles, groups>>
aux == <<answer, stale, overlapped, returned, gone>>
vars == <<kind, book, known, queries, segment, lists, text, filtered, picked, away,
          loads, changes, aux>>

NoText == {""}                                    \* the empty text
None == [filter |-> "none", known |-> {}]          \* no answer on display

Filters == {"city", "country", "all"}
Kinds == {"nearby", "invite", "contacts", "members"}
OfContacts == kind \in {"contacts", "members"}

----------------------------------------------------------------------------
(* The pure parts.                                                         *)

Within(filter) ==
    CASE filter = "city" -> City
      [] filter = "country" -> Country
      [] OTHER -> Users

\* The users of a list that are in a set, in the order of the list.
Kept(list, set) ==
    LET kept[n \in 0..Len(list)] ==
            IF n = 0 THEN <<>>
            ELSE IF list[n] \in set THEN Append(kept[n - 1], list[n])
            ELSE kept[n - 1]
    IN  kept[Len(list)]

\* What the query of a load finds, without the signed-in user.
Found(filter) == (known \cap Within(filter)) \ {Me}

Starts(code, digits) ==
    /\ Len(code) <= Len(digits)
    /\ SubSeq(digits, 1, Len(code)) = code

\* (Wrong variant: the numbers are compared as they are stored.)
KeepsCountryCode(code, digits) == digits

\* removeCountryCode: replacingOccurrences takes the code away wherever it is.
RemoveCountryCode(code, digits) ==
    LET rest[i \in 1..Len(digits) + Len(code)] ==
            IF i > Len(digits) THEN <<>>
            ELSE IF Starts(code, SubSeq(digits, i, Len(digits)))
                 THEN rest[i + Len(code)]
                 ELSE <<digits[i]>> \o rest[i + 1]
    IN  rest[1]

\* searchForContactUsingPhoneNumber finds a contact for the user.
Matches(u) ==
    /\ Phone[u] # <<>>
    /\ \E e \in book : RemoveCountryCode(e.code, e.digits) = Phone[u]

\* One step of splitDataIntoSections: a section starts, empty, where the initial
\* differs from that of the user before, also if there was one already.
Section(sections, u) ==
    LET t == Initial[u]
        users == IF t = sections.title THEN sections.groups[t] ELSE <<>>
    IN  [i \in DOMAIN sections.groups \cup {t} |->
            IF i = t THEN Append(users, u) ELSE sections.groups[i]]

AddTo(sections, u) ==
    [title |-> Initial[u],
     titles |-> IF Initial[u] = sections.title THEN sections.titles
                ELSE Append(sections.titles, Initial[u]),
     groups |-> Section(sections, u)]

\* The contacts, which keep their titles and sections, list a title once.
AddToContacts(sections, u) ==
    [title |-> Initial[u],
     titles |-> IF Initial[u] \in Range(sections.titles) THEN sections.titles
                ELSE Append(sections.titles, Initial[u]),
     groups |-> Section(sections, u)]

\* splitDataIntoSections, for the users of a list one after the other.
Cut(sections, list) ==
    LET cut[n \in 0..Len(list)] ==
            IF n = 0 THEN sections
            ELSE IF OfContacts THEN AddToContacts(cut[n - 1], list[n])
            ELSE AddTo(cut[n - 1], list[n])
    IN  cut[Len(list)]

NoSections == [title |-> "", titles |-> <<>>, groups |-> <<>>]
OldSections == [title |-> "", titles |-> titles, groups |-> groups]

\* What the table shows.  Every change of the lists ends in reloadData.
Sections ==
    IF text # NoText THEN <<filtered>>
    ELSE [s \in 1..Cardinality(DOMAIN groups) |-> groups[titles[s]]]

\* filterContentForSearchText.
Searched(t) == Kept(all, t)

----------------------------------------------------------------------------
(* Loads.                                                                  *)

Load(filter) ==
    /\ loads < MaxLoads
    /\ loads' = loads + 1
    /\ queries' = queries \cup {[n |-> loads, filter |-> filter]}
    /\ overlapped' = (queries # {})

\* The segments are those of the screens with a filter.
SelectSegment(filter) ==
    /\ kind \in {"nearby", "invite"} /\ ~away
    /\ filter # segment
    /\ segment' = filter
    /\ Load(filter)
    /\ returned' = FALSE
    /\ UNCHANGED <<kind, book, known, lists, text, filtered, picked, away, changes,
                   answer, stale, gone>>

Show(list, sections) ==
    /\ all' = list
    /\ titles' = sections.titles
    /\ groups' = sections.groups

\* (Wrong variant: the lists are not cleared.)
KeepsLists(q) ==
    LET list == all \o Kept(Names, Found(q.filter))
    IN  Show(list, Cut(OldSections, list))

\* The answer of users nearby or to invite: the lists are cleared first.
ListAnswer(q) ==
    LET list == Kept(Names, Found(q.filter))
    IN  Show(list, Cut(NoSections, list))

\* The answer of the contacts: the users that compareUsers matches.
ContactsAnswer(q) ==
    LET list == Kept(Names, {u \in Found(q.filter) : Matches(u)})
    IN  Show(list, Cut(OldSections, list))

\* answer: the load whose answer is on display, with the users there were.
\* stale: what is on display was searched before that answer came.
Answer(q) ==
    /\ queries' = queries \ {q}
    /\ IF OfContacts THEN ContactsAnswer(q) ELSE ListAnswer(q)
    /\ answer' = [filter |-> q.filter, known |-> known]
    /\ stale' = (text # NoText)
    /\ UNCHANGED <<kind, book, known, segment, text, filtered, picked, away, loads,
                   changes, overlapped, returned, gone>>

\* An error empties the lists ...
ListFail == Show(<<>>, NoSections) /\ answer' = None

\* ... but leaves the contacts as they are.
ContactsFail == UNCHANGED <<lists, answer>>

Fail(q) ==
    /\ queries' = queries \ {q}
    /\ IF OfContacts THEN ContactsFail ELSE ListFail
    /\ stale' = (text # NoText)
    /\ UNCHANGED <<kind, book, known, segment, text, filtered, picked, away, loads,
                   changes, overlapped, returned, gone>>

----------------------------------------------------------------------------
(* The user.                                                               *)

\* updateSearchResults; an empty text is contained in no name.
Search(t) ==
    /\ kind # "invite" /\ ~away
    /\ t # text
    /\ text' = t
    /\ filtered' = Searched(t)
    /\ stale' = FALSE
    /\ UNCHANGED <<kind, book, known, queries, segment, lists, picked, away, loads,
                   changes, answer, overlapped, returned, gone>>

RowAt(s, r) ==
    IF text # NoText THEN filtered[r] ELSE groups[titles[s]][r]

\* didSelectRowAt of the users nearby and of the contacts to chat with.
Tap(s, r) ==
    /\ kind \in {"nearby", "contacts"} /\ ~away
    /\ RowAt(s, r) \notin Blocked
    /\ away' = TRUE
    /\ UNCHANGED <<kind, book, known, queries, segment, lists, text, filtered, picked,
                   loads, changes, aux>>

\* didSelectRowAt of the contacts for a group.
Pick(s, r) ==
    /\ kind = "members" /\ ~away
    /\ LET u == RowAt(s, r)
       IN  picked' = IF u \in Range(picked)
                     THEN RemoveFirst(picked, u)
                     ELSE Append(picked, u)
    /\ UNCHANGED <<kind, book, known, queries, segment, lists, text, filtered, away,
                   loads, changes, aux>>

\* A tap on an avatar shows the profile.
ShowProfile ==
    /\ ~OfContacts /\ ~away
    /\ away' = TRUE
    /\ UNCHANGED <<kind, book, known, queries, segment, lists, text, filtered, picked,
                   loads, changes, aux>>

\* The contacts look for the section under the number of the row: where there
\* is none, the app ends and the screen with it.
ShowContact(r) ==
    /\ OfContacts /\ ~away
    /\ text = NoText => r \in DOMAIN titles /\ r \in DOMAIN groups[titles[r]]
    /\ away' = TRUE
    /\ UNCHANGED <<kind, book, known, queries, segment, lists, text, filtered, picked,
                   loads, changes, aux>>

\* Next shows the screen of the new group.
NextPressed ==
    /\ kind = "members" /\ ~away
    /\ picked # <<>>
    /\ away' = TRUE
    /\ UNCHANGED <<kind, book, known, queries, segment, lists, text, filtered, picked,
                   loads, changes, aux>>

\* Back again, viewWillAppear: nothing for users nearby, the users of the city
\* for those to invite, whatever is selected, and all users for contacts.
NearbyAppears == kind = "nearby" /\ UNCHANGED <<queries, loads, overlapped, returned>>

InviteAppears ==
    kind = "invite" /\ Load("city") /\ returned' = (segment # "city")

ContactsAppear == OfContacts /\ Load("all") /\ UNCHANGED returned

Return ==
    /\ away
    /\ away' = FALSE
    /\ NearbyAppears \/ InviteAppears \/ ContactsAppear
    /\ UNCHANGED <<kind, book, known, segment, lists, text, filtered, picked, changes,
                   answer, stale, gone>>

\* Other people register and delete their accounts.
Change(u) ==
    /\ changes < MaxChanges
    /\ changes' = changes + 1
    /\ known' = IF u \in known THEN known \ {u} ELSE known \cup {u}
    /\ gone' = gone \cup (known \ known')
    /\ UNCHANGED <<kind, book, queries, segment, lists, text, filtered, picked, away,
                   loads, answer, stale, overlapped, returned>>

----------------------------------------------------------------------------
\* The screen appears and loads, the contacts all users, the others the city.
Init ==
    /\ kind \in Kinds
    /\ book \in Books
    /\ known \in {K \in SUBSET Users : Me \in K}
    /\ segment = "city"
    /\ queries = {[n |-> 0, filter |-> IF OfContacts THEN "all" ELSE "city"]}
    /\ all = <<>> /\ titles = <<>> /\ groups = <<>>
    /\ text = NoText /\ filtered = <<>>
    /\ picked = <<>> /\ away = FALSE
    /\ loads = 1 /\ changes = 0
    /\ answer = None /\ gone = {}
    /\ stale = FALSE /\ overlapped = FALSE /\ returned = FALSE

Touch ==
    \E s \in DOMAIN Sections : \E r \in DOMAIN Sections[s] :
        Tap(s, r) \/ Pick(s, r) \/ ShowProfile \/ ShowContact(r)

Next ==
    \/ \E filter \in Filters : SelectSegment(filter)
    \/ \E q \in queries : Answer(q) \/ Fail(q)
    \/ \E t \in Texts \cup {NoText} : Search(t)
    \/ Touch
    \/ NextPressed
    \/ Return
    \/ \E u \in Users \ {Me} : Change(u)

Spec == Init /\ [][Next]_vars

----------------------------------------------------------------------------
(* Properties.                                                             *)

\* A number of the address book that is the user's, as he gave it or with the
\* country code in front.
InBook(u) ==
    /\ Phone[u] # <<>>
    /\ \E e \in book : e.digits \in {Phone[u], e.code \o Phone[u]}

\* Where the code is part of the number itself, it is removed there, too: of such
\* address books nothing is promised.
Occurs(code, digits) ==
    \E i \in 1..Len(digits) : Starts(code, SubSeq(digits, i, Len(digits)))

PlainBook ==
    \A e \in book :
        /\ ~Occurs(e.code, IF Starts(e.code, e.digits)
                           THEN SubSeq(e.digits, Len(e.code) + 1, Len(e.digits))
                           ELSE e.digits)
        /\ \A u \in Users : e.digits = Phone[u] => ~Starts(e.code, e.digits)

Listed ==
    {u \in (answer.known \cap Within(answer.filter)) \ {Me} : OfContacts => InBook(u)}

Expected == IF text = NoText THEN Listed ELSE Listed \cap text

\* No initial comes up again after another one.
Contiguous ==
    \A i, k, j \in {n \in 1..Len(Names) : Names[n] \in Listed} :
        i < k /\ k < j /\ Initial[Names[i]] = Initial[Names[j]] =>
            Initial[Names[k]] = Initial[Names[i]]

Places(u) ==
    UNION {{<<s, r>> : r \in {i \in DOMAIN Sections[s] : Sections[s][i] = u}} :
                s \in DOMAIN Sections}

\* The sections are the list: each user that the last answer holds, and that
\* is a contact on those screens, has one row, in the section of his initial;
\* nobody else has one.  Those who left stay in an old section of the contacts.
EachListedOnce ==
    (answer # None /\ ~stale /\ PlainBook /\ Contiguous) =>
        /\ \A u \in Expected : Cardinality(Places(u)) = 1
        /\ \A u \in Users : Places(u) # {} =>
              u \in Expected \/ (OfContacts /\ u \in gone)
        /\ text = NoText =>
              \A u \in Expected : \A p \in Places(u) : titles[p[1]] = Initial[u]

\* The users shown are those of the filter selected, unless loads overlapped,
\* whose answers come in any order, or the screen for invitations came back.
FilterChosenIsShown ==
    (answer # None /\ queries = {} /\ ~overlapped /\ ~returned
        /\ kind \in {"nearby", "invite"}) =>
            Range(all) = (answer.known \cap Within(segment)) \ {Me}
=============================================================================
