----------------------------- MODULE ScreenProofs -----------------------------
(* The five parts of the client that share no state, each for every value of  *)
(* its constants: the list of chats, the answers counted for a push, the      *)
(* files of downloaded media, the typing indicator, and the pages of a chat.  *)
EXTENDS Typing, PushIds, MediaCache, ChatList, ChatPaging, NaturalsInduction,
        WellFoundedInduction, FiniteSetTheorems, SequenceTheorems, TLAPS

--------------------------------------------------------------------------------
(* The list of chats. The two properties are inductive together with nothing: *)
(* what the table shows and what its callbacks read part only where a search  *)
(* does not look, at an empty list.                                           *)

ListInv == ListFollows /\ RowsLeadToChats

LEMMA ListInvInit == ListInit => ListInv
  BY DEF ListInit, ListInv, ListFollows, RowsLeadToChats, Source

(* A table drawn anew shows what its callbacks read, and no row is open.      *)
LEMMA ReloadLeads ==
  ASSUME Reload, trapped' = "no"
  PROVE  RowsLeadToChats'
  BY DEF Reload, RowsLeadToChats

(* Of a list that is empty no row can be taken.                               *)
LEMMA RowsRead ==
  ASSUME ListInv, NEW i \in DOMAIN rows
  PROVE  \/ ~searching /\ recentChats = <<>>
         \/ i \in DOMAIN Source /\ rows[i] = Source[i]
  BY DEF ListInv, RowsLeadToChats

LEMMA ListStep == ListInv /\ [ListNext]_listVars => ListInv'
  <1> SUFFICES ASSUME ListInv, [ListNext]_listVars PROVE ListInv'
    OBVIOUS
  <1> USE DEF ListInv
  <1>1. CASE ChatsAppear
    <2>1. ListFollows'
      BY <1>1 DEF ChatsAppear, ListFollows
    <2>2. RowsLeadToChats'
      BY <1>1 DEF ChatsAppear, KeepTable, RowsLeadToChats, Source
    <2> QED BY <2>1, <2>2
  <1>2. CASE RecentsHeard
    <2>1. /\ recentChats' = Listed /\ trapped = "no" /\ UNCHANGED <<recents, silent, searching,
                                                        filteredChats, trapped>>
          /\ IF recents = <<>> THEN UNCHANGED <<rows, swiped>> ELSE Reload
      BY <1>2 DEF RecentsHeard, Refilled, KeepTable
    <2>2. Listed' = Listed /\ (recents = <<>> => Listed = <<>>)
      BY <2>1 DEF Listed
    <2>3. CASE recents = <<>>
      <3>1. RowsLeadToChats'
        BY <2>1, <2>2, <2>3 DEF RowsLeadToChats, Source
      <3>2. ListFollows'
        BY <2>1, <2>2, <2>3 DEF ListFollows
      <3> QED BY <3>1, <3>2
    <2>4. CASE recents # <<>>
      <3>1. Reload
        BY <2>1, <2>4
      <3>2. rows' = IF searching THEN filteredChats' ELSE recentChats'
        BY <3>1, <2>1 DEF Reload, Source
      <3>3. ListFollows'
        BY <2>1, <2>2, <3>2 DEF ListFollows
      <3> QED BY <3>1, <3>3, <2>1, ReloadLeads
    <2> QED BY <2>3, <2>4
  <1>3. ASSUME NEW active \in BOOLEAN, FilterContent(active) PROVE ListInv'
    <2>1. /\ Reload /\ searching' = active /\ trapped' = "no"
          /\ UNCHANGED <<recents, silent, due, appeared, recentChats, trapped, astray>>
      BY <1>3 DEF FilterContent, Drawn, Touch
    <2>2. Listed' = Listed
      BY <2>1 DEF Listed
    <2>3. ~searching' => rows' = recentChats
      BY <2>1 DEF Reload, Source
    <2>4. ListFollows'
      BY <2>1, <2>2, <2>3 DEF ListFollows
    <2> QED BY <2>1, <2>4, ReloadLeads
  <1>4. ASSUME NEW i \in DOMAIN rows, TapRow(i) PROVE ListInv'
    <2>1. /\ UNCHANGED <<rows, swiped, recents, silent, due, recentChats, searching,
                         filteredChats, astray>>
          /\ appeared /\ trapped = "no"
          /\ IF i \in DOMAIN Source THEN ~appeared' /\ trapped' = trapped
             ELSE trapped' = "tap"
      BY <1>4 DEF TapRow, Touch, KeepTable
    <2>2. ListFollows'
      BY <2>1 DEF ListFollows
    <2>3. i \notin DOMAIN Source => recentChats = <<>>
      BY RowsRead
    <2>4. RowsLeadToChats'
      BY <2>1, <2>3 DEF RowsLeadToChats, Source
    <2> QED BY <2>2, <2>4
  <1>5. ASSUME NEW i \in DOMAIN rows, SwipeRow(i) PROVE ListInv'
    <2>1. /\ UNCHANGED <<rows, recents, silent, due, recentChats, searching, appeared,
                         filteredChats, astray>>
          /\ trapped = "no"
          /\ IF i \in DOMAIN Source
             THEN swiped' = {[row |-> i, tempRecent |-> Source[i]]} /\ trapped' = trapped
             ELSE trapped' = "swipe" /\ swiped' = swiped
      BY <1>5 DEF SwipeRow, Touch
    <2>2. ListFollows'
      <3>1. Listed' = Listed
        BY <2>1 DEF Listed
      <3> QED BY <2>1, <3>1 DEF ListFollows
    <2>3. \/ ~searching /\ recentChats = <<>>
          \/ i \in DOMAIN Source /\ rows[i] = Source[i]
      BY RowsRead
    <2>4. ~searching /\ recentChats = <<>> => Source = <<>> /\ i \notin DOMAIN Source
      <3>1. DOMAIN <<>> = {}
        OBVIOUS
      <3> QED BY <3>1 DEF Source
    <2>5. Source' = Source
      BY <2>1 DEF Source
    <2>6. CASE i \in DOMAIN Source
      BY <2>1, <2>2, <2>3, <2>4, <2>5, <2>6 DEF RowsLeadToChats
    <2>7. CASE i \notin DOMAIN Source
      BY <2>1, <2>2, <2>3, <2>5, <2>7 DEF RowsLeadToChats
    <2> QED BY <2>6, <2>7
  <1>6. ASSUME NEW s \in swiped, DeleteSwiped(s) PROVE ListInv'
    <2>1. CASE s.row \in DOMAIN recentChats
      <3>1. Reload /\ trapped' = "no"
        BY <1>6, <2>1 DEF DeleteSwiped, Touch
      <3>2. due' \/ astray'
        BY <1>6, <2>1 DEF DeleteSwiped
      <3> QED BY <3>1, <3>2, ReloadLeads DEF ListFollows
    <2>2. CASE s.row \notin DOMAIN recentChats
      <3>1. /\ trapped' = "delete" /\ trapped = "no"
            /\ UNCHANGED <<rows, swiped, recentChats, filteredChats, searching>>
        BY <1>6, <2>2 DEF DeleteSwiped, Touch, KeepTable
      <3>2. Source' = Source
        BY <3>1 DEF Source
      <3>3. recentChats = <<>> \/ searching
        <4>1. s.row \in DOMAIN rows
          BY DEF RowsLeadToChats
        <4> QED BY <4>1, <2>2 DEF RowsLeadToChats, Source
      <3> QED BY <3>1, <3>2, <3>3 DEF ListFollows, RowsLeadToChats
    <2> QED BY <2>1, <2>2
  <1>7. ASSUME NEW c, NEW what, Elsewhere(c, what) PROVE ListInv'
    <2>1. /\ due' /\ UNCHANGED <<rows, swiped, recentChats, filteredChats, searching, trapped>>
      BY <1>7 DEF Elsewhere, KeepTable
    <2> QED BY <2>1 DEF ListFollows, RowsLeadToChats, Source
  <1>8. CASE UNCHANGED listVars
    <2>1. Listed' = Listed /\ Source' = Source
      BY <1>8 DEF listVars, Listed, Source
    <2> QED BY <1>8, <2>1 DEF listVars, ListFollows, RowsLeadToChats
  <1> QED BY <1>1, <1>2, <1>3, <1>4, <1>5, <1>6, <1>7, <1>8 DEF ListNext

(* After each call of the listener the list is what the collection holds,     *)
(* whatever was searched, deleted and pushed over it in between; the table    *)
(* shows it unless it became empty.                                           *)
THEOREM Follows == ListSpec => []ListFollows
  <1>1. ListInv => ListFollows
    BY DEF ListInv
  <1> QED BY <1>1, ListInvInit, ListStep, PTL DEF ListSpec

(* A tap, a swipe and the Delete of a row take the chat that is on display in *)
(* it; an index leaves its array only when the chats were all deleted         *)
(* elsewhere, or in a search that shows more than is left.                    *)
THEOREM RowsLead == ListSpec => []RowsLeadToChats
  <1>1. ListInv => RowsLeadToChats
    BY DEF ListInv
  <1> QED BY <1>1, ListInvInit, ListStep, PTL DEF ListSpec

--------------------------------------------------------------------------------
(* Answers counted. Found is whose document has come.                         *)

Lost == {f[1] : f \in unfound}
Found == (Ids \ unanswered) \ Lost

PushInv ==
  /\ asked \subseteq Members /\ unanswered \subseteq Ids
  /\ reader \in {"push", "users"}
  /\ unfound \subseteq (Ids \ unanswered) \X {"missing", "error"}
  /\ count = Cardinality(Found)
  /\ usersArray = Found \ {Myself}
  /\ completions \in Seq(SUBSET Members)
  /\ \A i \in 1..Len(completions) : completions[i] \subseteq usersArray
  /\ \A i, j \in 1..Len(completions) : i < j => completions[i] \subseteq completions[j]
  /\ IF unanswered = {} /\ unfound = {} /\ Ids # {}
     THEN completions = <<Ids \ {Myself}>>
     ELSE Len(completions) = Cardinality(Failures)

LEMMA IdsFinite ==
  ASSUME asked \subseteq Members
  PROVE  Ids \subseteq Members /\ IsFiniteSet(Ids)
  <1>1. Ids \subseteq Members
    BY DEF Ids
  <1> QED BY <1>1, PushAssumption, FS_Subset

LEMMA PushInvInit == PushInit => PushInv
  <1> SUFFICES ASSUME PushInit PROVE PushInv
    OBVIOUS
  <1>1. /\ asked \subseteq Members /\ unanswered = Ids /\ unfound = {} /\ count = 0
        /\ usersArray = {} /\ completions = <<>> /\ reader \in {"push", "users"}
    BY DEF PushInit
  <1>2. Found = {} /\ Failures = {} /\ Cardinality({}) = 0
    BY <1>1, FS_EmptySet DEF Found, Failures
  <1>3. Len(completions) = 0 /\ completions \in Seq(SUBSET Members) /\ 1..0 = {}
    BY <1>1
  <1> QED BY <1>1, <1>2, <1>3 DEF PushInv

(* The completion is called with what was found, or not called.               *)
LEMMA CallsGrow ==
  ASSUME NEW C \in Seq(SUBSET Members), NEW a \in SUBSET Members, NEW b \in SUBSET Members,
         a \subseteq b,
         \A i \in 1..Len(C) : C[i] \subseteq a,
         \A i, j \in 1..Len(C) : i < j => C[i] \subseteq C[j]
  PROVE  /\ Append(C, b) \in Seq(SUBSET Members) /\ Len(Append(C, b)) = Len(C) + 1
         /\ \A i \in 1..Len(Append(C, b)) : Append(C, b)[i] \subseteq b
         /\ \A i, j \in 1..Len(Append(C, b)) :
              i < j => Append(C, b)[i] \subseteq Append(C, b)[j]
  <1> DEFINE D == Append(C, b)
  <1>1. /\ D \in Seq(SUBSET Members) /\ Len(D) = Len(C) + 1 /\ Len(C) \in Nat
        /\ D[Len(C) + 1] = b /\ \A i \in 1..Len(C) : D[i] = C[i]
    OBVIOUS
  <1> HIDE DEF D
  <1>2. ASSUME NEW i \in 1..Len(D) PROVE D[i] \subseteq b
    <2>1. i \in 1..Len(C) \/ i = Len(C) + 1
      BY <1>1
    <2> QED BY <2>1, <1>1
  <1>3. ASSUME NEW i \in 1..Len(D), NEW j \in 1..Len(D), i < j PROVE D[i] \subseteq D[j]
    <2>1. i \in 1..Len(C) /\ (j \in 1..Len(C) \/ j = Len(C) + 1)
      BY <1>1, <1>3
    <2>2. CASE j \in 1..Len(C)
      BY <2>1, <2>2, <1>1, <1>3
    <2>3. CASE j = Len(C) + 1
      BY <2>3, <1>1, <1>2
    <2> QED BY <2>1, <2>2, <2>3
  <1> QED BY <1>1, <1>2, <1>3 DEF D

LEMMA AnsweredKeeps ==
  ASSUME PushInv, NEW u \in Ids, NEW answer \in {"exists", "missing", "error"},
         Answered(u, answer)
  PROVE  PushInv'
  <1>1. /\ u \in unanswered /\ unanswered' = unanswered \ {u}
        /\ count' = count + Counts(answer)
        /\ usersArray' = IF answer = "exists" THEN usersArray \cup ({u} \ {Myself}) ELSE usersArray
        /\ completions' = IF Completes(answer) THEN Append(completions, usersArray')
                          ELSE completions
        /\ unfound' = IF answer = "exists" THEN unfound ELSE unfound \cup {<<u, answer>>}
        /\ asked' = asked /\ reader' = reader /\ Ids' = Ids
    BY DEF Answered, Ids
  <1>2. /\ asked \subseteq Members /\ unanswered \subseteq Ids /\ IsFiniteSet(Ids)
        /\ Ids \subseteq Members /\ Ids # {} /\ u \in Ids
    BY IdsFinite DEF PushInv
  <1>3. /\ Found \subseteq Ids /\ IsFiniteSet(Found) /\ u \notin Found
        /\ Cardinality(Found) \in Nat
    <2>1. Found \subseteq Ids /\ u \notin Found
      BY <1>1 DEF Found
    <2>2. IsFiniteSet(Found)
      BY <2>1, <1>2, FS_Subset
    <2> QED BY <2>1, <2>2, FS_CardinalityType
  <1>4. u \notin Lost /\ <<u, answer>> \notin unfound
    BY <1>1 DEF PushInv, Lost
  <1>5. IsFiniteSet(Failures) /\ Cardinality(Failures) \in Nat
    <2>1. IsFiniteSet({"missing", "error"})
      <3>1. IsFiniteSet({"missing"} \cup {"error"})
        BY FS_Singleton, FS_AddElement
      <3>2. {"missing", "error"} = {"missing"} \cup {"error"}
        OBVIOUS
      <3> QED BY <3>1, <3>2
    <2>2. IsFiniteSet(Ids \X {"missing", "error"})
      BY <2>1, <1>2, FS_Product
    <2>3. Failures \subseteq Ids \X {"missing", "error"}
      BY DEF Failures, PushInv
    <2> QED BY <2>2, <2>3, FS_Subset, FS_CardinalityType
  <1>6. /\ unfound' \subseteq (Ids' \ unanswered') \X {"missing", "error"}
        /\ unanswered' \subseteq Ids' /\ asked' \subseteq Members
        /\ reader' \in {"push", "users"}
    <2>1. unfound \subseteq (Ids \ unanswered') \X {"missing", "error"}
      BY <1>1 DEF PushInv
    <2> QED BY <2>1, <1>1, <1>2 DEF PushInv
  <1>7. Found' = IF answer = "exists" THEN Found \cup {u} ELSE Found
    <2>1. Lost' = IF answer = "exists" THEN Lost ELSE Lost \cup {u}
      <3>1. <<u, answer>>[1] = u
        OBVIOUS
      <3>2. CASE answer = "exists"
        BY <3>2, <1>1 DEF Lost
      <3>3. CASE answer # "exists"
        <4>1. unfound' = unfound \cup {<<u, answer>>}
          BY <3>3, <1>1
        <4>2. {f[1] : f \in unfound \cup {<<u, answer>>}} = Lost \cup {<<u, answer>>[1]}
          BY DEF Lost
        <4> QED BY <3>1, <3>3, <4>1, <4>2 DEF Lost
      <3> QED BY <3>2, <3>3
    <2> QED BY <2>1, <1>1, <1>2, <1>4 DEF Found
  <1>8. count' = Cardinality(Found')
    <2>1. count = Cardinality(Found)
      BY DEF PushInv
    <2>2. CASE answer = "exists"
      <3>1. Cardinality(Found \cup {u}) = Cardinality(Found) + 1
        BY <1>3, FS_AddElement
      <3> QED BY <2>1, <2>2, <3>1, <1>1, <1>7 DEF Counts
    <2>3. CASE answer # "exists"
      BY <2>1, <2>3, <1>1, <1>3, <1>7 DEF Counts
    <2> QED BY <2>2, <2>3
  <1>9. /\ usersArray' = Found' \ {Myself} /\ usersArray \subseteq usersArray'
        /\ usersArray \in SUBSET Members /\ usersArray' \in SUBSET Members
    <2>1. usersArray = Found \ {Myself}
      BY DEF PushInv
    <2>2. usersArray' = Found' \ {Myself}
      BY <2>1, <1>1, <1>7
    <2>3. Found' \subseteq Ids
      BY <1>2, <1>3, <1>7
    <2> QED BY <2>1, <2>2, <2>3, <1>1, <1>2, <1>3
  <1>10. /\ completions' \in Seq(SUBSET Members)
         /\ \A i \in 1..Len(completions') : completions'[i] \subseteq usersArray'
         /\ \A i, j \in 1..Len(completions') : i < j => completions'[i] \subseteq completions'[j]
         /\ Len(completions') = IF Completes(answer) THEN Len(completions) + 1 ELSE Len(completions)
    <2>1. /\ completions \in Seq(SUBSET Members)
          /\ \A i \in 1..Len(completions) : completions[i] \subseteq usersArray
          /\ \A i, j \in 1..Len(completions) : i < j => completions[i] \subseteq completions[j]
      BY DEF PushInv
    <2>2. CASE Completes(answer)
      BY <2>1, <2>2, <1>1, <1>9, CallsGrow
    <2>3. CASE ~Completes(answer)
      BY <2>1, <2>3, <1>1, <1>9
    <2> QED BY <2>2, <2>3
  <1>11. /\ ~(unanswered = {} /\ unfound = {} /\ Ids # {})
         /\ Len(completions) = Cardinality(Failures)
    BY <1>1 DEF PushInv
  <1>12. Completes("exists") /\ answer = "exists" <=>
           answer = "exists" /\ unanswered' = {} /\ unfound' = {}
    <2>1. SUFFICES ASSUME answer = "exists"
                   PROVE  Completes("exists") <=> unanswered' = {} /\ unfound' = {}
      OBVIOUS
    <2>2. Completes("exists") <=> Cardinality(Found') = Cardinality(Ids)
      BY <2>1, <1>1, <1>8 DEF Completes
    <2>3. Found' \subseteq Ids
      BY <1>2, <1>3, <1>7
    <2>4. Found' = Ids <=> unanswered' = {} /\ unfound' = {}
      <3>1. Found' = (Ids \ unanswered') \ Lost'
        BY <1>1 DEF Found
      <3>2. Lost' = {} <=> unfound' = {}
        BY DEF Lost
      <3>3. Lost' \subseteq Ids
        BY <1>1, <1>6 DEF Lost
      <3> QED BY <3>1, <3>2, <3>3, <1>1, <1>6
    <2>5. Cardinality(Found') = Cardinality(Ids) <=> Found' = Ids
      BY <2>3, <1>2, FS_Subset
    <2> QED BY <2>2, <2>4, <2>5
  <1>13. IF unanswered' = {} /\ unfound' = {} /\ Ids' # {}
         THEN completions' = <<Ids' \ {Myself}>>
         ELSE Len(completions') = Cardinality(Failures')
    <2>1. CASE answer = "exists" /\ Completes(answer)
      <3>1. unanswered' = {} /\ unfound' = {} /\ unfound = {}
        BY <2>1, <1>1, <1>12
      <3>2. Failures = {}
        BY <3>1 DEF Failures
      <3>3. Len(completions) = 0
        BY <3>2, <1>11, FS_EmptySet
      <3>4. completions = <<>>
        BY <3>3 DEF PushInv
      <3>5. Found' = Ids
        BY <3>1, <1>1 DEF Found, Lost
      <3> QED BY <2>1, <3>1, <3>4, <3>5, <1>1, <1>2, <1>9
    <2>2. CASE answer = "exists" /\ ~Completes(answer)
      <3>1. ~(unanswered' = {} /\ unfound' = {})
        BY <2>2, <1>12
      <3>2. Failures' = Failures
        BY <2>2, <1>1 DEF Failures
      <3> QED BY <2>2, <3>1, <3>2, <1>1, <1>11
    <2>3. CASE answer # "exists"
      <3>1. unfound' # {} /\ unfound' = unfound \cup {<<u, answer>>}
        BY <2>3, <1>1
      <3>2. Completes(answer) <=> answer = "missing" \/ reader = "push"
        BY <2>3 DEF Completes
      <3>3. Failures' = IF Completes(answer) THEN Failures \cup {<<u, answer>>} ELSE Failures
        BY <3>1, <3>2, <2>3, <1>1 DEF Failures
      <3>4. <<u, answer>> \notin Failures
        BY <1>4 DEF Failures
      <3>5. Cardinality(Failures \cup {<<u, answer>>}) = Cardinality(Failures) + 1
        BY <3>4, <1>5, FS_AddElement
      <3>6. Len(completions') = Cardinality(Failures')
        BY <3>3, <3>5, <1>10, <1>11
      <3> QED BY <3>1, <3>6
    <2> QED BY <2>1, <2>2, <2>3
  <1> QED BY <1>6, <1>8, <1>9, <1>10, <1>13 DEF PushInv

LEMMA PushStep == PushInv /\ [PushNext]_pushVars => PushInv'
  <1> SUFFICES ASSUME PushInv, [PushNext]_pushVars PROVE PushInv'
    OBVIOUS
  <1>1. CASE PushNext
    BY <1>1, AnsweredKeeps DEF PushNext
  <1>2. CASE UNCHANGED pushVars
    BY <1>2 DEF pushVars, PushInv, Ids, Found, Lost, Failures
  <1> QED BY <1>1, <1>2

(* However many are asked for and in whatever order the answers come: if all  *)
(* are found the completion is called once, with everybody; otherwise once    *)
(* for each that was not found, each time with no fewer.                      *)
THEOREM OnePerFailure == PushSpec => []EachFailureCompletes
  <1>1. PushInv => EachFailureCompletes
    <2> SUFFICES ASSUME PushInv, unanswered = {}
                 PROVE  /\ unfound = {} /\ Ids # {} => completions = <<Ids \ {Myself}>>
                        /\ unfound # {} \/ Ids = {} => Len(completions) = Cardinality(Failures)
                        /\ \A i, j \in DOMAIN completions :
                             i < j => completions[i] \subseteq completions[j]
      BY DEF EachFailureCompletes
    <2>1. DOMAIN completions = 1..Len(completions)
      BY DEF PushInv
    <2> QED BY <2>1 DEF PushInv
  <1> QED BY <1>1, PushInvInit, PushStep, PTL DEF PushSpec

--------------------------------------------------------------------------------
(* The files of media. What a file holds bears its name, so it is a twin of   *)
(* every medium it is taken for; an item has what was found under the name of *)
(* its own message.                                                           *)

AllMedia == uploads \cup stored

(* What the item of m may have. *)
Item(m, item) ==
  IF m.kind = "video" THEN item = File(FileName(m)) /\ FileName(m) \in DOMAIN files
  ELSE item \in Twins(m)

Numbered ==
  /\ uploads \subseteq Media /\ stored \subseteq Media /\ sent \subseteq stored
  /\ IsFiniteSet(AllMedia)
  /\ \A x \in AllMedia : x.n <= Cardinality(AllMedia)
  /\ \A x, y \in AllMedia : x.n = y.n => x = y

FilesNamed == \A f \in DOMAIN files : files[f] \in stored /\ FileName(files[f]) = f

TasksFetch ==
  \A t \in tasks :
    /\ t \in [message : stored, display : Nat, data : Media \cup {Nothing}]
    /\ t.data # Nothing => t.data \in Twins(t.message) /\ FileName(t.message) \in DOMAIN files

ItemsOwn ==
  \A n \in 1..MaxMedia :
    shown[n] # Nothing => \E m \in stored : m.n = n /\ Item(m, shown[n])

MediaInv ==
  /\ Numbered
  /\ displays \in [1..MaxMedia -> Nat] /\ DOMAIN shown = 1..MaxMedia
  /\ FilesNamed
  /\ TasksFetch
  /\ ItemsOwn

LEMMA Kinds3 ==
  ASSUME NEW m \in Media
  PROVE  /\ m.n \in 1..MaxMedia /\ m.n \in Nat /\ m.kind \in {"picture", "video", "audio"}
         /\ Nothing \notin Media /\ \A name : File(name) # m /\ File(name) # Nothing
         /\ m # Nothing
  <1>1. m.n \in 1..MaxMedia /\ m.kind \in {"picture", "video", "audio"}
    BY MediaAssumption DEF Media
  <1>2. DOMAIN m = {"n", "sender", "kind", "date"}
    BY DEF Media
  <1>3. \A x \in Media : DOMAIN x = {"n", "sender", "kind", "date"}
    BY DEF Media
  <1>4. DOMAIN Nothing = {"nothing"} /\ \A name : DOMAIN File(name) = {"file"}
    BY DEF Nothing, File
  <1> QED BY <1>1, <1>2, <1>3, <1>4, MediaAssumption

LEMMA TwinsNamed ==
  ASSUME NEW m, NEW x
  PROVE  x \in Twins(m) <=> x \in stored /\ FileName(x) = FileName(m)
  BY DEF Twins, FileName

(* There is a last upload under the url of a medium, and it is its twin.      *)
LEMMA AtUrlTwin ==
  ASSUME stored \subseteq Media, NEW m \in stored
  PROVE  AtUrl(m) \in Twins(m)
  <1> DEFINE same == {x \in Twins(m) : x.sender = m.sender}
             D == {MaxMedia - x.n : x \in same}
  <1>1. m \in same /\ \A x \in same : x \in Media
    BY DEF Twins
  <1>2. \A x \in same : x.n \in Nat /\ MaxMedia - x.n \in Nat
    BY <1>1, MediaAssumption DEF Media
  <1>3. AtUrl(m) = CHOOSE x \in same : \A y \in same : y.n <= x.n
    BY DEF AtUrl
  <1>4. D # {} /\ D \subseteq Nat
    BY <1>1, <1>2
  <1> HIDE DEF D
  <1>5. IsWellFoundedOn(OpToRel(<, Nat), Nat)
    BY NatLessThanWellFounded
  <1>6. \E d \in D : \A e \in D : ~ (<<e, d>> \in OpToRel(<, Nat))
    BY <1>4, <1>5, WFMin
  <1>7. PICK d \in D : \A e \in D : ~ (e < d)
    BY <1>6, <1>4 DEF OpToRel
  <1>8. PICK x \in same : d = MaxMedia - x.n
    BY <1>7 DEF D
  <1>9. \A y \in same : y.n <= x.n
    <2>1. SUFFICES ASSUME NEW y \in same PROVE y.n <= x.n
      OBVIOUS
    <2>2. ~ (MaxMedia - y.n < MaxMedia - x.n)
      BY <1>7, <1>8 DEF D
    <2> QED BY <2>2, <1>2, MediaAssumption
  <1> HIDE DEF same
  <1>10. AtUrl(m) \in same
    BY <1>3, <1>8, <1>9
  <1> QED BY <1>10 DEF same

(* What is stored stays, so a twin and an item stay what they are.            *)
LEMMA MediaStays ==
  ASSUME MediaInv, stored \subseteq stored', DOMAIN files \subseteq DOMAIN files'
  PROVE  /\ \A m : Twins(m) \subseteq Twins(m)'
         /\ \A m, item : Item(m, item) => Item(m, item)'
  <1>1. \A m : Twins(m) \subseteq Twins(m)'
    BY DEF Twins
  <1> QED BY <1>1 DEF Item

LEMMA MediaInvInit == MediaInit => MediaInv
  <1> SUFFICES ASSUME MediaInit PROVE MediaInv
    OBVIOUS
  <1>1. AllMedia = {} /\ IsFiniteSet({})
    BY FS_EmptySet DEF MediaInit, AllMedia
  <1>2. Numbered
    BY <1>1 DEF MediaInit, Numbered
  <1>3. DOMAIN files = {} /\ tasks = {} /\ \A n \in 1..MaxMedia : shown[n] = Nothing
    BY DEF MediaInit
  <1>4. displays \in [1..MaxMedia -> Nat] /\ DOMAIN shown = 1..MaxMedia
    BY DEF MediaInit
  <1> QED BY <1>2, <1>3, <1>4 DEF MediaInv, FilesNamed, TasksFetch, ItemsOwn

LEMMA StartUploadingKeeps ==
  ASSUME MediaInv, NEW m \in Media, StartUploading(m)
  PROVE  MediaInv'
  <1>1. /\ m.n = Cardinality(AllMedia) + 1 /\ uploads' = uploads \cup {m}
        /\ UNCHANGED <<stored, sent, files, tasks, displays, shown>>
    BY DEF StartUploading, AllMedia
  <1>2. AllMedia' = AllMedia \cup {m}
    BY <1>1 DEF AllMedia
  <1>3. /\ Numbered /\ AllMedia \subseteq Media /\ Cardinality(AllMedia) \in Nat
    BY FS_CardinalityType DEF MediaInv, Numbered, AllMedia
  <1>4. \A x \in AllMedia : x.n \in Nat /\ x.n <= Cardinality(AllMedia)
    BY <1>3, Kinds3 DEF Numbered
  <1>5. m \notin AllMedia
    BY <1>1, <1>3, <1>4
  <1>6. IsFiniteSet(AllMedia') /\ Cardinality(AllMedia') = Cardinality(AllMedia) + 1
    BY <1>2, <1>3, <1>5, FS_AddElement DEF Numbered
  <1>7. \A x \in AllMedia' : x.n <= Cardinality(AllMedia')
    BY <1>1, <1>2, <1>3, <1>4, <1>6
  <1>8. \A x, y \in AllMedia' : x.n = y.n => x = y
    <2>1. \A x \in AllMedia : x.n # m.n
      BY <1>1, <1>3, <1>4
    <2> QED BY <2>1, <1>2, <1>3 DEF Numbered
  <1>9. Numbered'
    BY <1>1, <1>3, <1>6, <1>7, <1>8 DEF Numbered
  <1>10. /\ \A x : Twins(x)' = Twins(x)
         /\ \A x, item : Item(x, item)' <=> Item(x, item)
    BY <1>1 DEF Twins, Item
  <1> QED BY <1>1, <1>9, <1>10 DEF MediaInv, FilesNamed, TasksFetch, ItemsOwn

LEMMA FinishUploadingKeeps ==
  ASSUME MediaInv, NEW m \in uploads, FinishUploading(m)
  PROVE  MediaInv'
  <1>1. /\ uploads' = uploads \ {m} /\ stored' = stored \cup {m}
        /\ UNCHANGED <<sent, files, tasks, displays, shown>>
    BY DEF FinishUploading
  <1>2. AllMedia' = AllMedia /\ m \in Media /\ stored' \subseteq Media /\ uploads' \subseteq Media
    BY <1>1 DEF AllMedia, MediaInv, Numbered
  <1>3. Numbered'
    BY <1>1, <1>2 DEF MediaInv, Numbered
  <1>4. FilesNamed'
    BY <1>1 DEF MediaInv, FilesNamed
  <1>5. /\ \A x : Twins(x) \subseteq Twins(x)'
        /\ \A x, item : Item(x, item) => Item(x, item)'
    BY <1>1, MediaStays
  <1>6. TasksFetch'
    BY <1>1, <1>5 DEF MediaInv, TasksFetch
  <1>7. ItemsOwn'
    BY <1>1, <1>5 DEF MediaInv, ItemsOwn
  <1> QED BY <1>1, <1>3, <1>4, <1>6, <1>7 DEF MediaInv

(* What an item is given is what it may have.                                 *)
LEMMA ShowsItem ==
  ASSUME MediaInv, NEW m \in stored, FileName(m) \in DOMAIN files, NEW data \in Twins(m)
  PROVE  Item(m, Shows(m, data))
  <1>1. m.kind \in {"picture", "video", "audio"}
    BY Kinds3 DEF MediaInv, Numbered
  <1>2. files[FileName(m)] \in Twins(m)
    BY TwinsNamed DEF MediaInv, FilesNamed
  <1>3. CASE m.kind = "picture"
    BY <1>3 DEF Shows, Item
  <1>4. CASE m.kind = "video"
    BY <1>4 DEF Shows, Item
  <1>5. CASE m.kind = "audio"
    BY <1>2, <1>5 DEF Shows, Item
  <1> QED BY <1>1, <1>3, <1>4, <1>5

(* An item of m is replaced by an item it may have.                           *)
LEMMA ItemReplaced ==
  ASSUME MediaInv, NEW m \in stored, NEW item, item = Nothing \/ Item(m, item),
         UNCHANGED <<stored, files>>, shown' = [shown EXCEPT ![m.n] = item]
  PROVE  ItemsOwn' /\ DOMAIN shown' = 1..MaxMedia
  <1>1. m.n \in 1..MaxMedia /\ DOMAIN shown = 1..MaxMedia
    BY Kinds3 DEF MediaInv, Numbered
  <1>2. \A x, i : Item(x, i) => Item(x, i)'
    BY MediaStays
  <1>3. ASSUME NEW n \in 1..MaxMedia, NEW i, i = shown'[n], i # Nothing
        PROVE  \E x \in stored' : x.n = n /\ Item(x, i)'
    <2>1. CASE n = m.n
      BY <2>1, <1>1, <1>2, <1>3
    <2>2. CASE n # m.n
      <3>1. shown[n] = i
        BY <2>2, <1>1, <1>3
      <3>2. PICK x \in stored : x.n = n /\ Item(x, i)
        BY <3>1, <1>3 DEF MediaInv, ItemsOwn
      <3> QED BY <3>2, <1>2
    <2> QED BY <2>1, <2>2
  <1>4. ItemsOwn'
    BY <1>3 DEF ItemsOwn, Item
  <1> QED BY <1>1, <1>4

LEMMA NumberedStays ==
  ASSUME MediaInv, UNCHANGED <<uploads, stored, sent>>
  PROVE  Numbered'
  <1>1. AllMedia' = AllMedia
    BY DEF AllMedia
  <1> QED BY <1>1 DEF MediaInv, Numbered

LEMMA SendLinkKeeps ==
  ASSUME MediaInv, NEW m \in stored, SendLink(m)
  PROVE  MediaInv'
  <1>1. sent' = sent \cup {m} /\ UNCHANGED <<uploads, stored, files, tasks, displays, shown>>
    BY DEF SendLink
  <1>2. AllMedia' = AllMedia
    BY <1>1 DEF AllMedia
  <1>3. Numbered'
    BY <1>1, <1>2 DEF MediaInv, Numbered
  <1>4. TasksFetch' /\ FilesNamed' /\ ItemsOwn'
    BY <1>1 DEF MediaInv, TasksFetch, FilesNamed, ItemsOwn, Item, Twins
  <1> QED BY <1>1, <1>3, <1>4 DEF MediaInv

LEMMA ShowMediaKeeps ==
  ASSUME MediaInv, NEW m \in stored, ShowMedia(m)
  PROVE  MediaInv'
  <1>1. /\ displays' = [displays EXCEPT ![m.n] = @ + 1]
        /\ UNCHANGED <<uploads, stored, sent, files>>
    BY DEF ShowMedia
  <1>2. m \in Media /\ m.n \in 1..MaxMedia
    BY Kinds3 DEF MediaInv, Numbered
  <1>3. displays' \in [1..MaxMedia -> Nat] /\ displays'[m.n] \in Nat
    BY <1>1, <1>2 DEF MediaInv
  <1>4. Numbered' /\ FilesNamed'
    BY <1>1, NumberedStays DEF MediaInv, FilesNamed
  <1>5. \A x : Twins(x)' = Twins(x)
    BY <1>1 DEF Twins
  <1>6. CASE FileName(m) \in DOMAIN files
    <2>1. /\ shown' = [shown EXCEPT ![m.n] = Shows(m, files[FileName(m)])] /\ tasks' = tasks
      BY <1>6 DEF ShowMedia
    <2>2. files[FileName(m)] \in Twins(m)
      BY <1>6, TwinsNamed DEF MediaInv, FilesNamed
    <2>3. Item(m, Shows(m, files[FileName(m)]))
      BY <1>6, <2>2, ShowsItem
    <2>4. ItemsOwn' /\ DOMAIN shown' = 1..MaxMedia
      BY <2>1, <2>3, <1>1, ItemReplaced
    <2>5. TasksFetch'
      BY <2>1, <1>1, <1>5 DEF MediaInv, TasksFetch
    <2> QED BY <2>4, <2>5, <1>3, <1>4 DEF MediaInv
  <1>7. CASE FileName(m) \notin DOMAIN files
    <2>1. /\ shown' = [shown EXCEPT ![m.n] = Nothing]
          /\ tasks' = tasks \cup {[message |-> m, display |-> displays'[m.n], data |-> Nothing]}
      BY <1>7 DEF ShowMedia
    <2>2. ItemsOwn' /\ DOMAIN shown' = 1..MaxMedia
      BY <2>1, <1>1, ItemReplaced
    <2>3. TasksFetch'
      BY <2>1, <1>1, <1>3, <1>5 DEF MediaInv, TasksFetch
    <2> QED BY <2>2, <2>3, <1>3, <1>4 DEF MediaInv
  <1> QED BY <1>6, <1>7

LEMMA FetchedKeeps ==
  ASSUME MediaInv, NEW t \in tasks, Fetched(t)
  PROVE  MediaInv'
  <1> DEFINE m == t.message
             data == AtUrl(m)
             u == [t EXCEPT !.data = data]
  <1>1. /\ tasks' = (tasks \ {t}) \cup {u}
        /\ files' = [f \in DOMAIN files \cup {FileName(m)} |->
                       IF f = FileName(m) THEN data ELSE files[f]]
        /\ UNCHANGED <<uploads, stored, sent, displays, shown>>
    BY DEF Fetched
  <1>2. /\ t \in [message : stored, display : Nat, data : Media \cup {Nothing}]
        /\ m \in stored /\ stored \subseteq Media
    BY DEF MediaInv, TasksFetch, Numbered
  <1>3. data \in Twins(m) /\ data \in stored /\ FileName(data) = FileName(m) /\ data \in Media
    BY <1>2, AtUrlTwin, TwinsNamed
  <1>4. u \in [message : stored, display : Nat, data : Media \cup {Nothing}] /\ u.message = m
        /\ u.data = data
    BY <1>2, <1>3
  <1> HIDE DEF data, u, m
  <1>5. DOMAIN files' = DOMAIN files \cup {FileName(m)}
    BY <1>1
  <1>6. /\ \A x : Twins(x) \subseteq Twins(x)'
        /\ \A x, item : Item(x, item) => Item(x, item)'
    BY <1>1, <1>5, MediaStays
  <1>7. FilesNamed'
    <2>1. SUFFICES ASSUME NEW f \in DOMAIN files' PROVE files'[f] \in stored' /\ FileName(files'[f]) = f
      BY DEF FilesNamed, FileName
    <2>2. CASE f = FileName(m)
      BY <2>2, <1>1, <1>3
    <2>3. CASE f # FileName(m)
      BY <2>3, <1>1, <1>5 DEF MediaInv, FilesNamed
    <2> QED BY <2>2, <2>3
  <1>8. TasksFetch'
    <2>1. SUFFICES ASSUME NEW x \in tasks'
                   PROVE  /\ x \in [message : stored', display : Nat, data : Media \cup {Nothing}]
                          /\ x.data # Nothing => /\ x.data \in Twins(x.message)'
                                                 /\ FileName(x.message) \in DOMAIN files'
      BY DEF TasksFetch, FileName
    <2>2. CASE x = u
      BY <2>2, <1>1, <1>3, <1>4, <1>5, <1>6
    <2>3. CASE x \in tasks
      BY <2>3, <1>1, <1>5, <1>6 DEF MediaInv, TasksFetch
    <2> QED BY <2>2, <2>3, <1>1
  <1>9. ItemsOwn'
    BY <1>1, <1>6 DEF MediaInv, ItemsOwn
  <1> QED BY <1>1, <1>7, <1>8, <1>9, NumberedStays DEF MediaInv

LEMMA DownloadDoneKeeps ==
  ASSUME MediaInv, NEW t \in tasks, DownloadDone(t)
  PROVE  MediaInv'
  <1> DEFINE m == t.message
  <1>1. /\ tasks' = tasks \ {t} /\ t.data # Nothing
        /\ shown' = IF t.display = displays[m.n]
                    THEN [shown EXCEPT ![m.n] = Shows(m, t.data)] ELSE shown
        /\ UNCHANGED <<uploads, stored, sent, files, displays>>
    BY DEF DownloadDone
  <1>2. m \in stored /\ t.data \in Twins(m) /\ FileName(m) \in DOMAIN files
    BY <1>1 DEF MediaInv, TasksFetch
  <1> HIDE DEF m
  <1>3. Item(m, Shows(m, t.data))
    BY <1>2, ShowsItem
  <1>4. ItemsOwn' /\ DOMAIN shown' = 1..MaxMedia
    <2>1. CASE shown' = shown
      BY <2>1, <1>1 DEF MediaInv, ItemsOwn, Item, Twins
    <2>2. CASE shown' # shown
      BY <2>2, <1>1, <1>2, <1>3, ItemReplaced
    <2> QED BY <2>1, <2>2
  <1>5. TasksFetch'
    BY <1>1 DEF MediaInv, TasksFetch, Twins
  <1>6. FilesNamed'
    BY <1>1 DEF MediaInv, FilesNamed
  <1> QED BY <1>1, <1>4, <1>5, <1>6, NumberedStays DEF MediaInv

LEMMA MediaStep == MediaInv /\ [MediaNext]_mediaVars => MediaInv'
  <1> SUFFICES ASSUME MediaInv, [MediaNext]_mediaVars PROVE MediaInv'
    OBVIOUS
  <1>1. ASSUME NEW t \in tasks, NotFetched(t) PROVE MediaInv'
    <2>1. tasks' = tasks \ {t} /\ UNCHANGED <<uploads, stored, sent, files, displays, shown>>
      BY <1>1 DEF NotFetched
    <2>2. TasksFetch' /\ FilesNamed' /\ ItemsOwn'
      BY <2>1 DEF MediaInv, TasksFetch, FilesNamed, ItemsOwn, Item, Twins
    <2> QED BY <2>1, <2>2, NumberedStays DEF MediaInv
  <1>2. ASSUME UNCHANGED mediaVars PROVE MediaInv'
    <2>1. UNCHANGED <<uploads, stored, sent, files, tasks, displays, shown>>
      BY <1>2 DEF mediaVars
    <2>2. TasksFetch' /\ FilesNamed' /\ ItemsOwn'
      BY <2>1 DEF MediaInv, TasksFetch, FilesNamed, ItemsOwn, Item, Twins
    <2> QED BY <2>1, <2>2, NumberedStays DEF MediaInv
  <1> QED BY <1>1, <1>2, StartUploadingKeeps, FinishUploadingKeeps, SendLinkKeeps, ShowMediaKeeps,
             FetchedKeeps, DownloadDoneKeeps DEF MediaNext

(* Whatever is fetched and written under a name, by however many downloads in *)
(* whatever order, an item shows what was sent with its message, unless       *)
(* another medium of its kind has its date.                                   *)
THEOREM ItemsAreSent == MediaSpec => []ShownIsSent
  <1>1. MediaInv => ShownIsSent
    <2> SUFFICES ASSUME MediaInv, NEW m \in stored, Twins(m) = {m}
                 PROVE  Perceived(m) \in {Nothing, m}
      BY DEF ShownIsSent, MediaInv, Numbered
    <2>1. m \in Media /\ stored \subseteq AllMedia
      BY DEF MediaInv, Numbered, AllMedia
    <2>2. /\ m.n \in 1..MaxMedia /\ File(FileName(m)) # m /\ File(FileName(m)) # Nothing
      BY <2>1, Kinds3
    <2>3. CASE shown[m.n] = Nothing
      BY <2>2, <2>3 DEF Perceived
    <2>4. CASE shown[m.n] # Nothing
      <3>1. PICK x \in stored : x.n = m.n /\ Item(x, shown[m.n])
        BY <2>2, <2>4 DEF MediaInv, ItemsOwn
      <3>2. x = m
        BY <3>1, <2>1 DEF MediaInv, Numbered
      <3>3. CASE m.kind = "video"
        <4>1. shown[m.n] = File(FileName(m)) /\ FileName(m) \in DOMAIN files
          BY <3>1, <3>2, <3>3 DEF Item
        <4>2. files[FileName(m)] \in Twins(m)
          BY <4>1, TwinsNamed DEF MediaInv, FilesNamed
        <4> QED BY <4>1, <4>2 DEF Perceived
      <3>4. CASE m.kind # "video"
        <4>1. shown[m.n] = m
          BY <3>1, <3>2, <3>4 DEF Item
        <4> QED BY <4>1, <2>2 DEF Perceived
      <3> QED BY <3>3, <3>4
    <2> QED BY <2>3, <2>4
  <1> QED BY <1>1, MediaInvInit, MediaStep, PTL DEF MediaSpec

--------------------------------------------------------------------------------
(* The typing indicator. *)

FlagDocs == UNION {[D -> BOOLEAN] : D \in SUBSET Typists}
WritesOf(u) == [op : {"update"}, user : {u}, typing : BOOLEAN]
                 \cup [op : {"set"}, user : {u}, typing : {FALSE}]

Creates(q) == \E i \in 1..Len(q) : q[i].op = "set"

TypingTypes ==
  /\ flags \in FlagDocs
  /\ DOMAIN flagWrites = Typists /\ \A u \in Typists : flagWrites[u] \in Seq(WritesOf(u))
  /\ DOMAIN flagsHeard = Typists
  /\ opened \in [Typists -> 0..MaxOpened] /\ at \in [Typists -> 0..MaxOpened]
  /\ typingCounter \in [Typists -> [1..MaxOpened -> Nat]]
  /\ showTypingIndicator \in [Typists -> BOOLEAN]

(* The last thing to become of the flag of v, who has stopped, is to be off:  *)
(* by the last write that waits, or at the server.                            *)
Cleared(v) ==
  Stopped(v) =>
    IF flagWrites[v] = <<>> THEN v \in DOMAIN flags => ~flags[v]
    ELSE ~flagWrites[v][Len(flagWrites[v])].typing

(* The indicator is one of the flags last heard, if there was any. *)
OfHeard(u) ==
  at[u] # 0 => \A d : flagsHeard[u] = {d} /\ DOMAIN d \ {u} # {} =>
                 \E v \in DOMAIN d \ {u} : showTypingIndicator[u] = d[v]

(* Whoever sees it on does not create the document again, and there is        *)
(* somebody else in it: the listener will be called with a flag, not without. *)
ForSomebody(u) ==
  at[u] # 0 /\ showTypingIndicator[u] => ~Creates(flagWrites[u]) /\ DOMAIN flags \ {u} # {}

TypingInv ==
  /\ TypingTypes
  /\ \A u \in Typists : Cleared(u) /\ OfHeard(u) /\ ForSomebody(u)

(* Induction over the natural numbers, for a set of them.                     *)
LEMMA SetInduction ==
  ASSUME NEW T, 0 \in T, \A n \in Nat : n \in T => n + 1 \in T
  PROVE  \A n \in Nat : n \in T
  <1> SUFFICES ASSUME NEW n \in Nat, n \notin T PROVE FALSE
    OBVIOUS
  <1> DEFINE M == {k \in Nat : k \notin T}
  <1>1. M # {} /\ M \subseteq Nat
    OBVIOUS
  <1>2. IsWellFoundedOn(OpToRel(<, Nat), Nat)
    BY NatLessThanWellFounded
  <1> HIDE DEF M
  <1>3. \E x \in M : \A y \in M : ~ (<<y, x>> \in OpToRel(<, Nat))
    BY <1>1, <1>2, WFMin
  <1>4. PICK x \in M : \A y \in M : ~ (y < x)
    BY <1>3, <1>1 DEF OpToRel
  <1>5. x \in Nat /\ x \notin T /\ x # 0
    BY <1>4 DEF M
  <1>6. x - 1 \in Nat /\ x - 1 < x /\ (x - 1) + 1 = x
    BY <1>5
  <1>7. x - 1 \in T
    BY <1>6, <1>4 DEF M
  <1> QED BY <1>5, <1>6, <1>7

LEMMA DocIs ==
  ASSUME NEW d \in FlagDocs
  PROVE  /\ DOMAIN d \subseteq Typists /\ d \in [DOMAIN d -> BOOLEAN]
         /\ d = NoFlags <=> DOMAIN d = {}
  <1>1. PICK D \in SUBSET Typists : d \in [D -> BOOLEAN]
    BY DEF FlagDocs
  <1>2. DOMAIN d = D
    BY <1>1
  <1>3. D = {} => d = NoFlags
    BY <1>1 DEF NoFlags
  <1>4. d = NoFlags => D = {}
    BY <1>2 DEF NoFlags
  <1> QED BY <1>1, <1>2, <1>3, <1>4

LEMMA WriteIs ==
  ASSUME NEW u, NEW w \in WritesOf(u)
  PROVE  /\ w.user = u /\ w.typing \in BOOLEAN /\ w.op \in {"set", "update"}
         /\ w.op = "set" => ~w.typing
  BY DEF WritesOf

(* A write of u makes e of d, touching no flag of others unless it creates    *)
(* the document.                                                              *)
OwnFlag(d, e, u, w) ==
  /\ e \in FlagDocs
  /\ w.op = "set" => DOMAIN e = {u}
  /\ w.op # "set" /\ DOMAIN d # {} => DOMAIN e = DOMAIN d \cup {u}
  /\ w.op # "set" /\ DOMAIN d = {} => e = d
  /\ \A v \in DOMAIN e : v # u => v \in DOMAIN d /\ e[v] = d[v]
  /\ u \in DOMAIN e => e[u] = w.typing

LEMMA FlaggedIs ==
  ASSUME NEW d \in FlagDocs, NEW u \in Typists, NEW w \in WritesOf(u)
  PROVE  OwnFlag(d, Flagged(d, w), u, w)
  <1>1. /\ w.user = u /\ w.typing \in BOOLEAN /\ w.op \in {"set", "update"}
        /\ w.op = "set" => w.typing = FALSE
    BY WriteIs
  <1>2. /\ DOMAIN d \subseteq Typists /\ d \in [DOMAIN d -> BOOLEAN]
        /\ d = NoFlags <=> DOMAIN d = {}
    BY DocIs
  <1>3. CASE w.op = "set"
    <2>1. Flagged(d, w) = [x \in {u} |-> FALSE]
      BY <1>1, <1>3 DEF Flagged
    <2>2. [x \in {u} |-> FALSE] \in [{u} -> BOOLEAN] /\ {u} \in SUBSET Typists
      OBVIOUS
    <2>3. Flagged(d, w) \in FlagDocs
      BY <2>1, <2>2 DEF FlagDocs
    <2> QED BY <2>1, <2>3, <1>1, <1>3 DEF OwnFlag
  <1>4. CASE w.op # "set" /\ DOMAIN d = {}
    <2>1. Flagged(d, w) = d
      BY <1>2, <1>4 DEF Flagged
    <2> QED BY <2>1, <1>2, <1>4, <1>1 DEF OwnFlag
  <1>5. CASE w.op # "set" /\ DOMAIN d # {}
    <2> DEFINE D == DOMAIN d \cup {u}
               e == [x \in D |-> IF x = u THEN w.typing ELSE d[x]]
    <2>1. Flagged(d, w) = e
      BY <1>1, <1>2, <1>5 DEF Flagged
    <2>2. e \in [D -> BOOLEAN] /\ D \in SUBSET Typists
      BY <1>1, <1>2
    <2>3. /\ DOMAIN e = D /\ e[u] = w.typing
          /\ \A v \in D : v # u => v \in DOMAIN d /\ e[v] = d[v]
      OBVIOUS
    <2> HIDE DEF D, e
    <2>4. Flagged(d, w) \in FlagDocs
      BY <2>1, <2>2 DEF FlagDocs
    <2> QED BY <2>1, <2>3, <2>4, <1>5 DEF D, OwnFlag
  <1> QED BY <1>3, <1>4, <1>5

LEMMA LastIs ==
  ASSUME NEW u, NEW q \in Seq(WritesOf(u)), NEW w \in WritesOf(u)
  PROVE  /\ Append(q, w) \in Seq(WritesOf(u)) /\ Append(q, w) # <<>>
         /\ Append(q, w)[Len(Append(q, w))] = w
         /\ Creates(Append(q, w)) <=> Creates(q) \/ w.op = "set"
  <1> DEFINE p == Append(q, w)
  <1>1. /\ p \in Seq(WritesOf(u)) /\ Len(p) = Len(q) + 1 /\ Len(q) \in Nat
        /\ p[Len(q) + 1] = w /\ \A i \in 1..Len(q) : p[i] = q[i]
    OBVIOUS
  <1> HIDE DEF p
  <1>2. p # <<>>
    BY <1>1
  <1>3. Creates(p) <=> Creates(q) \/ w.op = "set"
    <2>1. \A i \in 1..Len(p) : i \in 1..Len(q) \/ i = Len(q) + 1
      BY <1>1
    <2>2. /\ \A i \in 1..Len(q) : i \in 1..Len(p)
          /\ Len(q) + 1 \in 1..Len(p)
      BY <1>1
    <2> QED BY <2>1, <2>2, <1>1 DEF Creates
  <1> QED BY <1>1, <1>2, <1>3 DEF p

(* after tells what the first n writes of q make of the document.             *)
Afters(after, q, n) ==
  /\ after[0] = flags
  /\ \A m \in 1..n : after[m] = Flagged(after[m - 1], q[m])

LEMMA AftersExist ==
  ASSUME NEW q, Len(q) \in Nat
  PROVE  \E after : DOMAIN after = 0..Len(q) /\ after = [n \in 0..Len(q) |-> after[n]]
                    /\ Afters(after, q, Len(q))
  <1> DEFINE T == {n \in Nat : \E f : /\ DOMAIN f = 0..n /\ f = [m \in 0..n |-> f[m]]
                                      /\ Afters(f, q, n)}
  <1>1. 0 \in T
    <2> DEFINE f == [m \in 0..0 |-> flags]
    <2>1. DOMAIN f = 0..0 /\ f = [m \in 0..0 |-> f[m]] /\ Afters(f, q, 0)
      BY DEF Afters
    <2> QED BY <2>1
  <1>2. ASSUME NEW n \in Nat, n \in T
        PROVE  n + 1 \in T
    <2>1. PICK f : DOMAIN f = 0..n /\ f = [m \in 0..n |-> f[m]] /\ Afters(f, q, n)
      BY <1>2
    <2> DEFINE v == Flagged(f[n], q[n + 1])
               g == [m \in 0..(n + 1) |-> IF m <= n THEN f[m] ELSE v]
    <2> HIDE DEF v
    <2>2. /\ DOMAIN g = 0..(n + 1) /\ g = [m \in 0..(n + 1) |-> g[m]]
          /\ \A m \in 0..n : g[m] = f[m]
          /\ g[n + 1] = v
      OBVIOUS
    <2> HIDE DEF g
    <2>3. g[0] = flags
      BY <2>1, <2>2 DEF Afters
    <2>4. ASSUME NEW m \in 1..(n + 1)
          PROVE  g[m] = Flagged(g[m - 1], q[m])
      <3>1. CASE m <= n
        <4>1. m \in 1..n /\ m \in 0..n /\ m - 1 \in 0..n
          BY <3>1
        <4> QED BY <4>1, <2>1, <2>2 DEF Afters
      <3>2. CASE m = n + 1
        <4>1. m - 1 = n /\ n \in 0..n
          BY <3>2
        <4> QED BY <4>1, <3>2, <2>2 DEF v
      <3> QED BY <3>1, <3>2
    <2>5. Afters(g, q, n + 1)
      BY <2>3, <2>4 DEF Afters
    <2> QED BY <2>2, <2>5
  <1> HIDE DEF T
  <1>3. \A n \in Nat : n \in T
    BY <1>1, <1>2, SetInduction
  <1> QED BY <1>3 DEF T

LEMMA LocalIs ==
  ASSUME NEW u, Len(flagWrites[u]) \in Nat
  PROVE  \E after : /\ Afters(after, flagWrites[u], Len(flagWrites[u]))
                    /\ LocalFlags(u) = after[Len(flagWrites[u])]
  <1> DEFINE q == flagWrites[u]
             Eq(f) == f = [n \in 0..Len(q) |->
                        IF n = 0 THEN flags ELSE Flagged(f[n - 1], q[n])]
             h == CHOOSE f : Eq(f)
  <1>1. PICK g : DOMAIN g = 0..Len(q) /\ g = [n \in 0..Len(q) |-> g[n]] /\ Afters(g, q, Len(q))
    BY AftersExist
  <1>2. Eq(g)
    <2>1. ASSUME NEW n \in 0..Len(q)
          PROVE  g[n] = IF n = 0 THEN flags ELSE Flagged(g[n - 1], q[n])
      <3>1. n = 0 \/ n \in 1..Len(q)
        OBVIOUS
      <3> QED BY <3>1, <1>1 DEF Afters
    <2> QED BY <2>1, <1>1
  <1>3. Eq(h)
    BY <1>2
  <1>4. LocalFlags(u) = h[Len(q)]
    BY DEF LocalFlags
  <1>5. \A n \in 0..Len(q) : h[n] = IF n = 0 THEN flags ELSE Flagged(h[n - 1], q[n])
    BY <1>3
  <1> HIDE DEF h, Eq
  <1>6. Afters(h, q, Len(q))
    <2>1. 0 \in 0..Len(q) /\ \A m \in 1..Len(q) : m \in 0..Len(q) /\ m # 0
      OBVIOUS
    <2> QED BY <2>1, <1>5 DEF Afters
  <1> QED BY <1>4, <1>6

(* A client sees the flags of the server and its own; once it creates the     *)
(* document it sees nobody else's until the server has done so.               *)
LEMMA LocalFlagsAre ==
  ASSUME NEW u \in Typists, flags \in FlagDocs, flagWrites[u] \in Seq(WritesOf(u))
  PROVE  /\ LocalFlags(u) \in FlagDocs
         /\ DOMAIN LocalFlags(u) \subseteq DOMAIN flags \cup {u}
         /\ Creates(flagWrites[u]) => DOMAIN LocalFlags(u) \subseteq {u}
         /\ ~Creates(flagWrites[u]) => DOMAIN flags \subseteq DOMAIN LocalFlags(u)
  <1> DEFINE q == flagWrites[u]
             created(n) == \E i \in 1..n : q[i].op = "set"
  <1>1. Len(q) \in Nat /\ \A i \in 1..Len(q) : q[i] \in WritesOf(u)
    OBVIOUS
  <1>2. PICK after : Afters(after, q, Len(q)) /\ LocalFlags(u) = after[Len(q)]
    BY <1>1, LocalIs
  <1> DEFINE Good(n) == /\ after[n] \in FlagDocs
                        /\ DOMAIN after[n] \subseteq DOMAIN flags \cup {u}
                        /\ created(n) => DOMAIN after[n] \subseteq {u}
                        /\ ~created(n) => DOMAIN flags \subseteq DOMAIN after[n]
             T == {n \in Nat : n <= Len(q) => Good(n)}
  <1> HIDE DEF q
  <1>3. Good(0)
    <2>1. after[0] = flags /\ ~created(0)
      BY <1>2 DEF Afters
    <2> QED BY <2>1
  <1>4. ASSUME NEW n \in Nat, n \in T, n + 1 <= Len(q)
        PROVE  Good(n + 1)
    <2>1. n <= Len(q) /\ n + 1 \in 1..Len(q) /\ (n + 1) - 1 = n
      BY <1>1, <1>4
    <2>2. Good(n)
      BY <2>1, <1>4
    <2> DEFINE w == q[n + 1]
    <2>3. after[n + 1] = Flagged(after[n], w) /\ w \in WritesOf(u)
      BY <2>1, <1>1, <1>2 DEF Afters
    <2>4. created(n + 1) <=> created(n) \/ w.op = "set"
      <3>1. \A i \in 1..(n + 1) : i \in 1..n \/ i = n + 1
        OBVIOUS
      <3>2. n + 1 \in 1..(n + 1) /\ \A i \in 1..n : i \in 1..(n + 1)
        OBVIOUS
      <3> QED BY <3>1, <3>2
    <2> HIDE DEF w, created
    <2>5. after[n] \in FlagDocs
      BY <2>2
    <2> HIDE DEF Good
    <2>6. OwnFlag(after[n], after[n + 1], u, w)
      BY <2>5, <2>3, FlaggedIs
    <2>7. after[n] \in FlagDocs /\ DOMAIN after[n] \subseteq Typists
      BY <2>5, DocIs
    <2> QED BY <2>2, <2>4, <2>6, <2>7 DEF Good, OwnFlag
  <1> HIDE DEF Good
  <1>5. \A n \in Nat : n \in T
    <2>1. 0 \in T
      BY <1>3
    <2>2. \A n \in Nat : n \in T => n + 1 \in T
      BY <1>4
    <2> HIDE DEF T
    <2> QED BY <2>1, <2>2, SetInduction
  <1>6. Good(Len(q))
    BY <1>1, <1>5
  <1>7. created(Len(q)) <=> Creates(q)
    BY DEF Creates
  <1> QED BY <1>2, <1>6, <1>7 DEF Good, q


(* The first write that waits is served: what remains ends as before.         *)
LEMMA HeadTail ==
  ASSUME NEW u, NEW q \in Seq(WritesOf(u)), q # <<>>
  PROVE  /\ Head(q) \in WritesOf(u) /\ Tail(q) \in Seq(WritesOf(u))
         /\ Tail(q) # <<>> => Tail(q)[Len(Tail(q))] = q[Len(q)]
         /\ Tail(q) = <<>> => q[Len(q)] = Head(q)
         /\ Creates(q) <=> Creates(Tail(q)) \/ Head(q).op = "set"
  <1> DEFINE t == Tail(q)
  <1>1. /\ t \in Seq(WritesOf(u)) /\ Len(q) \in Nat \ {0} /\ Len(t) = Len(q) - 1
        /\ Head(q) = q[1] /\ Head(q) \in WritesOf(u)
        /\ \A i \in 1..Len(t) : t[i] = q[i + 1]
    OBVIOUS
  <1> HIDE DEF t
  <1>2. t = <<>> <=> Len(t) = 0
    BY <1>1
  <1>3. t # <<>> => t[Len(t)] = q[Len(q)]
    <2> SUFFICES ASSUME t # <<>> PROVE t[Len(t)] = q[Len(q)]
      OBVIOUS
    <2>1. Len(t) \in 1..Len(t) /\ Len(t) + 1 = Len(q)
      BY <1>1, <1>2
    <2> QED BY <2>1, <1>1
  <1>4. t = <<>> => q[Len(q)] = Head(q)
    <2> SUFFICES ASSUME t = <<>> PROVE q[Len(q)] = Head(q)
      OBVIOUS
    <2>1. Len(q) = 1
      BY <1>1, <1>2
    <2> QED BY <2>1, <1>1
  <1>5. Creates(q) <=> Creates(t) \/ Head(q).op = "set"
    <2>1. ASSUME Creates(q) PROVE Creates(t) \/ Head(q).op = "set"
      <3>1. PICK i \in 1..Len(q) : q[i].op = "set"
        BY <2>1 DEF Creates
      <3>2. i = 1 \/ (i - 1 \in 1..Len(t) /\ (i - 1) + 1 = i)
        BY <1>1
      <3> QED BY <3>1, <3>2, <1>1 DEF Creates
    <2>2. ASSUME Creates(t) PROVE Creates(q)
      <3>1. PICK i \in 1..Len(t) : t[i].op = "set"
        BY <2>2 DEF Creates
      <3>2. i + 1 \in 1..Len(q)
        BY <1>1
      <3> QED BY <3>1, <3>2, <1>1 DEF Creates
    <2>3. ASSUME Head(q).op = "set" PROVE Creates(q)
      <3>1. 1 \in 1..Len(q)
        BY <1>1
      <3> QED BY <3>1, <2>3, <1>1 DEF Creates
    <2> QED BY <2>1, <2>2, <2>3
  <1> QED BY <1>1, <1>3, <1>4, <1>5 DEF t

(* What is said of v is of his own client and of the flags. *)
SameClient(v) ==
  /\ flagWrites'[v] = flagWrites[v] /\ flagsHeard'[v] = flagsHeard[v]
  /\ at'[v] = at[v] /\ typingCounter'[v] = typingCounter[v]
  /\ showTypingIndicator'[v] = showTypingIndicator[v]
  /\ v \in killed' <=> v \in killed

LEMMA OthersStay ==
  ASSUME NEW v \in Typists, SameClient(v), flags' = flags,
         Cleared(v), OfHeard(v), ForSomebody(v)
  PROVE  Cleared(v)' /\ OfHeard(v)' /\ ForSomebody(v)'
  <1>1. Stopped(v)' <=> Stopped(v)
    BY DEF SameClient, Stopped
  <1>2. Cleared(v)'
    BY <1>1 DEF SameClient, Cleared
  <1>3. OfHeard(v)'
    BY DEF SameClient, OfHeard
  <1>4. ForSomebody(v)'
    BY DEF SameClient, ForSomebody
  <1> QED BY <1>2, <1>3, <1>4

LEMMA TypingStarts ==
  ASSUME TypingInit
  PROVE  TypingInv
  <1>1. TypingTypes
    <2>1. flags \in FlagDocs
      <3>1. {} \in SUBSET Typists /\ NoFlags \in [{} -> BOOLEAN]
        BY DEF NoFlags
      <3> QED BY <3>1 DEF TypingInit, FlagDocs
    <2>2. DOMAIN flagWrites = Typists /\ \A u \in Typists : flagWrites[u] \in Seq(WritesOf(u))
      BY DEF TypingInit
    <2>3. 0 \in 0..MaxOpened
      BY TypingAssumption
    <2> QED BY <2>1, <2>2, <2>3 DEF TypingInit, TypingTypes
  <1>2. ASSUME NEW u \in Typists
        PROVE  Cleared(u) /\ OfHeard(u) /\ ForSomebody(u)
    <2>1. Cleared(u)
      BY DEF TypingInit, NoFlags, Cleared
    <2>2. at[u] = 0
      BY DEF TypingInit
    <2> QED BY <2>1, <2>2 DEF OfHeard, ForSomebody
  <1> QED BY <1>1, <1>2 DEF TypingInv

LEMMA OpenRoomKeeps ==
  ASSUME TypingInv, NEW u \in Typists, OpenRoom(u)
  PROVE  TypingInv'
  <1>1. TypingTypes'
    <2>1. opened[u] + 1 \in 0..MaxOpened
      BY TypingAssumption DEF TypingInv, TypingTypes, OpenRoom
    <2> QED BY <2>1 DEF TypingInv, TypingTypes, OpenRoom
  <1>2. ASSUME NEW v \in Typists
        PROVE  Cleared(v)' /\ OfHeard(v)' /\ ForSomebody(v)'
    <2>1. CASE v # u
      <3>1. SameClient(v) /\ flags' = flags
        BY <2>1 DEF TypingInv, TypingTypes, OpenRoom, SameClient
      <3> QED BY <3>1, OthersStay DEF TypingInv
    <2>2. CASE v = u
      <3>1. /\ flagsHeard'[u] = {} /\ showTypingIndicator'[u] = FALSE /\ flags' = flags
            /\ flagWrites' = flagWrites /\ typingCounter' = typingCounter /\ killed' = killed
        BY DEF TypingInv, TypingTypes, OpenRoom
      <3>2. Cleared(u)'
        BY <3>1 DEF TypingInv, Cleared, Stopped
      <3>3. OfHeard(u)'
        BY <3>1 DEF OfHeard
      <3>4. ForSomebody(u)'
        BY <3>1 DEF ForSomebody
      <3> QED BY <2>2, <3>2, <3>3, <3>4
    <2> QED BY <2>1, <2>2
  <1> QED BY <1>1, <1>2 DEF TypingInv

LEMMA LeaveRoomKeeps ==
  ASSUME TypingInv, NEW u \in Typists, LeaveRoom(u) \/ KillTypist(u)
  PROVE  TypingInv'
  <1>1. TypingTypes'
    <2>1. 0 \in 0..MaxOpened /\ [k \in 1..MaxOpened |-> 0] \in [1..MaxOpened -> Nat]
      BY TypingAssumption
    <2>2. CASE LeaveRoom(u)
      BY <2>1, <2>2 DEF TypingInv, TypingTypes, LeaveRoom
    <2>3. CASE KillTypist(u)
      BY <2>1, <2>3 DEF TypingInv, TypingTypes, KillTypist
    <2> QED BY <2>2, <2>3
  <1>2. ASSUME NEW v \in Typists
        PROVE  Cleared(v)' /\ OfHeard(v)' /\ ForSomebody(v)'
    <2>1. CASE v # u
      <3>1. SameClient(v) /\ flags' = flags
        BY <2>1 DEF TypingInv, TypingTypes, LeaveRoom, KillTypist, SameClient
      <3> QED BY <3>1, OthersStay DEF TypingInv
    <2>2. CASE v = u
      <3>1. at'[u] = 0 /\ flags' = flags /\ flagWrites' = flagWrites
        BY DEF TypingInv, TypingTypes, LeaveRoom, KillTypist
      <3>2. Stopped(u)' => Stopped(u)
        BY DEF LeaveRoom, KillTypist, Stopped
      <3>3. Cleared(u)'
        BY <3>1, <3>2 DEF TypingInv, Cleared
      <3> QED BY <2>2, <3>1, <3>3 DEF OfHeard, ForSomebody
    <2> QED BY <2>1, <2>2
  <1> QED BY <1>1, <1>2 DEF TypingInv

(* Who creates the document sees nobody as typing.                            *)
LEMMA TypingObserverKeeps ==
  ASSUME TypingInv, NEW u \in Typists, TypingObserver(u)
  PROVE  TypingInv'
  <1> DEFINE none == [op |-> "set", user |-> u, typing |-> FALSE]
  <1>1. PICK doc : doc = LocalFlags(u)
    OBVIOUS
  <1>2. /\ doc \in FlagDocs /\ DOMAIN doc \subseteq DOMAIN flags \cup {u}
        /\ Creates(flagWrites[u]) => DOMAIN doc \subseteq {u}
        /\ ~Creates(flagWrites[u]) => DOMAIN flags \subseteq DOMAIN doc
    BY <1>1, LocalFlagsAre DEF TypingInv, TypingTypes
  <1>3. doc = NoFlags <=> DOMAIN doc = {}
    BY <1>2, DocIs
  <1>4. DOMAIN doc \subseteq Typists /\ \A v \in DOMAIN doc : doc[v] \in BOOLEAN
    BY <1>2, DocIs
  <1>5. /\ at[u] # 0
        /\ flagsHeard' = [flagsHeard EXCEPT ![u] = {doc}]
        /\ IF doc = NoFlags THEN flagWrites' = [flagWrites EXCEPT ![u] = Append(@, none)]
           ELSE flagWrites' = flagWrites
        /\ UNCHANGED <<flags, at, opened, typingCounter, keys, killed>>
    BY <1>1 DEF TypingObserver, Send
  <1>6. PICK drawn \in IF DOMAIN doc \ {u} = {} THEN {showTypingIndicator[u]}
                       ELSE {doc[v] : v \in DOMAIN doc \ {u}} :
          showTypingIndicator' = [showTypingIndicator EXCEPT ![u] = drawn]
    BY <1>1 DEF TypingObserver
  <1>7. none \in WritesOf(u) /\ none.op = "set" /\ none.typing = FALSE
    BY DEF WritesOf
  <1> HIDE DEF none
  <1>8. flagWrites[u] \in Seq(WritesOf(u))
    BY DEF TypingInv, TypingTypes
  <1>9. PICK q : q = Append(flagWrites[u], none)
    OBVIOUS
  <1>10. q \in Seq(WritesOf(u)) /\ q # <<>> /\ q[Len(q)] = none
    BY <1>7, <1>8, <1>9, LastIs
  <1>11. flagWrites'[u] = IF doc = NoFlags THEN q ELSE flagWrites[u]
    BY <1>5, <1>9 DEF TypingInv, TypingTypes
  <1>12. drawn \in BOOLEAN /\ showTypingIndicator'[u] = drawn
    BY <1>4, <1>6 DEF TypingInv, TypingTypes
  <1>13. TypingTypes'
    <2>1. \A v \in Typists : v # u => flagWrites'[v] = flagWrites[v]
      BY <1>5 DEF TypingInv, TypingTypes
    <2>2. \A v \in Typists : flagWrites'[v] \in Seq(WritesOf(v))
      BY <2>1, <1>8, <1>10, <1>11 DEF TypingInv, TypingTypes
    <2>3. DOMAIN flagWrites' = Typists /\ DOMAIN flagsHeard' = Typists
      BY <1>5 DEF TypingInv, TypingTypes
    <2>4. showTypingIndicator' \in [Typists -> BOOLEAN]
      BY <1>6, <1>12 DEF TypingInv, TypingTypes
    <2> QED BY <2>2, <2>3, <2>4, <1>5 DEF TypingInv, TypingTypes
  <1>14. ASSUME NEW v \in Typists
         PROVE  Cleared(v)' /\ OfHeard(v)' /\ ForSomebody(v)'
    <2>1. CASE v # u
      <3>1. SameClient(v) /\ flags' = flags
        BY <2>1, <1>5, <1>6 DEF TypingInv, TypingTypes, SameClient
      <3> QED BY <3>1, OthersStay DEF TypingInv
    <2>2. CASE v = u
      <3>1. Cleared(u)'
        <4>1. Stopped(u)' <=> Stopped(u)
          BY <1>5 DEF Stopped
        <4>2. CASE doc = NoFlags
          BY <4>2, <1>7, <1>10, <1>11 DEF Cleared
        <4>3. CASE doc # NoFlags
          <5>1. flagWrites' = flagWrites /\ flags' = flags
            BY <4>3, <1>5
          <5> QED BY <5>1, <4>1 DEF TypingInv, Cleared
        <4> QED BY <4>2, <4>3
      <3>2. OfHeard(u)'
        <4>1. flagsHeard'[u] = {doc}
          BY <1>5 DEF TypingInv, TypingTypes
        <4>2. DOMAIN doc \ {u} # {} => \E x \in DOMAIN doc \ {u} : showTypingIndicator'[u] = doc[x]
          BY <1>6, <1>12
        <4> QED BY <4>1, <4>2 DEF OfHeard
      <3>3. ForSomebody(u)'
        <4> SUFFICES ASSUME showTypingIndicator'[u]
                     PROVE  ~Creates(flagWrites[u]) /\ DOMAIN flags \ {u} # {} /\ doc # NoFlags
          BY <1>5, <1>11 DEF ForSomebody
        <4>1. CASE DOMAIN doc \ {u} = {}
          <5>1. showTypingIndicator[u]
            BY <4>1, <1>6, <1>12
          <5> QED BY <5>1, <4>1, <1>2, <1>5 DEF TypingInv, ForSomebody
        <4>2. CASE DOMAIN doc \ {u} # {}
          BY <4>2, <1>2, <1>3
        <4> QED BY <4>1, <4>2
      <3> QED BY <2>2, <3>1, <3>2, <3>3
    <2> QED BY <2>1, <2>2
  <1> QED BY <1>13, <1>14 DEF TypingInv

LEMMA CounterStartKeeps ==
  ASSUME TypingInv, NEW u \in Typists, TypingCounterStart(u)
  PROVE  TypingInv'
  <1> DEFINE w == [op |-> "update", user |-> u, typing |-> TRUE]
             k == at[u]
  <1>1. /\ k \in 1..MaxOpened
        /\ typingCounter' = [typingCounter EXCEPT ![u][k] = @ + 1]
        /\ flagWrites' = [flagWrites EXCEPT ![u] = Append(@, w)]
        /\ UNCHANGED <<flags, flagsHeard, at, opened, showTypingIndicator, killed>>
    BY TypingAssumption DEF TypingInv, TypingTypes, TypingCounterStart, TypingCounterSave, Send
  <1>2. w \in WritesOf(u) /\ w.op # "set"
    BY DEF WritesOf
  <1> HIDE DEF w, k
  <1>3. flagWrites[u] \in Seq(WritesOf(u))
    BY DEF TypingInv, TypingTypes
  <1>4. PICK q : q = Append(flagWrites[u], w)
    OBVIOUS
  <1>5. q \in Seq(WritesOf(u)) /\ (Creates(q) <=> Creates(flagWrites[u]))
    BY <1>2, <1>3, <1>4, LastIs
  <1>6. flagWrites'[u] = q /\ \A v \in Typists : v # u => flagWrites'[v] = flagWrites[v]
    BY <1>1, <1>4 DEF TypingInv, TypingTypes
  <1>7. /\ typingCounter[u] \in [1..MaxOpened -> Nat]
        /\ typingCounter[u][k] \in Nat /\ typingCounter[u][k] + 1 \in Nat \ {0}
        /\ typingCounter'[u][k] = typingCounter[u][k] + 1
    <2>1. typingCounter[u] \in [1..MaxOpened -> Nat] /\ typingCounter[u][k] \in Nat
      BY <1>1 DEF TypingInv, TypingTypes
    <2>2. \A m \in Nat : m + 1 \in Nat \ {0}
      OBVIOUS
    <2>3. typingCounter'[u] = [typingCounter[u] EXCEPT ![k] = @ + 1]
      BY <1>1 DEF TypingInv, TypingTypes
    <2>4. typingCounter'[u][k] = typingCounter[u][k] + 1
      BY <2>1, <2>3, <1>1
    <2> QED BY <2>1, <2>2, <2>4
  <1>8. TypingTypes'
    <2>1. typingCounter' \in [Typists -> [1..MaxOpened -> Nat]]
      BY <1>1, <1>7 DEF TypingInv, TypingTypes
    <2>2. DOMAIN flagWrites' = Typists /\ \A v \in Typists : flagWrites'[v] \in Seq(WritesOf(v))
      BY <1>1, <1>5, <1>6 DEF TypingInv, TypingTypes
    <2> QED BY <2>1, <2>2, <1>1 DEF TypingInv, TypingTypes
  <1>9. ASSUME NEW v \in Typists
        PROVE  Cleared(v)' /\ OfHeard(v)' /\ ForSomebody(v)'
    <2>1. CASE v # u
      <3>1. SameClient(v) /\ flags' = flags
        BY <2>1, <1>1 DEF TypingInv, TypingTypes, SameClient
      <3> QED BY <3>1, OthersStay DEF TypingInv
    <2>2. CASE v = u
      <3>1. typingCounter'[u][k] # 0
        BY <1>7
      <3>2. Cleared(u)'
        BY <3>1, <1>1 DEF Cleared, Stopped
      <3>3. OfHeard(u)'
        BY <1>1 DEF TypingInv, OfHeard
      <3>4. ForSomebody(u)'
        BY <1>1, <1>5, <1>6 DEF TypingInv, ForSomebody
      <3> QED BY <2>2, <3>2, <3>3, <3>4
    <2> QED BY <2>1, <2>2
  <1> QED BY <1>8, <1>9 DEF TypingInv

(* The timer that fires last clears the flag; before, others are running.     *)
LEMMA CounterStopKeeps ==
  ASSUME TypingInv, NEW u \in Typists, NEW k \in 1..MaxOpened, TypingCounterStop(u, k)
  PROVE  TypingInv'
  <1> DEFINE w == [op |-> "update", user |-> u, typing |-> FALSE]
             last == typingCounter[u][k] = 1
  <1>1. /\ typingCounter[u][k] \in Nat /\ typingCounter[u][k] > 0
        /\ typingCounter' = [typingCounter EXCEPT ![u][k] = @ - 1]
        /\ IF last THEN flagWrites' = [flagWrites EXCEPT ![u] = Append(@, w)]
           ELSE flagWrites' = flagWrites
        /\ UNCHANGED <<flags, flagsHeard, at, opened, showTypingIndicator, killed>>
    BY DEF TypingInv, TypingTypes, TypingCounterStop, TypingCounterSave, Send
  <1>2. w \in WritesOf(u) /\ w.op # "set" /\ ~w.typing
    BY DEF WritesOf
  <1>3. ~last => typingCounter[u][k] - 1 # 0
    BY <1>1
  <1> HIDE DEF w, last
  <1>4. flagWrites[u] \in Seq(WritesOf(u))
    BY DEF TypingInv, TypingTypes
  <1>5. PICK q : q = Append(flagWrites[u], w)
    OBVIOUS
  <1>6. /\ q \in Seq(WritesOf(u)) /\ q # <<>> /\ q[Len(q)] = w
        /\ Creates(q) <=> Creates(flagWrites[u])
    BY <1>2, <1>4, <1>5, LastIs
  <1>7. /\ flagWrites'[u] = IF last THEN q ELSE flagWrites[u]
        /\ \A v \in Typists : v # u => flagWrites'[v] = flagWrites[v]
    BY <1>1, <1>5 DEF TypingInv, TypingTypes
  <1>8. TypingTypes'
    <2>1. typingCounter[u][k] - 1 \in Nat
      BY <1>1
    <2>2. typingCounter' \in [Typists -> [1..MaxOpened -> Nat]]
      BY <2>1, <1>1 DEF TypingInv, TypingTypes
    <2>3. \A v \in Typists : flagWrites'[v] \in Seq(WritesOf(v))
      BY <1>6, <1>7 DEF TypingInv, TypingTypes
    <2>4. DOMAIN flagWrites' = Typists
      BY <1>1 DEF TypingInv, TypingTypes
    <2> QED BY <2>2, <2>3, <2>4, <1>1 DEF TypingInv, TypingTypes
  <1>9. ASSUME NEW v \in Typists
        PROVE  Cleared(v)' /\ OfHeard(v)' /\ ForSomebody(v)'
    <2>1. CASE v # u
      <3>1. SameClient(v) /\ flags' = flags
        BY <2>1, <1>1, <1>7 DEF TypingInv, TypingTypes, SameClient
      <3> QED BY <3>1, OthersStay DEF TypingInv
    <2>2. CASE v = u
      <3>1. Cleared(u)'
        <4>1. CASE last
          BY <4>1, <1>2, <1>6, <1>7 DEF Cleared
        <4>2. CASE ~last
          <5>1. typingCounter'[u][k] # 0
            BY <4>2, <1>1, <1>3 DEF TypingInv, TypingTypes
          <5> QED BY <5>1 DEF Cleared, Stopped
        <4> QED BY <4>1, <4>2
      <3>2. OfHeard(u)'
        BY <1>1 DEF TypingInv, OfHeard
      <3>3. ForSomebody(u)'
        BY <1>1, <1>6, <1>7 DEF TypingInv, ForSomebody
      <3> QED BY <2>2, <3>1, <3>2, <3>3
    <2> QED BY <2>1, <2>2
  <1> QED BY <1>8, <1>9 DEF TypingInv

LEMMA ServeFlagsKeeps ==
  ASSUME TypingInv, NEW u \in Typists, ServeFlags(u)
  PROVE  TypingInv'
  <1>1. PICK q : q = flagWrites[u]
    OBVIOUS
  <1>2. PICK w : w = Head(q)
    OBVIOUS
  <1>3. PICK t : t = Tail(q)
    OBVIOUS
  <1>4. PICK d : d = Flagged(flags, w)
    OBVIOUS
  <1>5. /\ q # <<>> /\ q \in Seq(WritesOf(u)) /\ flags \in FlagDocs
        /\ flags' = d /\ flagWrites' = [flagWrites EXCEPT ![u] = t]
        /\ UNCHANGED <<flagsHeard, at, opened, typingCounter, showTypingIndicator, keys, killed>>
    BY <1>1, <1>2, <1>3, <1>4 DEF TypingInv, TypingTypes, ServeFlags
  <1>6. /\ w \in WritesOf(u) /\ t \in Seq(WritesOf(u))
        /\ t # <<>> => t[Len(t)] = q[Len(q)]
        /\ t = <<>> => q[Len(q)] = w
        /\ Creates(q) <=> Creates(t) \/ w.op = "set"
    BY <1>2, <1>3, <1>5, HeadTail
  <1>7. OwnFlag(flags, d, u, w)
    BY <1>4, <1>5, <1>6, FlaggedIs
  <1>8. /\ flagWrites'[u] = t
        /\ \A v \in Typists : v # u => flagWrites'[v] = flagWrites[v]
    BY <1>5 DEF TypingInv, TypingTypes
  <1>9. TypingTypes'
    <2>1. DOMAIN flagWrites' = Typists /\ \A v \in Typists : flagWrites'[v] \in Seq(WritesOf(v))
      BY <1>5, <1>6, <1>8 DEF TypingInv, TypingTypes
    <2> QED BY <2>1, <1>5, <1>7 DEF TypingInv, TypingTypes, OwnFlag
  <1>10. ASSUME NEW v \in Typists
         PROVE  Cleared(v)' /\ OfHeard(v)' /\ ForSomebody(v)'
    <2>1. Stopped(v)' <=> Stopped(v)
      BY <1>5 DEF Stopped
    <2>2. Cleared(v) /\ OfHeard(v) /\ ForSomebody(v)
      BY DEF TypingInv
    <2>3. Cleared(v)'
      <3>1. CASE v # u
        BY <3>1, <2>1, <2>2, <1>5, <1>7, <1>8 DEF Cleared, OwnFlag
      <3>2. CASE v = u /\ t # <<>>
        BY <3>2, <2>1, <2>2, <1>1, <1>5, <1>6, <1>8 DEF Cleared
      <3>3. CASE v = u /\ t = <<>>
        BY <3>3, <2>1, <2>2, <1>1, <1>5, <1>6, <1>7, <1>8 DEF Cleared, OwnFlag
      <3> QED BY <3>1, <3>2, <3>3
    <2>4. OfHeard(v)'
      BY <2>2, <1>5 DEF OfHeard
    <2>5. ForSomebody(v)'
      <3> SUFFICES ASSUME at[v] # 0, showTypingIndicator[v]
                   PROVE  ~Creates(flagWrites'[v]) /\ DOMAIN d \ {v} # {}
        BY <1>5 DEF ForSomebody
      <3>1. ~Creates(flagWrites[v]) /\ DOMAIN flags \ {v} # {}
        BY <2>2 DEF ForSomebody
      <3>2. CASE v = u
        BY <3>1, <3>2, <1>1, <1>6, <1>7, <1>8 DEF OwnFlag
      <3>3. CASE v # u
        BY <3>1, <3>3, <1>7, <1>8 DEF OwnFlag
      <3> QED BY <3>2, <3>3
    <2> QED BY <2>3, <2>4, <2>5
  <1> QED BY <1>9, <1>10 DEF TypingInv

LEMMA TypingSteps == TypingInv /\ [TypingNext]_typingVars => TypingInv'
  <1> SUFFICES ASSUME TypingInv, [TypingNext]_typingVars
               PROVE  TypingInv'
    OBVIOUS
  <1>1. CASE UNCHANGED typingVars
    <2>1. TypingTypes'
      BY <1>1 DEF typingVars, TypingInv, TypingTypes
    <2>2. ASSUME NEW v \in Typists
          PROVE  Cleared(v)' /\ OfHeard(v)' /\ ForSomebody(v)'
      <3>1. SameClient(v) /\ flags' = flags
        BY <1>1 DEF typingVars, SameClient
      <3> QED BY <3>1, OthersStay DEF TypingInv
    <2> QED BY <2>1, <2>2 DEF TypingInv
  <1>2. ASSUME NEW u \in Typists,
               \/ OpenRoom(u) \/ TypingObserver(u) \/ LeaveRoom(u) \/ KillTypist(u)
               \/ TypingCounterStart(u)
               \/ \E k \in 1..MaxOpened : TypingCounterStop(u, k)
               \/ ServeFlags(u)
        PROVE  TypingInv'
    BY <1>2, OpenRoomKeeps, TypingObserverKeeps, LeaveRoomKeeps, CounterStartKeeps,
       CounterStopKeeps, ServeFlagsKeeps
  <1> QED BY <1>1, <1>2 DEF TypingNext

LEMMA StoppedIsOff == TypingInv => IndicatorGoesOff
  <1> SUFFICES ASSUME TypingInv, NEW u \in Typists, at[u] # 0, Delivered(u),
                      \A v \in Typists \ {u} : Stopped(v), showTypingIndicator[u]
               PROVE  FALSE
    BY DEF IndicatorGoesOff
  <1>1. OfHeard(u) /\ DOMAIN flags \ {u} # {} /\ DOMAIN flags \subseteq Typists
    BY DocIs DEF TypingInv, TypingTypes, ForSomebody
  <1>2. PICK v \in DOMAIN flags \ {u} : showTypingIndicator[u] = flags[v]
    BY <1>1 DEF OfHeard, Delivered
  <1>3. Stopped(v) /\ Cleared(v) /\ flagWrites[v] = <<>>
    BY <1>1 DEF TypingInv, Delivered
  <1>4. ~flags[v]
    BY <1>2, <1>3 DEF Cleared
  <1> QED BY <1>2, <1>4

(* Nobody is shown as typing who has stopped, once all is delivered: however  *)
(* timers overlap and outlive their screens, and whoever creates the room's   *)
(* document again.                                                            *)
THEOREM GoesOff == TypingSpec => []IndicatorGoesOff
  <1>1. TypingInit => TypingInv
    BY TypingStarts
  <1>2. TypingInv /\ [TypingNext]_typingVars => TypingInv'
    BY TypingSteps
  <1>3. TypingInv => IndicatorGoesOff
    BY StoppedIsOff
  <1> QED BY <1>1, <1>2, <1>3, PTL DEF TypingSpec

--------------------------------------------------------------------------------
(* The pages of a chat. The invariant says where max and min stand relative to *)
(* what is shown: when the older messages have just come max is the index of   *)
(* the newest message not shown; after a tap min is that of the oldest shown.  *)

(* Before the older messages come: the first page is shown, all of it but at  *)
(* most one message.                                                          *)
FirstPage ==
    /\ ~loadOld
    /\ max = len /\ min = len - displayed
    /\ len <= FirstQuery /\ displayed <= NumberOfMessages
    /\ history = "none" => displayed = len
    /\ history \in {"asked", "failed"} => len = FirstQuery /\ displayed = NumberOfMessages

(* Afterwards.                                                                *)
LaterPages ==
    /\ loadOld => min = len - displayed
    /\ ~loadOld => max = len - displayed - 1 /\ min = max - NumberOfMessages
                   /\ displayed = NumberOfMessages /\ len > displayed

PagingInv ==
    /\ PagingTypeOK
    /\ RowsInOrder
    /\ displayed <= len
    /\ phase = "loading" => len = 0 /\ history = "none" /\ ~loadOld
    /\ phase = "loaded" => /\ (header <=> displayed < len)
                           /\ history # "loaded" => FirstPage
                           /\ history = "loaded" => LaterPages
    /\ phase = "trapped" => history \in {"asked", "failed"}

LEMMA Counting ==
  ASSUME NEW n \in Nat, NEW m \in Nat, n <= m
  PROVE  /\ [k \in 1..n |-> k] \in Seq(1..m)
         /\ Len([k \in 1..n |-> k]) = n
  <1> DEFINE s == [k \in 1..n |-> k]
  <1>1. s \in [1..n -> 1..m]
    OBVIOUS
  <1>2. s \in Seq(1..m)
    BY <1>1, SeqDef
  <1>3. DOMAIN s = 1..n /\ DOMAIN s = 1..Len(s) /\ Len(s) \in Nat
    BY <1>2, LenProperties
  <1>4. Len(s) = n
    BY <1>3
  <1> QED
    BY <1>2, <1>4

LEMMA CountingNone == <<>> = [k \in 1..0 |-> k]
  <1> DEFINE s == [k \in 1..0 |-> k]
  <1>1. s \in Seq(1..0) /\ Len(s) = 0
    BY Counting
  <1> HIDE DEF s
  <1>2. s = <<>>
    BY <1>1, EmptySeq
  <1> QED
    BY <1>2 DEF s

LEMMA PagingInvInit == PagingInit => PagingInv
  <1> SUFFICES ASSUME PagingInit PROVE PagingInv
    OBVIOUS
  <1>1. items = [k \in 1..0 |-> k] /\ items \in Seq(1..0)
    BY CountingNone, Counting DEF PagingInit
  <1>2. PagingTypeOK
    <2>1. len = 0 /\ items \in Seq(1..len)
      BY <1>1 DEF PagingInit
    <2>2. /\ phase = "loading" /\ history = "none"
          /\ displayed = 0 /\ max = 0 /\ min = 0
          /\ loadOld \in BOOLEAN /\ header \in BOOLEAN
      BY DEF PagingInit
    <2> QED
      BY <2>1, <2>2 DEF PagingTypeOK
  <1>3. RowsInOrder
    BY <1>1 DEF PagingInit, RowsInOrder
  <1> QED
    BY <1>2, <1>3 DEF PagingInit, PagingInv

LEMMA LoadMessagesInv ==
  ASSUME PagingInv, NEW n \in 0..FirstQuery, LoadMessages(n)
  PROVE  PagingInv'
  <1>1. n \in Nat /\ n <= FirstQuery /\ NumberOfMessages \in Nat
    BY PageAssumption
  <1>2. /\ len' = n /\ max' = n /\ min' \in Nat
        /\ min' = (IF n < NumberOfMessages THEN 0 ELSE n - NumberOfMessages)
    BY <1>1, PageAssumption DEF LoadMessages, Clipped
  <1>3. displayed' = n - min' /\ displayed' \in Nat /\ displayed' <= NumberOfMessages
    BY <1>1, <1>2, PageAssumption DEF LoadMessages
  <1>4. items' \in Seq(1..len') /\ items' = [k \in 1..displayed' |-> k]
    <2>1. items' = [k \in 1..displayed' |-> k]
      BY DEF LoadMessages
    <2>2. displayed' <= len' /\ len' \in Nat
      BY <1>1, <1>2, <1>3
    <2> QED
      BY <2>1, <2>2, <1>3, Counting
  <1>5. phase = "loading" /\ phase' = "loaded" /\ ~loadOld /\ loadOld' = loadOld
        /\ history' = (IF n > NumberOfMessages THEN "asked" ELSE "none")
        /\ header' = (displayed' # n)
    BY DEF LoadMessages, PagingInv, ShowButton
  <1>6. PagingTypeOK'
    BY <1>1, <1>2, <1>3, <1>4, <1>5 DEF PagingInv, PagingTypeOK
  <1>7. RowsInOrder'
    BY <1>4 DEF RowsInOrder
  <1>8. displayed' <= len' /\ (header' <=> displayed' < len')
    <2>1. header' <=> displayed' # n
      BY <1>5, Zenon
    <2>2. displayed' <= n /\ (displayed' # n <=> displayed' < n)
      BY <1>1, <1>2, <1>3
    <2> QED
      BY <1>2, <2>1, <2>2
  <1>9. FirstPage'
    BY <1>1, <1>2, <1>3, <1>5, PageAssumption DEF FirstPage
  <1> QED
    BY <1>5, <1>6, <1>7, <1>8, <1>9 DEF PagingInv

LEMMA OldMessagesInv ==
  ASSUME PagingInv, NEW n \in 0..MaxOlder, OldMessages(n)
  PROVE  PagingInv'
  <1>1. n \in Nat /\ NumberOfMessages \in Nat
    BY PageAssumption
  <1>2. FirstPage /\ len = FirstQuery /\ displayed = NumberOfMessages /\ header
    <2>1. FirstPage /\ len = FirstQuery /\ displayed = NumberOfMessages /\ (header <=> displayed < len)
      BY DEF OldMessages, PagingInv, FirstPage
    <2> QED
      BY <2>1, <1>1, PageAssumption
  <1>3. len' = len + n /\ len' \in Nat /\ items' = items
        /\ max' = len' - displayed - 1 /\ min' = max' - NumberOfMessages
    BY <1>1 DEF OldMessages, PagingInv, PagingTypeOK
  <1>4. items' \in Seq(1..len')
    <2>1. displayed <= len' /\ displayed \in Nat
      BY <1>1, <1>3 DEF PagingInv, PagingTypeOK
    <2> QED
      BY <2>1, <1>3, Counting DEF PagingInv, RowsInOrder
  <1> QED
    BY <1>1, <1>2, <1>3, <1>4, PageAssumption
       DEF OldMessages, PagingInv, PagingTypeOK, RowsInOrder, FirstPage, LaterPages

LEMMA OldMessagesFailedInv ==
  ASSUME PagingInv, OldMessagesFailed
  PROVE  PagingInv'
  BY DEF OldMessagesFailed, PagingInv, PagingTypeOK, RowsInOrder, FirstPage

(* The range a tap asks for lies on top of what is shown, within the array.   *)
LEMMA NextRange ==
  ASSUME PagingInv, phase = "loaded", header, history = "loaded"
  PROVE  /\ NextMax = len - displayed - 1
         /\ NextMin \in Nat /\ NextMin <= NextMax
         /\ NextMax < len
  <1>1. LaterPages /\ displayed < len /\ displayed \in Nat /\ len \in Nat
    BY DEF PagingInv, PagingTypeOK
  <1>2. NumberOfMessages \in Nat /\ max \in Int /\ min \in Int
    BY PageAssumption DEF PagingInv, PagingTypeOK
  <1>3. CASE loadOld
    BY <1>1, <1>2, <1>3 DEF LaterPages, NextMax, NextMin, Clipped
  <1>4. CASE ~loadOld
    BY <1>1, <1>2, <1>4 DEF LaterPages, NextMax, NextMin, Clipped
  <1> QED
    BY <1>3, <1>4

(* Before the older messages have come it lies beyond the array.              *)
LEMMA RangeTooEarly ==
  ASSUME PagingInv, phase = "loaded", header, history # "loaded"
  PROVE  NextMax = len /\ history \in {"asked", "failed"}
  <1>1. FirstPage /\ displayed < len /\ history # "none"
    BY DEF PagingInv, FirstPage, PagingTypeOK
  <1> QED
    BY <1>1 DEF PagingInv, PagingTypeOK, FirstPage, NextMax

LEMMA LoadMoreInv ==
  ASSUME PagingInv, LoadMore
  PROVE  PagingInv'
  <1>1. phase = "loaded" /\ header /\ history' = history /\ len' = len
    BY DEF LoadMore
  <1>2. CASE history # "loaded"
    <2>1. NextMax = len /\ history \in {"asked", "failed"} /\ len \in Nat
      BY <1>1, <1>2, RangeTooEarly DEF PagingInv, PagingTypeOK
    <2>2. phase' = "trapped" /\ UNCHANGED <<items, displayed, loadOld, header>>
          /\ max' = len /\ min' = NextMin
      <3>1. ~(NextMax < len)
        BY <2>1
      <3> QED
        BY <2>1, <3>1 DEF LoadMore
    <2>3. NextMin \in Int
      BY <2>1, PageAssumption DEF NextMin, NextMax, Clipped, PagingInv, PagingTypeOK
    <2> QED
      BY <1>1, <2>1, <2>2, <2>3 DEF PagingInv, PagingTypeOK, RowsInOrder
  <1>3. CASE history = "loaded"
    <2> DEFINE page == NextMax - NextMin + 1
    <2>1. /\ NextMax = len - displayed - 1 /\ NextMin \in Nat
          /\ NextMin <= NextMax /\ NextMax < len
          /\ len \in Nat /\ displayed \in Nat
      BY <1>1, <1>3, NextRange DEF PagingInv, PagingTypeOK
    <2>2. /\ max' = NextMax /\ min' = NextMin
          /\ items' = Inserted(NextMax, NextMin)
          /\ displayed' = displayed + NextMax - NextMin + 1
          /\ loadOld' = TRUE /\ header' = (displayed' # len')
          /\ phase' = phase
      BY <1>1, <2>1 DEF LoadMore, ShowButton
    <2>3. displayed' \in Nat /\ displayed' <= len' /\ min' = len' - displayed'
      BY <1>1, <2>1, <2>2
    <2>4. items' = [k \in 1..displayed' |-> k]
      <3>1. Len(items) = displayed /\ \A k \in 1..displayed : items[k] = k
        BY <2>1, Counting DEF PagingInv, RowsInOrder
      <3>2. items' = [k \in 1..displayed' |->
                        IF k <= displayed THEN items[k] ELSE len - NextMax + (k - displayed - 1)]
        BY <2>1, <2>2, <3>1 DEF Inserted
      <3>3. \A k \in 1..displayed' :
                (IF k <= displayed THEN items[k] ELSE len - NextMax + (k - displayed - 1)) = k
        BY <2>1, <2>3, <3>1
      <3> QED
        BY <3>2, <3>3
    <2>5. items' \in Seq(1..len')
      BY <1>1, <2>1, <2>3, <2>4, Counting
    <2>6. PagingTypeOK' /\ RowsInOrder'
      BY <1>1, <2>1, <2>2, <2>3, <2>4, <2>5 DEF PagingInv, PagingTypeOK, RowsInOrder
    <2>7. displayed' <= len' /\ (header' <=> displayed' < len')
      <3>1. header' <=> displayed' # len'
        BY <2>2, Zenon
      <3>2. displayed' # len' <=> displayed' < len'
        BY <1>1, <2>1, <2>3
      <3> QED
        BY <2>3, <3>1, <3>2
    <2>8. LaterPages'
      BY <2>2, <2>3 DEF LaterPages
    <2> QED
      BY <1>1, <1>3, <2>2, <2>6, <2>7, <2>8 DEF PagingInv
  <1> QED
    BY <1>2, <1>3

LEMMA PagingStep == PagingInv /\ [PagingNext]_pagingVars => PagingInv'
  <1> SUFFICES ASSUME PagingInv, [PagingNext]_pagingVars
               PROVE  PagingInv'
    OBVIOUS
  <1>1. CASE \E n \in 0..FirstQuery : LoadMessages(n)
    BY <1>1, LoadMessagesInv
  <1>2. CASE \E n \in 0..MaxOlder : OldMessages(n)
    BY <1>2, OldMessagesInv
  <1>3. CASE OldMessagesFailed
    BY <1>3, OldMessagesFailedInv
  <1>4. CASE LoadMore
    BY <1>4, LoadMoreInv
  <1>5. CASE UNCHANGED pagingVars
    BY <1>5 DEF pagingVars, PagingInv, PagingTypeOK, RowsInOrder, FirstPage, LaterPages
  <1> QED
    BY <1>1, <1>2, <1>3, <1>4, <1>5 DEF PagingNext

LEMMA PagingInvariance == PagingSpec => []PagingInv
  BY PagingInvInit, PagingStep, PTL DEF PagingSpec

(* The counters of the controller keep their types, and no row shows a message *)
(* that is not loaded.                                                        *)
THEOREM PagingTypes == PagingSpec => []PagingTypeOK
  <1>1. PagingInv => PagingTypeOK
    BY DEF PagingInv
  <1> QED
    BY <1>1, PagingInvariance, PTL

(* For every page size and every number of messages stored, the rows are the  *)
(* newest loaded messages in order, none missing and none twice, whatever the *)
(* order of answers and taps (insertMessages, loadMoreMessages).              *)
THEOREM InOrder == PagingSpec => []RowsInOrder
  <1>1. PagingInv => RowsInOrder
    BY DEF PagingInv
  <1> QED
    BY <1>1, PagingInvariance, PTL

(* An index of loadMoreMessages leaves the array only when the button is      *)
(* tapped before getOldmessagesInBackground has its answer.                   *)
THEOREM NoTrap == PagingSpec => []NoTrapOnceLoaded
  <1>1. PagingInv => NoTrapOnceLoaded
    BY DEF PagingInv, NoTrapOnceLoaded
  <1> QED
    BY <1>1, PagingInvariance, PTL

(* showLoadEarlierMessagesHeader is on exactly while there are loaded messages *)
(* that are not on display.                                                   *)
THEOREM Button == PagingSpec => []ButtonWhileEarlier
  <1>1. PagingInv => ButtonWhileEarlier
    BY DEF PagingInv, ButtonWhileEarlier
  <1> QED
    BY <1>1, PagingInvariance, PTL
================
