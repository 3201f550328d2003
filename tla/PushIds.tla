------------------------------- MODULE PushIds -------------------------------
(***************************************************************************)
(* Two functions that ask for the documents of several users at once and   *)
(* count the answers: getMembersToPush, for the push of every message      *)
(* (PushNotifications.swift), and getUsersFromFirestore, for the list of   *)
(* blocked users and the members of a group (FUser.swift).                 *)
(***************************************************************************)
EXTENDS Integers, Sequences, FiniteSets

CONSTANTS Members,    \* who may be asked for
          Myself      \* the current user

ASSUME PushAssumption == IsFiniteSet(Members)

VARIABLES
    asked,        \* the users asked for, memberId's that may include Myself
    reader,       \* which of the two functions runs
    unanswered,   \* getDocument calls under way
    usersArray,   \* what was collected: push ids or users
    count,
    completions,  \* what the completion was called with, call by call
    unfound       \* users without a document or without an answer (auxiliary)

pushVars == <<asked, reader, unanswered, usersArray, count, completions, unfound>>

\* removeCurrentUserFromMembersArray: nobody is pushed by himself.
Ids == IF reader = "push" THEN asked \ {Myself} ELSE asked

\* Wrong variant: an answer without a document is counted, too.
EveryAnswer(answer) == 1

Counts(answer) == IF answer = "exists" THEN 1 ELSE 0

\* What the two functions do apart: no answer completes a push and ends the
\* other in silence, and the other leaves the current user out of its list.
Completes(answer) ==
    \/ answer = "missing"
    \/ answer = "error" /\ reader = "push"
    \/ answer = "exists" /\ count + Counts(answer) = Cardinality(Ids)

\* getDocument answers, with or without a document, or with no snapshot at all.
Answered(u, answer) ==
    /\ u \in unanswered
    /\ unanswered' = unanswered \ {u}
    /\ count' = count + Counts(answer)
    /\ usersArray' = IF answer = "exists" THEN usersArray \cup ({u} \ {Myself}) ELSE usersArray
    /\ completions' = IF Completes(answer) THEN Append(completions, usersArray')
                      ELSE completions
    /\ unfound' = IF answer = "exists" THEN unfound ELSE unfound \cup {<<u, answer>>}
    /\ UNCHANGED <<asked, reader>>

PushInit ==
    /\ asked \in SUBSET Members
    /\ reader \in {"push", "users"}
    /\ unanswered = Ids
    /\ usersArray = {} /\ count = 0 /\ completions = <<>> /\ unfound = {}

PushNext == \E u \in Ids, answer \in {"exists", "missing", "error"} : Answered(u, answer)

PushSpec == PushInit /\ [][PushNext]_pushVars

----------------------------------------------------------------------------
\* Answers come in any order, and each may fail.  If all are found, the
\* completion is called once, with everybody - if anybody is asked for: for
\* an empty list it is never called.  Otherwise it is never called for the
\* end of the list: a push is sent once for each that was not found,
\* each time to those found until then and again to those before, and the list
\* of users is given once for each missing one; who is found after the last of
\* them is left out.
Failures == {f \in unfound : reader = "push" \/ f[2] = "missing"}

EachFailureCompletes ==
    unanswered = {} =>
        /\ unfound = {} /\ Ids # {} => completions = <<Ids \ {Myself}>>
        /\ unfound # {} \/ Ids = {} => Len(completions) = Cardinality(Failures)
        /\ \A i, j \in DOMAIN completions : i < j => completions[i] \subseteq completions[j]
=============================================================================
