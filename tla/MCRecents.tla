----------------------------- MODULE MCRecents -----------------------------
(* Instances of Recents for TLC: two users, and how often each     *)
(* operation may be called in a behaviour.                                  *)
EXTENDS Recents, TLC

CONSTANTS a, b

Once(ops) == [o \in Operations |-> IF o \in ops THEN 1 ELSE 0]

TwoUsers == {a, b}

\* The counter, in a group: bursts, clears, a killed app, a failed query, two openings.
CounterBudget == ("send" :> 2) @@ Once({"start", "row", "back", "kill", "fail"})

\* Life and death of recents, in a private room: created twice, deleted by row or by blocking,
\* created again by a tap on the row.
LifeBudget == ("start" :> 2) @@ Once({"row", "send", "delete", "block"})

\* Liveness and muting: nothing is killed and no query fails.
LiveBudget == Once({"start", "row", "send", "block", "mute", "delete"})

\* Safety in a group and in a private room, liveness in a private one.
GroupAndPrivate == ("group" :> {CounterBudget}) @@ ("private" :> {LifeBudget})
PrivateOnly == ("group" :> {}) @@ ("private" :> {LiveBudget})
=============================================================================
