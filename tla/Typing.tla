-------------------------------- MODULE Typing --------------------------------
(***************************************************************************)
(* The typing indicator of a chat (ChatViewController.swift): one document *)
(* per room with a flag per user.  Who types sets his flag with every key  *)
(* and clears it when the last of his timers has fired; whoever has the    *)
(* chat open listens to the flags of the others, and creates the document  *)
(* if there is none.                                                       *)
(***************************************************************************)
EXTENDS Integers, Sequences

CONSTANTS Typists,        \* the users of the room
          MaxKeys,        \* bound: how many keys are typed
          MaxOpened       \* bound: how often each opens the chat

ASSUME TypingAssumption == MaxKeys \in Nat /\ MaxOpened \in Nat

VARIABLES
    flags,         \* Typing/<room> at the server, no flags: no document
    flagWrites,    \* user -> his queue of writes (external)
    flagsHeard,    \* user -> what his listener was last called with, in a set
    at,            \* user -> the number of the screen he has open, or 0
    opened,        \* user -> how often he opened the chat
    typingCounter, \* user, screen -> typingCounter, which also counts the timers
    showTypingIndicator,      \* user -> on his open screen
    keys,          \* keys typed (for MaxKeys)
    killed         \* users whose app was killed (auxiliary)

typingVars == <<flags, flagWrites, flagsHeard, at, opened, typingCounter,
                showTypingIndicator, keys, killed>>

NoFlags == [u \in {} |-> FALSE]

\* setData replaces the document, updateData of a missing one is rejected.
Flagged(doc, w) ==
    IF w.op = "set" THEN [u \in {w.user} |-> FALSE]
    ELSE IF doc = NoFlags THEN doc
    ELSE [u \in DOMAIN doc \cup {w.user} |-> IF u = w.user THEN w.typing ELSE doc[u]]

\* What the client of u has: the document with his queued writes.
LocalFlags(u) ==
    LET after[n \in 0..Len(flagWrites[u])] ==
            IF n = 0 THEN flags ELSE Flagged(after[n - 1], flagWrites[u][n])
    IN  after[Len(flagWrites[u])]

Send(u, w) == flagWrites' = [flagWrites EXCEPT ![u] = Append(@, w)]

TypingCounterSave(u, typing) == Send(u, [op |-> "update", user |-> u, typing |-> typing])

\* viewDidLoad: createTypingObserver, on a new screen.
OpenRoom(u) ==
    /\ at[u] = 0 /\ opened[u] < MaxOpened
    /\ opened' = [opened EXCEPT ![u] = @ + 1]
    /\ at' = [at EXCEPT ![u] = opened[u] + 1]
    /\ flagsHeard' = [flagsHeard EXCEPT ![u] = {}]
    /\ showTypingIndicator' = [showTypingIndicator EXCEPT ![u] = FALSE]
    /\ UNCHANGED <<flags, flagWrites, typingCounter, keys, killed>>

\* The snapshot listener: of several others' flags the one that comes last in
\* the dictionary is shown, and without any the indicator stays as it is.
TypingObserver(u) ==
    LET doc == LocalFlags(u)
        others == DOMAIN doc \ {u}
    IN  /\ at[u] # 0 /\ flagsHeard[u] # {doc}
        /\ flagsHeard' = [flagsHeard EXCEPT ![u] = {doc}]
        /\ IF doc = NoFlags THEN Send(u, [op |-> "set", user |-> u, typing |-> FALSE])
           ELSE UNCHANGED flagWrites
        /\ \E shown \in IF others = {} THEN {showTypingIndicator[u]}
                        ELSE {doc[v] : v \in others} :
              showTypingIndicator' = [showTypingIndicator EXCEPT ![u] = shown]
        /\ UNCHANGED <<flags, at, opened, typingCounter, keys, killed>>

\* A key is typed: a timer of two seconds is started.
TypingCounterStart(u) ==
    /\ at[u] # 0 /\ keys < MaxKeys
    /\ keys' = keys + 1
    /\ typingCounter' = [typingCounter EXCEPT ![u][at[u]] = @ + 1]
    /\ TypingCounterSave(u, TRUE)
    /\ UNCHANGED <<flags, flagsHeard, at, opened, showTypingIndicator, killed>>

\* Wrong variant: the counter is compared before it is decreased.
StopAtOnce(u, k) ==
    /\ typingCounter[u][k] > 0
    /\ typingCounter' = [typingCounter EXCEPT ![u][k] = @ - 1]
    /\ IF typingCounter[u][k] = 0 THEN TypingCounterSave(u, FALSE)
       ELSE UNCHANGED flagWrites
    /\ UNCHANGED <<flags, flagsHeard, at, opened, showTypingIndicator, keys, killed>>

\* A timer fires, also after the screen was left.
TypingCounterStop(u, k) ==
    /\ typingCounter[u][k] > 0
    /\ typingCounter' = [typingCounter EXCEPT ![u][k] = @ - 1]
    /\ IF typingCounter[u][k] = 1 THEN TypingCounterSave(u, FALSE)
       ELSE UNCHANGED flagWrites
    /\ UNCHANGED <<flags, flagsHeard, at, opened, showTypingIndicator, keys, killed>>

\* backAction: removeListeners.
LeaveRoom(u) ==
    /\ at[u] # 0
    /\ at' = [at EXCEPT ![u] = 0]
    /\ UNCHANGED <<flags, flagWrites, flagsHeard, opened, typingCounter,
                   showTypingIndicator, keys, killed>>

\* The app is killed: its timers are gone, its writes are not.
KillTypist(u) ==
    /\ at[u] # 0
    /\ at' = [at EXCEPT ![u] = 0]
    /\ typingCounter' = [typingCounter EXCEPT ![u] = [k \in 1..MaxOpened |-> 0]]
    /\ killed' = killed \cup {u}
    /\ UNCHANGED <<flags, flagWrites, flagsHeard, opened, showTypingIndicator, keys>>

ServeFlags(u) ==
    /\ flagWrites[u] # <<>>
    /\ flags' = Flagged(flags, Head(flagWrites[u]))
    /\ flagWrites' = [flagWrites EXCEPT ![u] = Tail(@)]
    /\ UNCHANGED <<flagsHeard, at, opened, typingCounter, showTypingIndicator, keys, killed>>

TypingInit ==
    /\ flags = NoFlags
    /\ flagWrites = [u \in Typists |-> <<>>]
    /\ flagsHeard = [u \in Typists |-> {}]
    /\ at = [u \in Typists |-> 0]
    /\ opened = [u \in Typists |-> 0]
    /\ typingCounter = [u \in Typists |-> [k \in 1..MaxOpened |-> 0]]
    /\ showTypingIndicator = [u \in Typists |-> FALSE]
    /\ keys = 0
    /\ killed = {}

TypingNext ==
    \E u \in Typists :
        \/ OpenRoom(u) \/ TypingObserver(u) \/ LeaveRoom(u) \/ KillTypist(u)
        \/ TypingCounterStart(u)
        \/ \E k \in 1..MaxOpened : TypingCounterStop(u, k)
        \/ ServeFlags(u)

TypingSpec == TypingInit /\ [][TypingNext]_typingVars

----------------------------------------------------------------------------
\* Nobody is shown as typing who has stopped: when all timers have fired and
\* all is delivered the indicator is off, though timers overlap and outlive
\* their screens, flags are lost to a second creation of the document and
\* updates to a missing one.  Only a typist whose app was killed may stay on.
Delivered(u) ==
    /\ \A v \in Typists : flagWrites[v] = <<>>
    /\ flagsHeard[u] = {flags}

Stopped(u) == u \notin killed /\ \A k \in 1..MaxOpened : typingCounter[u][k] = 0

IndicatorGoesOff ==
    \A u \in Typists :
        at[u] # 0 /\ Delivered(u) /\ (\A v \in Typists \ {u} : Stopped(v))
            => ~showTypingIndicator[u]
=============================================================================
