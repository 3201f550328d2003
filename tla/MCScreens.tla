------------------------------ MODULE MCScreens ------------------------------
(***************************************************************************)
(* Four parts of the client that share no state: Init chooses the one that *)
(* runs, the others stay as they are.                                      *)
(***************************************************************************)
EXTENDS Typing, PushIds, MediaCache, ChatList

CONSTANTS u1, u2, c1, c2, c3

VARIABLE part

vars == <<part, typingVars, pushVars, mediaVars, listVars>>

Init ==
    /\ part \in {"typing", "push", "media", "list"}
    /\ TypingInit /\ PushInit /\ MediaInit /\ ListInit
    /\ part # "push" => reader = "push" /\ asked = {}
    /\ part # "list" => recents = <<>>

Next ==
    /\ UNCHANGED part
    /\ \/ part = "typing" /\ TypingNext /\ UNCHANGED <<pushVars, mediaVars, listVars>>
       \/ part = "push" /\ PushNext /\ UNCHANGED <<typingVars, mediaVars, listVars>>
       \/ part = "media" /\ MediaNext /\ UNCHANGED <<typingVars, pushVars, listVars>>
       \/ part = "list" /\ ListNext /\ UNCHANGED <<typingVars, pushVars, mediaVars>>

Spec == Init /\ [][Next]_vars
=============================================================================
