---------------------------- MODULE MCUserLists ----------------------------
(* Ann, Bob and adam, whom the query finds last as he is not capitalised,   *)
(* and Cyd; each has a number of two or three digits, the country code is 3.*)
EXTENDS UserLists, TLC

CONSTANTS me, ann, bob, cyd, adam

ByName == <<ann, bob, cyd, me, adam>>

FirstLetter ==
    (ann :> "A") @@ (bob :> "B") @@ (cyd :> "C") @@ (me :> "M") @@ (adam :> "A")

InCity == {me, ann, bob}
InCountry == {me, ann, cyd, adam}

Numbers ==
    (ann :> <<4, 7>>) @@ (bob :> <<4, 8>>) @@ (cyd :> <<5>>) @@ (me :> <<>>)
        @@ (adam :> <<5, 3>>)

\* Ann's number with the code, Bob's and adam's without.
Abroad == [code |-> <<3>>, digits |-> <<3, 4, 7>>]
AtHome == [code |-> <<3>>, digits |-> <<4, 8>>]
Ambiguous == [code |-> <<3>>, digits |-> <<5, 3>>]

TwoBooks == {{Abroad, AtHome}, {Abroad, AtHome, Ambiguous}}
=============================================================================
