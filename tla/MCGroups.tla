------------------------------ MODULE MCGroups ------------------------------
(* Instances of Groups for TLC: an owner, a member, two users to invite.    *)
EXTENDS Groups

CONSTANTS a, b, c, d, nil

Four == {a, b, c, d}
Two == {a, b}
PickB == {<<b>>}
=============================================================================
