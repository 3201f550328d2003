----------------------------- MODULE MCSession -----------------------------
(* Instances of Session for TLC: two accounts, users to block.              *)
EXTENDS Session

CONSTANTS alice, bob, p, q, nil

Two == {alice, bob}
=============================================================================
