--------------------------- MODULE MCFirestoreClient ---------------------------
(* FirestoreClient for TLC: the bounds of each scenario.                      *)
EXTENDS FirestoreClient

CONSTANTS u1, u2, d1, d2

Nothing == [write |-> 0, refused |-> 0, break |-> 0, restart |-> 0, user |-> 0,
            listen |-> 0, other |-> 0, docs |-> {d1}]

Scenarios == {
  \* more writes than the pipeline takes, one refused, the connection lost
  [Nothing EXCEPT !.write = 3, !.refused = 1, !.break = 1],
  \* the same under a listener that lags behind
  [Nothing EXCEPT !.write = 2, !.refused = 1, !.break = 1, !.listen = 1],
  \* two documents, listened to one after the other
  [Nothing EXCEPT !.write = 2, !.listen = 1, !.docs = {d1, d2}],
  \* killed with results held, the user changed before or after
  [Nothing EXCEPT !.write = 2, !.restart = 1, !.listen = 1],
  [Nothing EXCEPT !.write = 1, !.restart = 1, !.user = 1, !.listen = 1, !.docs = {d1, d2}],
  [Nothing EXCEPT !.write = 2, !.refused = 1, !.restart = 1, !.user = 1],
  \* two users by turns share the ids
  [Nothing EXCEPT !.write = 3, !.user = 2],
  [Nothing EXCEPT !.write = 1, !.break = 1, !.user = 1, !.listen = 1, !.other = 1],
  \* another device writes while listeners come and go
  [Nothing EXCEPT !.write = 1, !.restart = 1, !.listen = 2, !.other = 1],
  [Nothing EXCEPT !.write = 2, !.listen = 1, !.other = 1] }
================================================================================
