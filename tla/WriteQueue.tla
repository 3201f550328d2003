------------------------------ MODULE WriteQueue ------------------------------
(* What the Firestore client promises about the writes of one device, without *)
(* batch ids, streams, caches or pipelines: each user's writes are taken by   *)
(* the server one after another and in the order they were issued; a write is *)
(* settled once, first come first served, as successful only after the server *)
(* took it and as failed only when the server refused it; a connection may be *)
(* lost between the two, and the server is then given every unsettled write   *)
(* once more, but never again one that is settled.                            *)
(* FirestoreClient implements it (FirestoreClient!QueueSpec).                 *)
EXTENDS Naturals, Sequences

CONSTANTS
  Users,     \* the users of the device
  Writes     \* the numbers of their writes, in the order of issue

VARIABLES
  pending,   \* pending[u]: the unsettled writes of user u, in order of issue
  taken,     \* taken[u]: how many of them the server took on this connection
  refused,   \* refused[u]: the server refused the one that follows these
  log,       \* the writes of this device the server applied, in order
  settled    \* the settled writes with their user and result, in order

vars == <<pending, taken, refused, log, settled>>

Issued == (UNION {{pending[u][i] : i \in 1..Len(pending[u])} : u \in Users})
            \cup {settled[i].w : i \in 1..Len(settled)}

Init ==
  /\ pending = [u \in Users |-> <<>>]
  /\ taken = [u \in Users |-> 0]
  /\ refused = [u \in Users |-> FALSE]
  /\ log = <<>>
  /\ settled = <<>>

(* The app writes: writes are numbered in the order they are issued. *)
Issue(u, w) ==
  /\ \A x \in Issued : x < w
  /\ pending' = [pending EXCEPT ![u] = Append(@, w)]
  /\ UNCHANGED <<taken, refused, log, settled>>

(* The server applies the next write of the connection. *)
Take(u) ==
  /\ ~refused[u]
  /\ taken[u] < Len(pending[u])
  /\ taken' = [taken EXCEPT ![u] = @ + 1]
  /\ log' = Append(log, pending[u][taken[u] + 1])
  /\ UNCHANGED <<pending, refused, settled>>

(* The server refuses the next write of the connection, and takes no more. *)
Refuse(u) ==
  /\ ~refused[u]
  /\ taken[u] < Len(pending[u])
  /\ refused' = [refused EXCEPT ![u] = TRUE]
  /\ UNCHANGED <<pending, taken, log, settled>>

Settle(u, ok) ==
  /\ pending' = [pending EXCEPT ![u] = Tail(@)]
  /\ settled' = Append(settled, [user |-> u, w |-> Head(pending[u]), ok |-> ok])

(* The client hears of the first write taken. *)
Confirm(u) ==
  /\ taken[u] > 0
  /\ Settle(u, TRUE)
  /\ taken' = [taken EXCEPT ![u] = @ - 1]
  /\ UNCHANGED <<refused, log>>

(* The client hears of the refusal, after all that was taken before it. *)
Fail(u) ==
  /\ refused[u]
  /\ taken[u] = 0
  /\ Settle(u, FALSE)
  /\ refused' = [refused EXCEPT ![u] = FALSE]
  /\ UNCHANGED <<taken, log>>

(* The connection is lost with what the server had to say: all that is not *)
(* settled will be given to it again.                                      *)
Lose(u) ==
  /\ taken' = [taken EXCEPT ![u] = 0]
  /\ refused' = [refused EXCEPT ![u] = FALSE]
  /\ UNCHANGED <<pending, log, settled>>

Next ==
  \E u \in Users :
    \/ \E w \in Writes : Issue(u, w)
    \/ Take(u)
    \/ Refuse(u)
    \/ Confirm(u)
    \/ Fail(u)
    \/ Lose(u)

Spec == Init /\ [][Next]_vars
===============================================================================
