---------------------------- MODULE FirestoreClient ----------------------------
(* The Firestore client of one device (Pods/FirebaseFirestore): the sync      *)
(* engine, the local store with its persisted mutation queues and document    *)
(* cache, and the remote store with its write pipeline. Everything runs on    *)
(* one worker queue, so a handler is one action. Concurrent with it: the      *)
(* backend, other devices, lost connections, a change of user, the app being  *)
(* killed and started again. Every write of the app goes through it; the      *)
(* other modules of this project assume the outcome.                          *)
EXTENDS Integers, Sequences, SequencesExt, FiniteSetsExt

CONSTANTS
  Users,             \* whose writes the device keeps (one may be "signed out")
  Docs,              \* the documents
  FirstUser,         \* the one the app is first started with
  MaxPendingWrites,  \* kMaxPendingWrites
  Budgets            \* bounds: how often each event may happen, to which documents

Bounds == [write : Nat, refused : Nat, break : Nat, restart : Nat, user : Nat,
           listen : Nat, other : Nat, docs : SUBSET Docs]

ASSUME ClientAssumption ==
  /\ FirstUser \in Users
  /\ MaxPendingWrites \in Nat \ {0}
  /\ Budgets \subseteq Bounds
  /\ IsFiniteSet(Budgets)

VARIABLES
  budget,        \* what is left of the bounds
  \* persisted in LevelDB
  queue,         \* queue[u]: the mutation batches of user u
  acked,         \* acked[u]: highestAcknowledgedBatchID
  cache,         \* remoteDocumentCache
  lastRemote,    \* lastRemoteSnapshotVersion
  resume,        \* resume[d]: the version d's target is resumed from
  \* in memory
  user,          \* _currentUser
  nextBatchID,
  callbacks,     \* _mutationCompletionBlocks
  held,          \* heldBatchResults
  targets,       \* the documents listened to
  since,         \* since[d]: the backend's version when d was listened to
  pipeline,      \* writePipeline
  stream,        \* the write stream: closed, starting, open or ready
  \* the network and the backend
  requests,      \* sent on this stream and not yet taken
  responses,     \* answered on this stream and not yet delivered
  history,       \* history[v]: the documents at version v, and the write of v
  \* history variables
  outcome,       \* outcome[w]: the w-th write's user and how it was settled
  settled,       \* the settled writes, in order
  calls,         \* the completions called, in order
  calm           \* no restart, change of user or foreign write so far

persisted == <<queue, acked, cache, lastRemote, resume>>
memory == <<user, nextBatchID, callbacks, held, targets, since>>
remote == <<pipeline, stream, requests, responses>>
ghosts == <<outcome, settled, calls, calm>>
vars == <<budget, persisted, memory, remote, history, ghosts>>

kFSTBatchIDUnknown == -1
Unknown == [kind |-> "unknown", f |-> 0, g |-> 0, version |-> 0]
Deleted(v) == [kind |-> "deleted", f |-> 0, g |-> 0, version |-> v]

--------------------------------------------------------------------------------
(* Mutations. A document has two fields, each with the number of the write    *)
(* that put it there: setData puts both, updateData only f.                   *)

(* Precondition::Exists(true) of updateData, none for setData and delete. *)
IsValidFor(m, doc) == m.kind = "update" => doc.kind = "doc"

(* The version of a cached document is that of the backend, or 0.             *)
ApplySet(doc, m) ==
  [kind |-> "doc", f |-> m.w, g |-> m.w,
   version |-> IF doc.kind = "doc" THEN doc.version ELSE 0]

ApplyPatch(doc, m) == [doc EXCEPT !.f = m.w]

ApplyDelete(doc, m) == Deleted(0)

ApplyMutation(doc, m) ==
  IF ~IsValidFor(m, doc) THEN doc
  ELSE CASE m.kind = "set"    -> ApplySet(doc, m)
         [] m.kind = "update" -> ApplyPatch(doc, m)
         [] m.kind = "delete" -> ApplyDelete(doc, m)

(* The queued batches for d, over its cached state: what a query of the app   *)
(* finds and its listeners show (latency compensation).                       *)
LocalDocument(d) ==
  LET batches == queue[user]
      shown[n \in 0..Len(batches)] ==
        IF n = 0 THEN cache[d]
        ELSE IF batches[n].doc = d THEN ApplyMutation(shown[n - 1], batches[n])
        ELSE shown[n - 1]
  IN  shown[Len(batches)]

--------------------------------------------------------------------------------
(* The mutation queue. *)

BatchIDs(q) == {q[i].id : i \in 1..Len(q)}

(* The elements of s at the positions in keep, in their order: SelectSeq, in  *)
(* terms that can be reasoned about (FirestoreClientProofs!KeptSuffix).       *)
Kept(s, keep) ==
  LET f[n \in 0..Len(s)] ==
        IF n = 0 THEN <<>>
        ELSE IF n \in keep THEN Append(f[n - 1], s[n]) ELSE f[n - 1]
  IN  f[Len(s)]

(* All queues are searched for the highest id in use. *)
LoadNextBatchID(qs) ==
  Max({kFSTBatchIDUnknown} \cup UNION {BatchIDs(qs[u]) : u \in Users}) + 1

After(q, id) == Kept(q, {i \in 1..Len(q) : q[i].id > id})

(* removeMutationBatches: the batches are deleted by their ids. *)
Without(q, ids) == Kept(q, {i \in 1..Len(q) : q[i].id \notin ids})

\* Wrong variant: never reset.
StaleAcknowledged(u, next) == acked[u]

(* start: an id of an earlier life of the queue is forgotten. *)
HighestAcknowledged(u, next) ==
  IF acked[u] >= next THEN kFSTBatchIDUnknown ELSE acked[u]

\* Wrong variant: what was acknowledged stays in the queue.
StartWithHeld(u) ==
  LET next == LoadNextBatchID(queue)
  IN /\ nextBatchID' = next
     /\ acked' = [acked EXCEPT ![u] = HighestAcknowledged(u, next)]
     /\ held' = <<>>
     /\ UNCHANGED queue

(* What was acknowledged is dropped: its results were held in memory.         *)
StartMutationQueue(u) ==
  LET next == LoadNextBatchID(queue)
      last == HighestAcknowledged(u, next)
  IN /\ nextBatchID' = next
     /\ acked' = [acked EXCEPT ![u] = last]
     /\ held' = <<>>
     /\ queue' = [queue EXCEPT ![u] = After(@, last)]

AddMutationBatch(b) ==
  /\ queue' = [queue EXCEPT ![user] = Append(@, b)]
  /\ nextBatchID' = nextBatchID + 1

--------------------------------------------------------------------------------
(* The local store: results of acknowledged writes are held until the watch   *)
(* stream has caught up with them.                                            *)

\* Wrong variant: applied to a document that is newer already.
ApplyAnyResult(docs, r) ==
  [docs EXCEPT ![r.batch.doc] = ApplyMutation(@, r.batch)]

ApplyBatchResult(docs, r) ==
  LET doc == docs[r.batch.doc]
  IN IF doc.kind = "unknown" \/ doc.version < r.version
     THEN [docs EXCEPT ![r.batch.doc] = ApplyMutation(doc, r.batch)]
     ELSE docs

IsRemoteUpTo(r, version, listening) == r.version <= version \/ listening = {}

(* The results are applied to the documents docs, one after the other, and    *)
(* their batches leave the queue.                                             *)
WithResults(docs, results) ==
  LET after[n \in 0..Len(results)] ==
        IF n = 0 THEN docs ELSE ApplyBatchResult(after[n - 1], results[n])
  IN  after[Len(results)]

ReleaseBatchResults(results, docs) ==
  LET ids == {results[i].batch.id : i \in 1..Len(results)}
  IN /\ cache' = WithResults(docs, results)
     /\ queue' = [queue EXCEPT ![user] = Without(@, ids)]

(* The held results up to the first that is ahead of the watch stream.        *)
ReleaseHeldBatchResults(docs, version, listening) ==
  LET upTo(k) == \A i \in 1..k : IsRemoteUpTo(held[i], version, listening)
      n == Max({k \in 0..Len(held) : upTo(k)})
  IN /\ held' = SubSeq(held, n + 1, Len(held))
     /\ ReleaseBatchResults(SubSeq(held, 1, n), docs)

--------------------------------------------------------------------------------
(* The remote store. *)

(* canAddToWritePipeline *)
Room(p) == MaxPendingWrites - Len(p)

(* What the user's queue has for the pipeline after p and after what is       *)
(* acknowledged (held results are still in the queue).                        *)
\* Wrong variant: after p only.
AnyUnsent(p) == After(queue'[user'], Max({kFSTBatchIDUnknown} \cup BatchIDs(p)))

Unsent(p) ==
  After(queue'[user'], Max({kFSTBatchIDUnknown, acked'[user']} \cup BatchIDs(p)))

\* Wrong variant: for what is added only, not for what is left.
StartForAdded(s, p, added) == s = "closed" /\ added # <<>>

ShouldStartWriteStream(s, p, added) == s = "closed" /\ p \o added # <<>>

\* Wrong variant: as soon as the stream is open.
IsOpen(s) == s \in {"open", "ready"}

HandshakeComplete(s) == s = "ready"

(* Pipeline p is filled from the queue up to its limit, the stream, now in    *)
(* state s, is started if there is anything to send, what is added is sent if *)
(* the handshake is complete. r: the requests sent before.                    *)
FillWritePipeline(p, s, r) ==
  LET added == SubSeq(Unsent(p), 1, Min({Len(Unsent(p)), Room(p)}))
  IN /\ pipeline' = p \o added
     /\ stream' = IF ShouldStartWriteStream(s, p, added) THEN "starting" ELSE s
     /\ requests' = IF HandshakeComplete(s) THEN r \o added ELSE r

Spend(what) ==
  /\ budget[what] > 0
  /\ budget' = [budget EXCEPT ![what] = @ - 1]

AddMutationCompletionBlock(b) ==
  callbacks' = [callbacks EXCEPT ![user] = @ \cup {[id |-> b.id, w |-> b.w]}]

(* writeMutations: setData, updateData and delete, with a completion. Whether *)
(* the rules allow the write is an input.                                     *)
Write(kind, d, allowed) ==
  LET b == [id |-> nextBatchID, w |-> Len(outcome) + 1, doc |-> d, kind |-> kind,
            allowed |-> allowed]
  IN /\ IF allowed THEN Spend("write")
        ELSE /\ budget["write"] > 0 /\ budget["refused"] > 0
             /\ budget' = [budget EXCEPT !["write"] = @ - 1, !["refused"] = @ - 1]
     /\ AddMutationBatch(b)
     /\ AddMutationCompletionBlock(b)
     /\ outcome' = Append(outcome, [user |-> user, kind |-> kind, doc |-> d,
                                    result |-> "pending"])
     /\ UNCHANGED <<acked, user>>
     /\ FillWritePipeline(pipeline, stream, requests)
     /\ UNCHANGED <<cache, lastRemote, resume, held, targets, since, responses,
                    history, settled, calls, calm>>

(* resumeStartWithToken, writeStreamDidOpen: the stream is open, the          *)
(* handshake is sent.                                                         *)
StreamOpens ==
  /\ stream = "starting"
  /\ stream' = "open"
  /\ UNCHANGED <<budget, persisted, memory, pipeline, requests, responses, history,
                 ghosts>>

(* writeStreamDidCompleteHandshake: the pipeline is sent, also what was sent  *)
(* on an earlier stream (the stream token is not used to resume).             *)
HandshakeCompletes ==
  /\ stream = "open"
  /\ stream' = "ready"
  /\ requests' = pipeline
  /\ UNCHANGED <<budget, persisted, memory, pipeline, responses, history, ghosts>>

(* The result of the user's batch b: its completion is called and forgotten.  *)
ProcessUserCallbacks(b, ok) ==
  LET mine == {c \in callbacks[user] : c.id = b.id}
  IN /\ callbacks' = [callbacks EXCEPT ![user] = @ \ mine]
     /\ calls' = calls \o SetToSeq({[w |-> c.w, ok |-> ok] : c \in mine})
     /\ outcome' = [outcome EXCEPT ![b.w].result = IF ok THEN "ok" ELSE "failed"]
     /\ settled' = Append(settled, [user |-> user, w |-> b.w, ok |-> ok])

\* Wrong variant: never held.
AcknowledgeAtOnce(result) ==
  /\ acked' = [acked EXCEPT ![user] = result.batch.id]
  /\ ReleaseBatchResults(<<result>>, cache)
  /\ UNCHANGED held

(* acknowledgeBatchWithResult: held while earlier results are, or until the   *)
(* watch stream has caught up.                                                *)
AcknowledgeBatch(result) ==
  /\ acked' = [acked EXCEPT ![user] = result.batch.id]
  /\ IF held # <<>> \/ ~IsRemoteUpTo(result, lastRemote, targets)
     THEN held' = Append(held, result) /\ UNCHANGED <<cache, queue>>
     ELSE held' = held /\ ReleaseBatchResults(<<result>>, cache)

(* writeStreamDidReceiveResponse: a response is to the first write of the     *)
(* pipeline.                                                                  *)
WriteResponse ==
  /\ responses # <<>> /\ Head(responses).ok
  /\ LET b == Head(pipeline)
     IN /\ ProcessUserCallbacks(b, TRUE)
        /\ AcknowledgeBatch([batch |-> b, version |-> Head(responses).version])
  /\ UNCHANGED user
  /\ FillWritePipeline(Tail(pipeline), stream, requests)
  /\ responses' = Tail(responses)
  /\ UNCHANGED <<budget, lastRemote, resume, nextBatchID, targets, since, history,
                 calm>>

RejectBatch(b) ==
  queue' = [queue EXCEPT ![user] = Without(@, {b.id})]

(* writeStreamWasInterrupted with a permanent error: the stream is closed, the *)
(* first write of the pipeline is rejected, the rest is sent on a new stream. *)
WriteError ==
  /\ responses # <<>> /\ ~Head(responses).ok
  /\ LET b == Head(pipeline)
     IN RejectBatch(b) /\ ProcessUserCallbacks(b, FALSE)
  /\ UNCHANGED <<acked, user>>
  /\ FillWritePipeline(Tail(pipeline), "closed", <<>>)
  /\ responses' = <<>>
  /\ UNCHANGED <<budget, cache, lastRemote, resume, nextBatchID, held, targets, since,
                 history, calm>>

(* writeStreamWasInterrupted with another error, before or after the          *)
(* handshake: the pipeline is kept, the stream is started again. What the     *)
(* backend has not taken of this stream by now it never takes: a request of a *)
(* stream that was given up does not come after those of the next one.        *)
StreamBreaks ==
  /\ stream \in {"open", "ready"}
  /\ Spend("break")
  /\ stream' = IF pipeline = <<>> THEN "closed" ELSE "starting"
  /\ requests' = <<>> /\ responses' = <<>>
  /\ UNCHANGED <<persisted, memory, pipeline, history, ghosts>>

(* handleIdleCloseTimer: the timer runs while the pipeline is empty. *)
IdleCloses ==
  /\ stream = "ready" /\ pipeline = <<>>
  /\ stream' = "closed"
  /\ UNCHANGED <<budget, persisted, memory, pipeline, requests, responses, history,
                 ghosts>>

--------------------------------------------------------------------------------
(* Listeners. *)

Version == Len(history)

(* listenToQuery, with the query's persisted resume token. *)
Listen(d) ==
  /\ d \notin targets
  /\ Spend("listen")
  /\ targets' = targets \cup {d}
  /\ since' = [since EXCEPT ![d] = Version]
  /\ UNCHANGED <<persisted, user, nextBatchID, callbacks, held, remote, history, ghosts>>

\* Wrong variant: what is held waits for a snapshot.
StopOnly(d) ==
  /\ d \in targets
  /\ targets' = targets \ {d}
  /\ UNCHANGED <<budget, persisted, user, nextBatchID, callbacks, held, since, remote,
                 history, ghosts>>

(* stopListeningToQuery: without targets no snapshot comes, so what is held   *)
(* is released with the last one.                                             *)
StopListening(d) ==
  /\ d \in targets
  /\ targets' = targets \ {d}
  /\ IF targets' = {} THEN ReleaseHeldBatchResults(cache, lastRemote, {})
     ELSE UNCHANGED <<held, cache, queue>>
  /\ UNCHANGED <<budget, acked, lastRemote, resume, user, nextBatchID, callbacks, since,
                 remote, history, ghosts>>

(* applyRemoteEvent: a consistent snapshot of the targets at version v. It    *)
(* has the documents changed since the target's resume token; one that left   *)
(* the target is not applied over a newer one. The backend answers a listen   *)
(* with a snapshot at least as new as the listen.                             *)
WatchSnapshot(v) ==
  LET docs == history[v].docs
      current == {d \in targets : v >= since[d]}
      changed == {d \in current : docs[d].version > resume[d]}
      applies(d) == \/ docs[d].kind = "doc"
                    \/ cache[d].kind = "unknown"
                    \/ docs[d].version >= cache[d].version
  IN /\ targets # {} /\ v >= lastRemote
     /\ lastRemote' = v
     /\ resume' = [d \in Docs |-> IF d \in current THEN v ELSE resume[d]]
     /\ ReleaseHeldBatchResults(
          [d \in Docs |-> IF d \in changed /\ applies(d) THEN docs[d] ELSE cache[d]],
          v, targets)
     /\ UNCHANGED <<budget, acked, user, nextBatchID, callbacks, targets, since, remote,
                    history, ghosts>>

--------------------------------------------------------------------------------
(* The device. *)

(* credentialDidChangeWithUser: the user's queue takes the place of the other *)
(* user's, and in any case the streams are made anew.                         *)
CredentialDidChange(u) ==
  /\ Spend("user")
  /\ calm' = FALSE
  /\ user' = u
  /\ IF u # user THEN StartMutationQueue(u)
     ELSE UNCHANGED <<nextBatchID, acked, held, queue>>
  /\ FillWritePipeline(<<>>, "closed", <<>>)
  /\ responses' = <<>>
  /\ UNCHANGED <<cache, lastRemote, resume, callbacks, targets, since, history, outcome,
                 settled, calls>>

(* The app is killed and started again (initializeWithUser). *)
Restart ==
  /\ Spend("restart")
  /\ calm' = FALSE
  /\ StartMutationQueue(user)
  /\ callbacks' = [u \in Users |-> {}]
  /\ targets' = {}
  /\ UNCHANGED user
  /\ FillWritePipeline(<<>>, "closed", <<>>)
  /\ responses' = <<>>
  /\ UNCHANGED <<cache, lastRemote, resume, since, history, outcome, settled, calls>>

--------------------------------------------------------------------------------
(* The backend: writes of a stream are taken in order, each a new version.    *)

Db == history[Version].docs

Commit(m) ==
  history' = Append(history,
    [w |-> m.w,
     docs |-> [Db EXCEPT ![m.doc] = [ApplyMutation(@, m) EXCEPT !.version = Version + 1]]])

Accepts(m) == m.allowed /\ IsValidFor(m, Db[m.doc])

ServerTakes ==
  /\ requests # <<>> /\ Accepts(Head(requests))
  /\ \A i \in 1..Len(responses) : responses[i].ok
  /\ Commit(Head(requests))
  /\ responses' = Append(responses, [w |-> Head(requests).w, ok |-> TRUE,
                                     version |-> Version + 1])
  /\ requests' = Tail(requests)
  /\ UNCHANGED <<budget, persisted, memory, pipeline, stream, ghosts>>

(* A write that is not accepted ends the stream, after what was answered. *)
ServerRefuses ==
  /\ requests # <<>> /\ ~Accepts(Head(requests))
  /\ \A i \in 1..Len(responses) : responses[i].ok
  /\ responses' = Append(responses, [w |-> Head(requests).w, ok |-> FALSE, version |-> 0])
  /\ UNCHANGED <<budget, persisted, memory, pipeline, stream, requests, history, ghosts>>

(* Another device writes. *)
OtherWrites(kind, d) ==
  /\ Spend("other")
  /\ calm' = FALSE
  /\ Commit([w |-> 0, kind |-> kind, doc |-> d])
  /\ UNCHANGED <<persisted, memory, remote, outcome, settled, calls>>

--------------------------------------------------------------------------------
Init ==
  /\ budget \in Budgets
  /\ queue = [u \in Users |-> <<>>]
  /\ acked = [u \in Users |-> kFSTBatchIDUnknown]
  /\ cache = [d \in Docs |-> Unknown]
  /\ lastRemote = 0
  /\ resume = [d \in Docs |-> 0]
  /\ user = FirstUser
  /\ nextBatchID = 0
  /\ callbacks = [u \in Users |-> {}]
  /\ held = <<>>
  /\ targets = {}
  /\ since = [d \in Docs |-> 0]
  /\ pipeline = <<>> /\ stream = "closed"
  /\ requests = <<>> /\ responses = <<>>
  /\ \E there \in SUBSET budget.docs :
       history = <<[w |-> 0, docs |->
         [d \in Docs |-> IF d \in there THEN [kind |-> "doc", f |-> 0, g |-> 0, version |-> 1]
                         ELSE Deleted(1)]]>>
  /\ outcome = <<>> /\ settled = <<>> /\ calls = <<>> /\ calm = TRUE

App ==
  \E d \in budget.docs :
    \/ \E kind \in {"set", "update", "delete"}, allowed \in BOOLEAN : Write(kind, d, allowed)
    \/ Listen(d)
    \/ StopListening(d)

Client ==
  \/ StreamOpens
  \/ HandshakeCompletes
  \/ WriteResponse
  \/ WriteError
  \/ IdleCloses

Backend ==
  \/ ServerTakes
  \/ ServerRefuses
  \/ \E v \in 1..Version : WatchSnapshot(v)
  \/ \E kind \in {"set", "delete"}, d \in budget.docs : OtherWrites(kind, d)

Next ==
  \/ App
  \/ Client
  \/ Backend
  \/ StreamBreaks
  \/ \E u \in Users : CredentialDidChange(u)
  \/ Restart

(* The client's steps and the backend's answers are not put off for ever, a   *)
(* listener hears of the latest version in the end; connections break finitely *)
(* often. Nothing obliges the app, other devices or the user.                 *)
Fairness ==
  /\ WF_vars(StreamOpens)
  /\ WF_vars(HandshakeCompletes)
  /\ WF_vars(WriteResponse \/ WriteError)
  /\ WF_vars(ServerTakes \/ ServerRefuses)
  /\ WF_vars(WatchSnapshot(Version))

Spec == Init /\ [][Next]_vars /\ Fairness

--------------------------------------------------------------------------------
(* Properties. *)

Ws(seq) == [i \in 1..Len(seq) |-> seq[i].w]

Unacknowledged(u) == After(queue[u], acked[u])

(* A response says nothing of its write: it is taken for that of the first of *)
(* the pipeline. So what was answered and what is on its way must be the      *)
(* pipeline's own order, and the pipeline the first of the unacknowledged.    *)
ResponsesMatchPipeline ==
  /\ IsPrefix(pipeline, Unacknowledged(user))
  /\ \/ IsPrefix(Ws(responses), Ws(pipeline)) /\ \E i \in 1..Len(responses) : ~responses[i].ok
     \/ stream # "ready"
     \/ Ws(responses) \o Ws(requests) = Ws(pipeline)

(* The client's own assertions, a failure of which ends the app. An id may    *)
(* only be given again by an empty queue (FSTLevelDBMutationQueue.mm 133),    *)
(* and what is held, acknowledged and rejected are the queue's first batches  *)
(* in their order (535, 228; FSTLocalStore.mm 223, 226). Several lives of     *)
(* several queues share the ids.                                              *)
AssertionsHold ==
  /\ \A u \in Users : acked[u] >= LoadNextBatchID(queue) => queue[u] = <<>>
  /\ queue[user] = [i \in 1..Len(held) |-> held[i].batch] \o Unacknowledged(user)

Applied == {history[v].w : v \in 1..Version}

(* Whatever the ids, connections, users and restarts: a write leaves the      *)
(* queue only when the backend took it or refused it, and the app is told     *)
(* the truth, at most once, in the order of its writes.                       *)
NoWriteLost ==
  /\ \A w \in 1..Len(outcome) :
       CASE outcome[w].result = "pending" ->
              \E i \in 1..Len(Unacknowledged(outcome[w].user)) :
                 Unacknowledged(outcome[w].user)[i].w = w
         [] outcome[w].result = "ok" -> w \in Applied
         [] OTHER -> w \notin Applied \/ outcome[w].kind = "update"
  /\ \A i \in 1..Len(calls) : calls[i].ok <=> outcome[calls[i].w].result = "ok"
  /\ \A i, j \in 1..Len(calls) :
       i < j /\ outcome[calls[i].w].user = outcome[calls[j].w].user => calls[i].w < calls[j].w

(* The writes to d that were not refused, in order, from the last that does   *)
(* not build on an earlier state.                                             *)
OwnWrites(d) ==
  LET mine == {w \in 1..Len(outcome) : outcome[w].doc = d /\ outcome[w].result # "failed"}
      whole == {w \in mine : outcome[w].kind # "update"}
  IN {w \in mine : \A x \in whole : x <= w}

(* Latency compensation: while nobody else interferes, the device shows its   *)
(* own writes, all of them and nothing older, whether they wait, are on their *)
(* way, are acknowledged before the listener hears of them or were sent twice. *)
OwnWritesShown ==
  calm => \A d \in Docs :
    LET mine == OwnWrites(d)
        w == Min(mine)
    IN mine # {} =>
         CASE outcome[w].kind = "delete" -> LocalDocument(d).kind = "deleted"
           [] outcome[w].kind = "set" -> /\ LocalDocument(d).kind = "doc"
                                         /\ LocalDocument(d).g = w
                                         /\ LocalDocument(d).f = Max(mine)
           [] OTHER -> LocalDocument(d).kind = "doc" => LocalDocument(d).f = Max(mine)

(* Once all is settled and the listener of d has heard of the latest version, *)
(* the device shows what the backend has.                                     *)
SettledMeansEqual ==
  \A d \in targets :
    Unacknowledged(user) = <<>> /\ lastRemote = Version /\ resume[d] = Version
      => [LocalDocument(d) EXCEPT !.version = 0] = [Db[d] EXCEPT !.version = 0]

(* What the backend answered and the client has not heard.                    *)
Refused == \E i \in 1..Len(responses) : ~responses[i].ok

Taken == IF Refused THEN Len(responses) - 1 ELSE Len(responses)

(* What the client is for: the abstract queue of writes.                      *)
Queue == INSTANCE WriteQueue WITH
  Writes <- 1..Max({b["write"] : b \in Budgets}),
  pending <- [u \in Users |-> Ws(Unacknowledged(u))],
  taken <- [u \in Users |-> IF u = user THEN Taken ELSE 0],
  refused <- [u \in Users |-> u = user /\ Refused],
  log <- Ws(Kept(history, {v \in 1..Version : history[v].w # 0}))

(* The pipeline, the ids, the held results and the queues of the users do     *)
(* what the abstract queue does, step for step.                               *)
QueueSpec == Queue!Spec

(* The writes of the user who is signed in are all settled in the end, after  *)
(* every lost connection, refusal, change of user and restart: the pipeline   *)
(* is filled again and the stream started whenever there is something to send. *)
(* No result is held for ever either: the listeners catch up with it, or the  *)
(* last of them goes and takes along what it was held for.                    *)
EverythingSettles == []<>(Unacknowledged(user) = <<>>) /\ []<>(held = <<>>)
================================================================================
