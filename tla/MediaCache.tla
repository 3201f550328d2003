------------------------------ MODULE MediaCache ------------------------------
(***************************************************************************)
(* Pictures, videos and recordings (Downloader.swift, IncomingMessages.    *)
(* swift): the sender uploads a file named by his clock, and a device that *)
(* displays the message downloads it once and then finds it by the last    *)
(* part of that name, among the files of all senders and rooms.            *)
(***************************************************************************)
EXTENDS Integers, FiniteSets

CONSTANTS Senders,      \* who sends, one room each
          MediaKinds,   \* a subset of {"picture", "video", "audio"}
          Dates,        \* what dateFormatter writes: local time to the second
          MaxMedia,     \* bound: media sent
          MaxDisplays   \* bound: how often each message is displayed

ASSUME MediaAssumption ==
    /\ MediaKinds \subseteq {"picture", "video", "audio"}
    /\ MaxMedia \in Nat /\ MaxDisplays \in Nat

VARIABLES
    uploads,     \* media under way to the storage
    stored,      \* media there
    sent,        \* those of them whose message was sent
    files,       \* file name -> the medium in the documents directory
    tasks,       \* downloads: message, display, and what is fetched if it is
    displays,    \* message -> how often its item was created
    shown        \* message -> what its item on the open screen has

mediaVars == <<uploads, stored, sent, files, tasks, displays, shown>>

Media == [n : 1..MaxMedia, sender : Senders, kind : MediaKinds, date : Dates]

Nothing == [nothing |-> TRUE]
File(name) == [file |-> name]      \* an item that plays a file

\* Wrong variant: the extension alone.
KindOnly(m) == <<m.kind>>

\* The url's part after the last "%": sender and room are cut off.
FileName(m) == <<m.kind, m.date>>

\* uploadImage, uploadVideo, uploadAudio.  The progress view of a sender's
\* upload is over his screen, so his media go there one at a time.
StartUploading(m) ==
    /\ Cardinality(uploads \cup stored) < MaxMedia
    /\ m.n = Cardinality(uploads \cup stored) + 1
    /\ \A x \in uploads : x.sender # m.sender
    /\ uploads' = uploads \cup {m}
    /\ UNCHANGED <<stored, sent, files, tasks, displays, shown>>

\* putData's completion hides the progress view and asks for the link.  The path
\* ends in the date: a second file of the same sender, kind and date takes the
\* place of the first.
FinishUploading(m) ==
    /\ m \in uploads
    /\ uploads' = uploads \ {m}
    /\ stored' = stored \cup {m}
    /\ UNCHANGED <<sent, files, tasks, displays, shown>>

\* downloadURL's completion: the link is known and the message is sent, maybe
\* after that of a later upload.
SendLink(m) ==
    /\ m \in stored \ sent
    /\ sent' = sent \cup {m}
    /\ UNCHANGED <<uploads, stored, files, tasks, displays, shown>>

Twins(m) == {x \in stored : x.kind = m.kind /\ x.date = m.date}

AtUrl(m) ==
    LET same == {x \in Twins(m) : x.sender = m.sender}
    IN  CHOOSE x \in same : \A y \in same : y.n <= x.n

\* What the item gets: a picture itself, a video the name of its file, a
\* recording what is in the file.
Shows(m, picture) ==
    CASE m.kind = "picture" -> picture
      [] m.kind = "video"   -> File(FileName(m))
      [] m.kind = "audio"   -> files[FileName(m)]

\* createPictureMessage and its like: the file is there, or a queue of the
\* message's own starts to fetch it.
ShowMedia(m) ==
    /\ m \in sent /\ displays[m.n] < MaxDisplays
    /\ displays' = [displays EXCEPT ![m.n] = @ + 1]
    /\ IF FileName(m) \in DOMAIN files
       THEN /\ shown' = [shown EXCEPT ![m.n] = Shows(m, files[FileName(m)])]
            /\ UNCHANGED tasks
       ELSE /\ shown' = [shown EXCEPT ![m.n] = Nothing]
            /\ tasks' = tasks \cup {[message |-> m, display |-> displays'[m.n], data |-> Nothing]}
    /\ UNCHANGED <<uploads, stored, sent, files>>

\* NSData(contentsOf:) and data.write, not on the main queue: another download
\* under the same name may have written before, and is overwritten.
Fetched(t) ==
    /\ t \in tasks /\ t.data = Nothing
    /\ LET data == AtUrl(t.message) IN
       /\ tasks' = (tasks \ {t}) \cup {[t EXCEPT !.data = data]}
       /\ files' = [f \in DOMAIN files \cup {FileName(t.message)} |->
                        IF f = FileName(t.message) THEN data ELSE files[f]]
    /\ UNCHANGED <<uploads, stored, sent, displays, shown>>

\* No data: the item stays empty.
NotFetched(t) ==
    /\ t \in tasks /\ t.data = Nothing
    /\ tasks' = tasks \ {t}
    /\ UNCHANGED <<uploads, stored, sent, files, displays, shown>>

\* The completion on the main queue, for the item it was started for.
DownloadDone(t) ==
    /\ t \in tasks /\ t.data # Nothing
    /\ tasks' = tasks \ {t}
    /\ shown' = IF t.display = displays[t.message.n]
                THEN [shown EXCEPT ![t.message.n] = Shows(t.message, t.data)]
                ELSE shown
    /\ UNCHANGED <<uploads, stored, sent, files, displays>>

MediaInit ==
    /\ uploads = {} /\ stored = {} /\ sent = {} /\ tasks = {}
    /\ files = [f \in {} |-> Nothing]
    /\ displays = [n \in 1..MaxMedia |-> 0]
    /\ shown = [n \in 1..MaxMedia |-> Nothing]

MediaNext ==
    \/ \E m \in Media : StartUploading(m)
    \/ \E m \in uploads : FinishUploading(m)
    \/ \E m \in stored : SendLink(m) \/ ShowMedia(m)
    \/ \E t \in tasks : Fetched(t) \/ NotFetched(t) \/ DownloadDone(t)

MediaSpec == MediaInit /\ [][MediaNext]_mediaVars

----------------------------------------------------------------------------
\* What the reader sees or hears in a message is what was sent with it, in
\* whatever order downloads of several messages, their files and reopened
\* screens come - unless another medium of the same kind has the same date: the
\* sender and the room are not in a file's name, and of two recordings of one
\* second by two senders both messages may play the same.
Perceived(m) ==
    LET item == shown[m.n] IN
    IF item = File(FileName(m)) THEN files[FileName(m)] ELSE item

ShownIsSent == \A m \in sent : Twins(m) = {m} => Perceived(m) \in {Nothing, m}
=============================================================================
