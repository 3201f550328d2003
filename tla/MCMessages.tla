----------------------------- MODULE MCMessages -----------------------------
(* Instances of Messages for TLC.  The initial load asks for 2 messages and *)
(* shows 1, where the code asks for 11 and shows 10.                        *)
EXTENDS Messages, TLC

CONSTANTS a, b

\* Two users with one clock, one screen each and no faults.
Plain == [zone |-> [u \in {a, b} |-> 0], push |-> {{a, b}}, messages |-> 2,
          screens |-> 1, time |-> 2, lost |-> 0, faults |-> {},
          does |-> [u \in {a, b} |-> {}]]

Does(ofA, ofB) == (a :> ofA) @@ (b :> ofB)

\* a, whose clock is an hour ahead, writes; b reads and deletes.
WriterAndReader ==
    [Plain EXCEPT !.zone = (a :> 1) @@ (b :> 0),
                  !.does = Does({"open", "text"}, {"open", "delete"})]

\* One message that both may delete, one clock and an answer lost.
AnswerLost ==
    [Plain EXCEPT !.messages = 1, !.time = 1, !.lost = 1, !.faults = {"answer"},
                  !.does = Does({"open", "text", "delete"}, {"open", "delete"})]

\* The reader opens the chat twice, one over the other, and deletes.
AnswerLostToTwo ==
    [AnswerLost EXCEPT !.screens = 2, !.push = {{}},
                       !.does = Does({"open", "text"}, {"open", "delete", "cover"})]

\* One scrolls back, leaves and returns.
OneScrolls ==
    [Plain EXCEPT !.messages = 3, !.screens = 2,
                  !.does = Does({}, {"open", "text", "location", "more", "delete", "leave"})]

\* A picture is sent to a reader who leaves, a sender who muted the chat, and
\* one fault of any kind.
ReaderLeaves ==
    [Plain EXCEPT !.push = {{a, b}, {b}}, !.messages = 1, !.screens = 2, !.time = 1,
                  !.lost = 1, !.faults = Faults,
                  !.does = Does({"open", "media"}, {"open", "leave"})]

\* A text is sent to a reader who looks at something else meanwhile.
ReaderLooksAway ==
    [ReaderLeaves EXCEPT !.faults = {"query", "receipt", "answer"}, !.screens = 1,
                         !.does = Does({"open", "text"}, {"open", "cover", "leave"})]

\* One opens the chat a second time, over the first.
OneStacks ==
    [Plain EXCEPT !.messages = 2, !.screens = 2,
                  !.does = Does({}, {"open", "text", "more", "delete", "leave", "cover"})]

WriterToReader == [Plain EXCEPT !.does = Does({"open", "text"}, {"open"})]

SafetyScenarios == {WriterAndReader, AnswerLost, AnswerLostToTwo, OneScrolls, OneStacks,
                    ReaderLeaves, ReaderLooksAway}
LiveScenarios == {WriterToReader}
StatusScenarios == {[WriterAndReader EXCEPT !.messages = 1, !.time = 1]}
=============================================================================
