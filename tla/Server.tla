------------------------------- MODULE Server -------------------------------
(***************************************************************************)
(* The message loop (server/Server.cpp over transport/JsonRpcStream.cpp).  *)
(* The client's messages are a script, read one by one; what a handler     *)
(* does to the Workspace is abstracted to the diagnostics it queues there. *)
(* Nothing between run and main catches an exception, so one that is       *)
(* thrown outside dispatch's two try blocks ends the process.              *)
(* Everything the server writes is tagged with the number of the message   *)
(* that caused it, which also stands for a request's id.                   *)
(***************************************************************************)
EXTENDS Naturals, Sequences, FiniteSets, FiniteSetsExt, SequencesExt

CONSTANTS Scripts,    \* the scripts considered
          Malformed,  \* a body that is empty or no JSON
          Deadly      \* a Content-Length that is no number or too large, a JSON body
                      \* that is no object, or whose method is no string

Requests == {"initialize", "shutdown", "feature"}
Method == Requests \cup {"sync", "exit", "unknown"}
\* Diagnostics to queue: of each, whether all its text is UTF-8.  The lexer puts
\* single bytes of a character into its messages.
Queue == UNION {[1 .. n -> BOOLEAN] : n \in 0 .. 2}

\* `queues`: diagnostics the handler queues.  `ends`: it returns, it throws, or it
\* asks parameters for a member they lack, which nlohmann's json asserts not to
\* happen.  A request throws only before it touches the workspace (onInitialize
\* reads its parameters first, the others change nothing there).  `utf8`: whether
\* all text of the result is UTF-8, as that of a file on the disk need not be.
Message ==
    {m \in [method : Method, hasId : BOOLEAN, queues : Queue,
            ends : {"returns", "throws", "asserts"}, utf8 : BOOLEAN] :
        /\ m.queues # <<>> =>
              m.method = (IF m.hasId THEN "initialize" ELSE "sync") /\ m.ends # "asserts"
        /\ m.hasId /\ m.ends = "throws" => m.queues = <<>> /\ m.method \in {"initialize", "feature"}
        /\ ~m.hasId /\ m.ends = "throws" => m.method = "sync"
        /\ m.ends = "asserts" => m.method = IF m.hasId THEN "feature" ELSE "sync"
        /\ ~m.utf8 => m.method = "feature" /\ m.hasId /\ m.ends = "returns"}

ASSUME ScriptsAssumption == Scripts \subseteq Seq(Message \cup {Malformed, Deadly})
ASSUME BodiesAssumption == Malformed \notin Message /\ Deadly \notin Message

VARIABLES script, next,     \* the client's messages, and the one read next
          pc,               \* where run and dispatch are
          m_initialized, m_shutdown,
          m_pending,        \* Workspace::m_pending: [of : message, utf8]
          out,              \* what has been written: [of : message, what]
          code              \* what run returned

vars == <<script, next, pc, m_initialized, m_shutdown, m_pending, out, code>>

-----------------------------------------------------------------------------

Init ==
    /\ script \in Scripts
    /\ next = 1 /\ pc = "read"
    /\ m_initialized = FALSE /\ m_shutdown = FALSE
    /\ m_pending = <<>> /\ out = <<>> /\ code = 2

\* The message being dispatched.
At == next - 1
Msg == script[At]

Write(what) == out' = Append(out, [of |-> At, what |-> what])

\* readMessage returns a message, or nothing at the end of the stream and for
\* a body it cannot parse.
IsMessage(i) == script[i] \notin {Malformed, Deadly}
Some == next <= Len(script) /\ IsMessage(next)
None == next <= Len(script) => script[next] = Malformed

Read ==
    /\ pc = "read" /\ ~m_shutdown /\ Some
    /\ next' = next + 1 /\ pc' = "dispatch"
    /\ UNCHANGED <<script, m_initialized, m_shutdown, m_pending, out, code>>

\* readMessage throws, or dispatch does before its try blocks, or run's inner loop
\* does: the exception leaves main.  (main has no catch either.)
ReadThrows ==
    /\ pc = "read" /\ next <= Len(script) /\ script[next] = Deadly
    /\ next' = next + 1 /\ pc' = "dead"
    /\ UNCHANGED <<script, m_initialized, m_shutdown, m_pending, out, code>>

\* run returns when there is no message: 1 if it waits for exit.  (KeepsWaiting
\* reads on.)
NoneCode == IF m_shutdown THEN 1 ELSE 0
KeepsWaiting == IF m_shutdown THEN UNCHANGED <<pc, code>> ELSE pc' = "done" /\ code' = NoneCode
Stop == pc' = "done" /\ code' = NoneCode
EndOfStream ==
    /\ pc = "read" /\ None
    /\ Stop
    /\ UNCHANGED <<script, next, m_initialized, m_shutdown, m_pending, out>>

\* After a shutdown only exit is looked at.
AwaitExit ==
    /\ pc = "read" /\ m_shutdown /\ Some
    /\ next' = next + 1
    /\ IF script[next].method = "exit"
       THEN pc' = "done" /\ code' = 0
       ELSE UNCHANGED <<pc, code>>
    /\ UNCHANGED <<script, m_initialized, m_shutdown, m_pending, out>>

\* What a handler queued, one entry per publication.
Queued == m_pending \o [i \in DOMAIN Msg.queues |-> [of |-> At, utf8 |-> Msg.queues[i]]]

\* A notification that throws is logged, and flushed as well, for it may have
\* queued something before.  (LoggedOnly goes on with the next message, Uncaught
\* has no try block.)
Uncaught == IF Msg.ends = "throws" THEN "dead" ELSE "flush"
LoggedOnly == IF Msg.ends = "throws" THEN "read" ELSE "flush"
AfterNotification == "flush"
Notification ==
    /\ pc = "dispatch" /\ ~Msg.hasId /\ Msg.ends # "asserts"
    /\ m_pending' = Queued
    /\ IF Msg.ends = "throws" THEN Write("log") ELSE UNCHANGED out
    /\ pc' = AfterNotification
    /\ UNCHANGED <<script, next, m_initialized, m_shutdown, code>>

\* A request that no handler takes, or too early.  (NeverEarly does not
\* look.)
NeverEarly == FALSE
TooEarly == ~m_initialized /\ Msg.method # "initialize"
Rejected == Msg.method \notin Requests \/ TooEarly
Reject ==
    /\ pc = "dispatch" /\ Msg.hasId /\ Rejected
    /\ Write(IF Msg.method \notin Requests THEN "notFound" ELSE "notInitialized")
    /\ pc' = "read"
    /\ UNCHANGED <<script, next, m_initialized, m_shutdown, m_pending, code>>

\* The handler of a request.
Flags ==
    /\ m_initialized' = (m_initialized \/ Msg.method = "initialize")
    /\ m_shutdown' = (m_shutdown \/ Msg.method = "shutdown")

Fail ==
    /\ pc = "dispatch" /\ Msg.hasId /\ ~Rejected /\ Msg.ends = "throws"
    /\ Write("internalError")
    /\ pc' = "read"
    /\ Flags
    /\ UNCHANGED <<script, next, m_pending, code>>

Handle ==
    /\ pc = "dispatch" /\ Msg.hasId /\ ~Rejected /\ Msg.ends = "returns"
    /\ m_pending' = Queued
    /\ pc' = "respond"
    /\ Flags
    /\ UNCHANGED <<script, next, out, code>>

\* A handler reads a member that is not there: operator[] of a constant json object
\* asserts, which in the build that CMakeLists.txt asks for ends the process.  (In
\* others what follows is undefined, and not modelled.)
Abort ==
    /\ pc = "dispatch" /\ (Msg.hasId => ~Rejected) /\ Msg.ends = "asserts"
    /\ pc' = "dead"
    /\ UNCHANGED <<script, next, m_initialized, m_shutdown, m_pending, out, code>>

\* writeResponse is outside the try block, and its dump throws at a byte that is
\* not UTF-8.
Respond ==
    /\ pc = "respond"
    /\ IF Msg.utf8 THEN Write("result") /\ pc' = "flush" ELSE UNCHANGED out /\ pc' = "dead"
    /\ UNCHANGED <<script, next, m_initialized, m_shutdown, m_pending, code>>

\* flushDiagnostics: takePendingDiagnostics, then one notification for each, up to
\* the first whose dump throws.  (TakenTwice forgets to empty the queue.)
TakenTwice == m_pending
Taken == <<>>
Sendable(q) == {n \in 0 .. Len(q) : \A i \in 1 .. n : q[i].utf8}
Sent == Max(Sendable(m_pending))
Flush ==
    /\ pc = "flush"
    /\ out' = out \o [i \in 1 .. Sent |-> [of |-> m_pending[i].of, what |-> "publish"]]
    /\ m_pending' = Taken
    /\ pc' = IF Sent = Len(m_pending) THEN "read" ELSE "dead"
    /\ UNCHANGED <<script, next, m_initialized, m_shutdown, code>>

\* run has returned, or the process is no more.
Ended == pc \in {"done", "dead"} /\ UNCHANGED vars

Next ==
    \/ Read \/ ReadThrows \/ EndOfStream \/ AwaitExit
    \/ Notification \/ Reject \/ Fail \/ Handle \/ Abort \/ Respond \/ Flush \/ Ended

Spec == Init /\ [][Next]_vars

\* The loop runs whenever there is input, and the input ends.
FairSpec == Spec /\ WF_vars(Next)

-----------------------------------------------------------------------------
(* What the script asks for, by looking at it as a whole.                  *)

\* Message i is a request that is carried out.
Initializes(i) == IsMessage(i) /\ script[i].hasId /\ script[i].method = "initialize"
InTime(i) == Initializes(i) \/ \E j \in 1 .. i - 1 : Initializes(j)
Carried(i) == IsMessage(i) /\ script[i].hasId /\ script[i].method \in Requests /\ InTime(i)
\* The shutdowns that the server obeys; after one no message is dispatched.
Shutdowns(n) == {i \in 1 .. n : Carried(i) /\ script[i].method = "shutdown"}
Dispatched(i) == IsMessage(i) /\ Shutdowns(i - 1) = {}
\* A handler runs for it.
Runs(i) == Dispatched(i) /\ (Carried(i) \/ ~script[i].hasId)

Expected(i) ==
    IF ~Dispatched(i) \/ ~script[i].hasId THEN {}
    ELSE IF script[i].method \notin Requests THEN {"notFound"}
    ELSE IF ~InTime(i) THEN {"notInitialized"}
    ELSE IF script[i].ends = "throws" THEN {"internalError"}
    ELSE {"result"}

\* The diagnostics it makes the workspace queue.
Due(i) == IF Runs(i) THEN Len(script[i].queues) ELSE 0

\* The process does not survive it: before anything is written for it, or when
\* its first diagnostic that is not UTF-8 is to be sent.
Mute(i) == script[i] = Deadly \/ (Runs(i) /\ (script[i].ends = "asserts" \/ ~script[i].utf8))
Garbled(i) == IF Runs(i) THEN {k \in DOMAIN script[i].queues : ~script[i].queues[k]} ELSE {}
Kills(i) == Mute(i) \/ Garbled(i) # {}

Answers == {"notFound", "notInitialized", "internalError", "result"}
OutputsOf(i, whats) == {n \in DOMAIN out : out[n].of = i /\ out[n].what \in whats}
Answered(i) ==
    /\ Cardinality(OutputsOf(i, Answers)) = Cardinality(Expected(i))
    /\ \A n \in OutputsOf(i, Answers) : out[n].what \in Expected(i)
PublishedFor(i) == Cardinality(OutputsOf(i, {"publish"}))

\* The messages that the server is done with.
Past == IF pc \in {"read", "done"} THEN 1 .. At ELSE 1 .. At - 1

\* Shape of the state.
TypeOK ==
    /\ next \in 1 .. Len(script) + 1
    /\ pc \in {"read", "dispatch", "respond", "flush", "done", "dead"}
    /\ m_initialized \in BOOLEAN /\ m_shutdown \in BOOLEAN
    /\ m_pending \in Seq([of : 1 .. At, utf8 : BOOLEAN]) /\ Len(m_pending) <= 2
    /\ out \in Seq([of : 1 .. At, what : Answers \cup {"log", "publish"}])
    /\ code \in 0 .. 2

\* The process dies of the first message that it cannot survive, and of no other,
\* wherever in the script it stands.
DiesOf ==
    /\ \A i \in Past : ~Kills(i)
    /\ pc = "dead" => Kills(At)

\* "Requests (have an id, need a response)" (registerHandlers): each request that
\* the server is done with has one answer, the one its place in the script calls
\* for, and those after a shutdown have none.  If the process dies, so has the
\* request that kills it, unless it dies before the answer.
AnsweredOnce ==
    /\ \A i \in Past : Answered(i)
    /\ pc = "dead" => IF Mute(At) THEN OutputsOf(At, Answers) = {} ELSE Answered(At)

\* "Publish everything the workspace queued" (Server.h): the client has each
\* diagnostic of the messages that the server is done with, once, even those of a
\* handler that threw half-way.  If the process dies, those before the one it died
\* of, and no other message's are lost.
Published ==
    /\ \A i \in Past : PublishedFor(i) = Due(i)
    /\ pc = "dead" => PublishedFor(At) = IF Mute(At) THEN 0 ELSE Min(Garbled(At)) - 1

\* What is written follows the order of the messages, and an answer goes before
\* the diagnostics of its own request.
InOrder ==
    \A n \in 2 .. Len(out) :
        \/ out[n - 1].of < out[n].of
        \/ out[n - 1].of = out[n].of /\ out[n].what = "publish"

\* "Run the main request loop until shutdown+exit or EOF. Returns exit code."
\* (Server.h): the loop ends when its input does, with 1 exactly when the stream
\* ends between a shutdown and its exit, unless the process dies of a message
\* before.  `last` is the last message that it survives.
Survives(n) == \A i \in 1 .. n : IsMessage(i) /\ ~Kills(i)
Ending ==
    LET last == Max({n \in 0 .. Len(script) : Survives(n)})
        exits == {x \in 1 .. last : script[x].method = "exit"}
    IN IF \E d \in Shutdowns(last), x \in exits : d < x THEN [pc |-> "done", code |-> 0]
       ELSE IF last < Len(script) /\ Kills(last + 1) THEN [pc |-> "dead", code |-> 2]
       ELSE [pc |-> "done", code |-> IF Shutdowns(last) # {} THEN 1 ELSE 0]
Returns == <>(pc = Ending.pc /\ code = Ending.code)

-----------------------------------------------------------------------------
(* What a comment of Server.h says, and exceptions break.                  *)

\* "Run the main request loop until shutdown+exit or EOF. Returns exit code."
\* (Server.h): the loop returns, whatever the messages are.
AlwaysReturns == <>(pc = "done")

=============================================================================
