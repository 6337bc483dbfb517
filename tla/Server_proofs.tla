---------------------------- MODULE Server_proofs ----------------------------
(***************************************************************************)
(* Proofs about Server, for every set of scripts: the shape of the state,  *)
(* the order of what is written, what each message is answered with and    *)
(* publishes, and which message the process dies of.                       *)
(***************************************************************************)
EXTENDS Server, SequenceTheorems, FiniteSetTheorems, TLAPS

\* While a message is dispatched it is one that could be parsed.
Working ==
    pc \in {"dispatch", "respond", "flush"} => At \in 1 .. Len(script) /\ Msg \in Message

\* Between messages nothing is queued, and what is queued is this message's.
PendingIsMine ==
    /\ pc \in {"read", "dispatch", "done"} => m_pending = <<>>
    /\ \A i \in DOMAIN m_pending : m_pending[i].of = At

\* Before its answer nothing has been written for a message.
NotYetWritten ==
    pc \in {"dispatch", "respond"} => \A n \in DOMAIN out : out[n].of < At

IInv == script \in Scripts /\ TypeOK /\ Working /\ PendingIsMine /\ NotYetWritten /\ InOrder

Pending == [of : 1 .. At, utf8 : BOOLEAN]
Output == [of : 1 .. At, what : Answers \cup {"log", "publish"}]

-----------------------------------------------------------------------------

\* A script holds messages and bodies that are none.
LEMMA ScriptType ==
    ASSUME script \in Scripts
    PROVE  /\ Len(script) \in Nat
           /\ \A i \in 1 .. Len(script) : IsMessage(i) <=> script[i] \in Message
  <1>1. script \in Seq(Message \cup {Malformed, Deadly}) BY ScriptsAssumption
  <1>2. \A i \in 1 .. Len(script) : script[i] \in Message \cup {Malformed, Deadly}
    BY <1>1, ElementOfSeq
  <1> QED BY <1>1, <1>2, BodiesAssumption DEF IsMessage

\* A sequence over a set is one over any larger set.
LEMMA SeqGrows ==
    ASSUME NEW A, NEW B, A \subseteq B, NEW s \in Seq(A)
    PROVE  s \in Seq(B)
  <1>1. \A i \in 1 .. Len(s) : s[i] \in B BY ElementOfSeq
  <1> QED BY <1>1

\* Later messages leave room for more tags.
LEMMA OutputGrows ==
    ASSUME NEW a \in Nat, NEW b \in Nat, a <= b, NEW W, NEW s \in Seq([of : 1 .. a, what : W])
    PROVE  s \in Seq([of : 1 .. b, what : W])
  <1>1. [of : 1 .. a, what : W] \subseteq [of : 1 .. b, what : W] OBVIOUS
  <1> QED BY <1>1, SeqGrows

\* Writing an answer or a log entry for a message that has none yet keeps the
\* order and the type of the output.
LEMMA WriteKeeps ==
    ASSUME TypeOK, InOrder, NEW w \in Answers \cup {"log", "publish"}, At \in Nat \ {0},
           \A n \in DOMAIN out : out[n].of < At, Write(w)
    PROVE  out' \in Seq([of : 1 .. At, what : Answers \cup {"log", "publish"}]) /\ InOrder'
  <1>1. out \in Seq(Output) BY DEF TypeOK, Output
  <1>2. [of |-> At, what |-> w] \in Output BY DEF Output, TypeOK, At
  <1>3. out' \in Seq(Output) /\ Len(out') = Len(out) + 1
        /\ (\A n \in 1 .. Len(out) : out'[n] = out[n])
        /\ out'[Len(out) + 1] = [of |-> At, what |-> w]
    BY <1>1, <1>2 DEF Write
  <1>4. InOrder'
    <2> SUFFICES ASSUME NEW n \in 2 .. Len(out')
                 PROVE  \/ out'[n - 1].of < out'[n].of
                        \/ out'[n - 1].of = out'[n].of /\ out'[n].what = "publish"
      BY DEF InOrder
    <2>1. CASE n <= Len(out)
      BY <1>1, <1>3, <2>1 DEF InOrder
    <2>2. CASE n = Len(out) + 1
      BY <1>1, <1>3, <2>2
    <2> QED BY <1>1, <1>3, <2>1, <2>2
  <1> QED BY <1>3, <1>4 DEF Output

\* What a handler queues is tagged with its message.
LEMMA QueuedType ==
    ASSUME TypeOK, m_pending = <<>>, At \in Nat \ {0}, Msg \in Message
    PROVE  /\ Queued \in Seq(Pending) /\ Len(Queued) <= 2 /\ Len(Queued) = Len(Msg.queues)
           /\ DOMAIN Msg.queues = 1 .. Len(Msg.queues)
           /\ \A i \in DOMAIN Queued : Queued[i] = [of |-> At, utf8 |-> Msg.queues[i]]
  <1> DEFINE q == Msg.queues
             mine == [i \in DOMAIN q |-> [of |-> At, utf8 |-> q[i]]]
  <1>1. PICK n \in 0 .. 2 : q \in [1 .. n -> BOOLEAN] BY DEF Message, Queue
  <1>2. DOMAIN q = 1 .. n /\ Len(q) = n /\ n \in Nat /\ n <= 2 BY <1>1
  <1>3. \A i \in 1 .. n : [of |-> At, utf8 |-> q[i]] \in Pending BY <1>1 DEF Pending, TypeOK
  <1>4. mine \in Seq(Pending) /\ Len(mine) = n BY <1>2, <1>3
  <1>5. Queued = mine BY <1>4 DEF Queued
  <1> QED BY <1>2, <1>4, <1>5

\* The greatest and the least of a few numbers.
LEMMA Extremes ==
    ASSUME NEW S \in SUBSET (0 .. 2), S # {}
    PROVE  /\ Max(S) \in S /\ \A x \in S : x <= Max(S)
           /\ Min(S) \in S /\ \A x \in S : Min(S) <= x
  <1>a. \A x \in S : x = 0 \/ x = 1 \/ x = 2 OBVIOUS
  <1>1. \E x \in S : \A y \in S : x >= y
    <2>1. CASE 2 \in S BY <1>a, <2>1
    <2>2. CASE 2 \notin S /\ 1 \in S BY <1>a, <2>2
    <2>3. CASE 2 \notin S /\ 1 \notin S
      <3>1. \A x \in S : x = 0 BY <1>a, <2>3
      <3>2. 0 \in S BY <3>1
      <3> QED BY <3>1, <3>2
    <2> QED BY <2>1, <2>2, <2>3
  <1>2. \E x \in S : \A y \in S : x <= y
    <2>1. CASE 0 \in S BY <1>a, <2>1
    <2>2. CASE 0 \notin S /\ 1 \in S BY <1>a, <2>2
    <2>3. CASE 0 \notin S /\ 1 \notin S
      <3>1. \A x \in S : x = 2 BY <1>a, <2>3
      <3>2. 2 \in S BY <3>1
      <3> QED BY <3>1, <3>2
    <2> QED BY <2>1, <2>2, <2>3
  <1>3. Max(S) \in S /\ \A y \in S : Max(S) >= y BY <1>1 DEF Max
  <1>4. Min(S) \in S /\ \A y \in S : Min(S) <= y BY <1>2 DEF Min
  <1>5. \A x \in S : x \in Nat OBVIOUS
  <1> QED BY <1>3, <1>4, <1>5

\* flushDiagnostics sends as many as it can, from the first one on.
LEMMA SentFacts ==
    ASSUME TypeOK
    PROVE  /\ Len(m_pending) \in 0 .. 2 /\ DOMAIN m_pending = 1 .. Len(m_pending)
           /\ Sent \in 0 .. Len(m_pending) /\ \A i \in 1 .. Sent : m_pending[i].utf8
           /\ \A n \in 0 .. Len(m_pending) : (\A i \in 1 .. n : m_pending[i].utf8) => n <= Sent
  <1>1. Len(m_pending) \in 0 .. 2 /\ DOMAIN m_pending = 1 .. Len(m_pending)
    <2>1. m_pending \in Seq(Pending) /\ Len(m_pending) <= 2 BY DEF TypeOK, Pending
    <2>2. Len(m_pending) \in Nat /\ DOMAIN m_pending = 1 .. Len(m_pending)
      BY <2>1, LenProperties
    <2> QED BY <2>1, <2>2
  <1>2. 0 \in Sendable(m_pending) /\ Sendable(m_pending) \in SUBSET (0 .. 2)
    BY <1>1 DEF Sendable
  <1>3. Sent \in Sendable(m_pending) /\ \A n \in Sendable(m_pending) : n <= Sent
    BY <1>2, Extremes DEF Sent
  <1> QED BY <1>1, <1>3 DEF Sendable

\* Publishing the first k of the queue adds k to what the message has published.
LEMMA FirstPublished ==
    ASSUME TypeOK, PendingIsMine, At \in Nat \ {0},
           NEW k \in 0 .. Len(m_pending),
           out' = out \o [i \in 1 .. k |-> [of |-> m_pending[i].of, what |-> "publish"]]
    PROVE  /\ Len(out) \in Nat /\ out' \in Seq(Output) /\ Len(out') = Len(out) + k
           /\ \A n \in Len(out) + 1 .. Len(out') : out'[n] = [of |-> At, what |-> "publish"]
           /\ \A n \in DOMAIN out : out'[n] = out[n]
           /\ \A i, W : OutputsOf(i, W)' = OutputsOf(i, W)
                  \cup (IF i = At /\ "publish" \in W
                        THEN Len(out) + 1 .. Len(out) + k ELSE {})
  <1> DEFINE sent == [i \in 1 .. k |-> [of |-> m_pending[i].of, what |-> "publish"]]
  <1>1. k \in Nat /\ \A i \in 1 .. k : m_pending[i].of = At
    <2>1. Len(m_pending) \in 0 .. 2 /\ DOMAIN m_pending = 1 .. Len(m_pending) BY SentFacts
    <2>2. k \in Nat /\ 1 .. k \subseteq DOMAIN m_pending BY <2>1
    <2> QED BY <2>2 DEF PendingIsMine
  <1>2. [of |-> At, what |-> "publish"] \in Output BY DEF Output
  <1>3. sent \in Seq(Output) /\ Len(sent) = k
        /\ \A i \in 1 .. k : sent[i] = [of |-> At, what |-> "publish"]
    BY <1>1, <1>2
  <1>4. out \in Seq(Output) BY DEF TypeOK, Output
  <1> HIDE DEF sent
  <1>5. /\ Len(out) \in Nat /\ DOMAIN out = 1 .. Len(out)
        /\ DOMAIN out' = 1 .. Len(out) + k /\ out' \in Seq(Output) /\ Len(out') = Len(out) + k
        /\ \A n \in 1 .. Len(out) + k :
              out'[n] = IF n <= Len(out) THEN out[n] ELSE sent[n - Len(out)]
    <2>1. out' = out \o sent BY DEF sent
    <2>2. Len(out) \in Nat /\ DOMAIN out = 1 .. Len(out) BY <1>4, LenProperties
    <2>3. /\ out' \in Seq(Output) /\ Len(out') = Len(out) + Len(sent)
          /\ \A n \in 1 .. Len(out) + Len(sent) :
                out'[n] = IF n <= Len(out) THEN out[n] ELSE sent[n - Len(out)]
      <3>1. PICK O, p, q : O = Output /\ p = out /\ q = sent OBVIOUS
      <3>2. p \in Seq(O) /\ q \in Seq(O) /\ out' = p \o q BY <1>3, <1>4, <2>1, <3>1
      <3>3. /\ p \o q \in Seq(O) /\ Len(p \o q) = Len(p) + Len(q)
            /\ \A n \in 1 .. Len(p) + Len(q) :
                  (p \o q)[n] = IF n <= Len(p) THEN p[n] ELSE q[n - Len(p)]
        BY <3>2, ConcatProperties
      <3> QED BY <3>1, <3>2, <3>3
    <2>4. DOMAIN out' = 1 .. Len(out') BY <2>3, LenProperties
    <2> QED BY <1>3, <2>2, <2>3, <2>4
  <1>6. /\ \A n \in 1 .. Len(out) : out'[n] = out[n]
        /\ \A n \in Len(out) + 1 .. Len(out) + k : out'[n] = [of |-> At, what |-> "publish"]
    <2>1. \A n \in 1 .. Len(out) : n \in 1 .. Len(out) + k /\ n <= Len(out)
      BY <1>1, <1>5
    <2>2. \A n \in Len(out) + 1 .. Len(out) + k :
              /\ n \in 1 .. Len(out) + k /\ ~(n <= Len(out))
              /\ n - Len(out) \in 1 .. k
      BY <1>1, <1>5
    <2> QED BY <1>3, <1>5, <2>1, <2>2
  <1>7. DOMAIN out' = DOMAIN out \cup (Len(out) + 1 .. Len(out) + k)
    BY <1>1, <1>5
  <1>8. ASSUME NEW i, NEW W
        PROVE  OutputsOf(i, W)' = OutputsOf(i, W)
                  \cup (IF i = At /\ "publish" \in W
                        THEN Len(out) + 1 .. Len(out) + k ELSE {})
    <2>1. PICK more : more = Len(out) + 1 .. Len(out) + k OBVIOUS
    <2>2. /\ \A n \in DOMAIN out : out'[n] = out[n]
          /\ \A n \in more : out'[n].of = At /\ out'[n].what = "publish"
          /\ DOMAIN out' = DOMAIN out \cup more
      <3>1. \A n \in DOMAIN out : out'[n] = out[n] BY <1>5, <1>6
      <3>2. \A n \in more : out'[n] = [of |-> At, what |-> "publish"] BY <1>6, <2>1
      <3>3. DOMAIN out' = DOMAIN out \cup more BY <1>7, <2>1
      <3>4. ASSUME NEW n \in more PROVE out'[n].of = At /\ out'[n].what = "publish"
        <4>1. PICK r : r = out'[n] OBVIOUS
        <4>2. r = [of |-> At, what |-> "publish"] BY <3>2, <4>1
        <4>3. r.of = At /\ r.what = "publish" BY ONLY <4>2
        <4> QED BY <4>1, <4>3
      <3> QED BY <3>1, <3>3, <3>4
    <2>3. OutputsOf(i, W)' = {n \in DOMAIN out' : out'[n].of = i /\ out'[n].what \in W}
      BY DEF OutputsOf
    <2> QED BY <2>1, <2>2, <2>3 DEF OutputsOf
  <1> QED BY <1>1, <1>5, <1>6, <1>8

-----------------------------------------------------------------------------

\* The shape and the order at the start.
LEMMA InitIInv == Init => IInv
  <1> SUFFICES ASSUME Init PROVE IInv OBVIOUS
  <1>1. At = 0 /\ script \in Scripts BY DEF Init, At
  <1>2. Len(script) \in Nat /\ 1 \in 1 .. Len(script) + 1 BY <1>1, ScriptType
  <1>3. m_pending \in Seq(Pending) /\ Len(m_pending) <= 2 BY EmptySeq DEF Init
  <1>4. out \in Seq(Output) BY EmptySeq DEF Init
  <1>5. code \in 0 .. 2 /\ next \in 1 .. Len(script) + 1 BY <1>2 DEF Init
  <1>6. TypeOK
    <2>1. pc \in {"read", "dispatch", "respond", "flush", "done", "dead"}
          /\ m_initialized \in BOOLEAN /\ m_shutdown \in BOOLEAN
      BY DEF Init
    <2> QED BY <1>3, <1>4, <1>5, <2>1 DEF TypeOK, Pending, Output
  <1> QED BY <1>1, <1>3, <1>6, EmptySeq
          DEF Init, IInv, Working, PendingIsMine, NotYetWritten, InOrder

\* A step that reads on writes nothing and queues nothing.
LEMMA ReadOnKeeps ==
    ASSUME IInv, pc = "read", next \in 1 .. Len(script), next' = next + 1,
           UNCHANGED <<script, m_initialized, m_shutdown, m_pending, out>>,
           code' \in 0 .. 2, pc' \in {"read", "dispatch", "done", "dead"}
    PROVE  /\ TypeOK' /\ PendingIsMine' /\ InOrder' /\ At' = next
           /\ \A n \in DOMAIN out' : out'[n].of < At'
  <1>a. TypeOK /\ PendingIsMine /\ InOrder BY DEF IInv
  <1>b. Len(script) \in Nat BY ScriptType DEF IInv
  <1>1. At \in Nat /\ next = At + 1 /\ At' = next BY <1>a, <1>b DEF TypeOK, At
  <1>2. m_pending' = <<>> BY <1>a DEF PendingIsMine
  <1>3. out' \in Seq([of : 1 .. At', what : Answers \cup {"log", "publish"}])
    <2>1. At <= At' /\ At' \in Nat /\ out' = out BY <1>1
    <2>2. out \in Seq([of : 1 .. At, what : Answers \cup {"log", "publish"}]) BY <1>a DEF TypeOK
    <2> QED BY <1>1, <2>1, <2>2, OutputGrows
  <1>4. TypeOK' BY <1>a, <1>b, <1>1, <1>2, <1>3, EmptySeq DEF TypeOK
  <1>5. \A n \in DOMAIN out : out[n].of < next
    <2>1. out \in Seq(Output) BY <1>a DEF TypeOK, Output
    <2>2. \A n \in DOMAIN out : out[n] \in Output BY <2>1, ElementOfSeq
    <2>3. \A n \in DOMAIN out : out[n].of \in 1 .. At BY <2>2 DEF Output
    <2> QED BY <1>1, <2>3
  <1> QED BY <1>a, <1>1, <1>2, <1>4, <1>5 DEF PendingIsMine, InOrder

\* Every step keeps them.
LEMMA NextIInv == IInv /\ [Next]_vars => IInv'
  <1> SUFFICES ASSUME IInv, [Next]_vars PROVE IInv' OBVIOUS
  <1>a. script \in Scripts /\ TypeOK /\ Working /\ PendingIsMine /\ NotYetWritten /\ InOrder
    BY DEF IInv
  <1>b. next \in Nat \ {0} /\ At \in Nat /\ Len(script) \in Nat
    BY <1>a, ScriptType DEF TypeOK, At
  <1>c. script' = script
    BY DEF Next, Read, ReadThrows, EndOfStream, AwaitExit, Notification, Reject, Fail, Handle,
           Abort, Respond, Flush, Ended, vars
  <1>1. CASE Read
    <2>1. next \in 1 .. Len(script) /\ script[next] \in Message
      BY <1>a, <1>b, <1>1, ScriptType DEF Read, Some
    <2>2. code' \in 0 .. 2 BY <1>a, <1>1 DEF TypeOK, Read
    <2>3. TypeOK' /\ PendingIsMine' /\ InOrder' /\ At' = next /\ \A n \in DOMAIN out' : out'[n].of < At'
      BY <1>1, <2>1, <2>2, ReadOnKeeps DEF Read
    <2>4. Working' BY <1>c, <2>1, <2>3 DEF Working, Msg
    <2> QED BY <1>a, <1>c, <2>3, <2>4 DEF IInv, NotYetWritten
  <1>2. CASE ReadThrows \/ AwaitExit
    <2>1. next \in 1 .. Len(script) /\ pc' \in {"read", "done", "dead"}
      BY <1>a, <1>b, <1>2 DEF ReadThrows, AwaitExit, Some
    <2>2. code' \in 0 .. 2 BY <1>a, <1>2 DEF TypeOK, ReadThrows, AwaitExit
    <2>3. TypeOK' /\ PendingIsMine' /\ InOrder'
      BY <1>2, <2>1, <2>2, ReadOnKeeps DEF ReadThrows, AwaitExit
    <2> QED BY <1>a, <1>c, <2>1, <2>3 DEF IInv, Working, NotYetWritten
  <1>3. CASE EndOfStream
    BY <1>a, <1>3 DEF IInv, EndOfStream, Stop, NoneCode, TypeOK, Working, PendingIsMine,
                      NotYetWritten, InOrder, At
  <1>4. CASE Notification
    <2>1. At \in 1 .. Len(script) /\ Msg \in Message /\ m_pending = <<>> /\ At' = At
          /\ (\A n \in DOMAIN out : out[n].of < At) /\ next' = next /\ pc' = "flush"
          /\ Msg' = Msg
      BY <1>a, <1>c, <1>4
      DEF Notification, AfterNotification, Working, PendingIsMine, NotYetWritten, At, Msg
    <2>2. /\ m_pending' \in Seq(Pending) /\ Len(m_pending') <= 2
          /\ \A i \in DOMAIN m_pending' : m_pending'[i].of = At
      BY <1>a, <1>b, <1>4, <2>1, QueuedType DEF Notification
    <2>3. out' \in Seq(Output) /\ InOrder'
      <3>1. CASE Msg.ends = "throws"
        <4>1. At \in Nat \ {0} /\ Write("log") BY <1>b, <1>4, <2>1, <3>1 DEF Notification
        <4> QED BY <1>a, <2>1, <4>1, WriteKeeps DEF Output
      <3>2. CASE Msg.ends # "throws"
        BY <1>a, <1>4, <3>2 DEF Notification, TypeOK, InOrder, Output
      <3> QED BY <3>1, <3>2
    <2>4. TypeOK' BY <1>a, <1>4, <2>1, <2>2, <2>3 DEF TypeOK, Notification, Pending, Output
    <2> QED BY <1>a, <1>c, <2>1, <2>2, <2>3, <2>4 DEF IInv, Working, PendingIsMine, NotYetWritten
  <1>5. ASSUME Reject \/ Fail PROVE IInv'
    <2>1. At \in 1 .. Len(script) /\ Msg \in Message /\ m_pending = <<>> /\ At' = At
          /\ (\A n \in DOMAIN out : out[n].of < At) /\ next' = next /\ pc' = "read"
          /\ m_pending' = m_pending
      BY <1>a, <1>5 DEF Reject, Fail, Working, PendingIsMine, NotYetWritten, At
    <2>2. PICK w \in Answers : Write(w)
      BY <1>5 DEF Reject, Fail, Answers
    <2>3. out' \in Seq(Output) /\ InOrder'
      <3>1. At \in Nat \ {0} /\ w \in Answers \cup {"log", "publish"} BY <1>b, <2>1
      <3> QED BY <1>a, <2>1, <2>2, <3>1, WriteKeeps DEF Output
    <2>4. m_initialized' \in BOOLEAN /\ m_shutdown' \in BOOLEAN
      BY <1>a, <1>5 DEF Reject, Fail, Flags, TypeOK
    <2>5. TypeOK' BY <1>a, <1>5, <2>1, <2>3, <2>4 DEF TypeOK, Reject, Fail, Output
    <2> QED BY <1>a, <1>c, <2>1, <2>3, <2>5, EmptySeq
            DEF IInv, Working, PendingIsMine, NotYetWritten
  <1>6. CASE Handle
    <2>1. At \in 1 .. Len(script) /\ Msg \in Message /\ m_pending = <<>> /\ At' = At
          /\ Msg' = Msg /\ (\A n \in DOMAIN out : out[n].of < At)
      BY <1>a, <1>6 DEF Handle, Working, PendingIsMine, NotYetWritten, At, Msg
    <2>2. /\ m_pending' \in Seq(Pending) /\ Len(m_pending') <= 2
          /\ \A i \in DOMAIN m_pending' : m_pending'[i].of = At
      BY <1>a, <1>b, <1>6, <2>1, QueuedType DEF Handle
    <2>3. m_initialized' \in BOOLEAN /\ m_shutdown' \in BOOLEAN
      BY <1>a, <1>6 DEF Handle, Flags, TypeOK
    <2>4. TypeOK' BY <1>a, <1>6, <2>1, <2>2, <2>3 DEF TypeOK, Handle, Pending
    <2> QED BY <1>a, <1>c, <1>6, <2>1, <2>2, <2>4
            DEF IInv, Working, PendingIsMine, NotYetWritten, InOrder, Handle
  <1>7. CASE Respond
    <2>1. At \in 1 .. Len(script) /\ Msg \in Message /\ At' = At /\ Msg' = Msg /\ next' = next
          /\ (\A n \in DOMAIN out : out[n].of < At) /\ pc' \in {"flush", "dead"}
      BY <1>a, <1>7 DEF Respond, Working, NotYetWritten, At, Msg
    <2>2. out' \in Seq(Output) /\ InOrder'
      <3>1. CASE Msg.utf8
        <4>1. At \in Nat \ {0} /\ "result" \in Answers \cup {"log", "publish"} /\ Write("result")
          BY <1>b, <1>7, <2>1, <3>1 DEF Respond, Answers
        <4> QED BY <1>a, <2>1, <4>1, WriteKeeps DEF Output
      <3>2. CASE ~Msg.utf8 BY <1>a, <1>7, <3>2 DEF Respond, TypeOK, InOrder, Output
      <3> QED BY <3>1, <3>2
    <2>3. TypeOK' BY <1>a, <1>7, <2>1, <2>2 DEF TypeOK, Respond, Output
    <2> QED BY <1>a, <1>c, <1>7, <2>1, <2>2, <2>3
            DEF IInv, Working, PendingIsMine, NotYetWritten, Respond
  <1>8. CASE Flush
    <2>1. At \in 1 .. Len(script) /\ At' = At /\ pc' \in {"read", "dead"} /\ m_pending' = <<>>
      BY <1>a, <1>8 DEF Flush, Taken, Working, At
    <2>2. /\ Len(out) \in Nat /\ out' \in Seq(Output) /\ Len(out') = Len(out) + Sent
          /\ \A n \in Len(out) + 1 .. Len(out') : out'[n] = [of |-> At, what |-> "publish"]
          /\ \A n \in DOMAIN out : out'[n] = out[n]
      <3>1. Sent \in 0 .. Len(m_pending) /\ At \in Nat \ {0} BY <1>a, <1>b, <2>1, SentFacts
      <3> QED BY <1>a, <1>8, <3>1, FirstPublished DEF Flush
    <2>3. DOMAIN out = 1 .. Len(out) /\ Len(out') \in Nat
      BY <1>a, <2>2, LenProperties DEF TypeOK
    <2>6. InOrder'
      <3> SUFFICES ASSUME NEW n \in 2 .. Len(out')
                   PROVE  \/ out'[n - 1].of < out'[n].of
                          \/ out'[n - 1].of = out'[n].of /\ out'[n].what = "publish"
        BY DEF InOrder
      <3>1. CASE n <= Len(out) BY <1>a, <2>2, <2>3, <3>1 DEF InOrder
      <3>2. CASE n > Len(out)
        <4>1. out'[n] = [of |-> At, what |-> "publish"] BY <2>2, <2>3, <3>2
        <4>2. out'[n - 1] \in Output BY <2>2, <2>3, ElementOfSeq
        <4>3. out'[n - 1].of \in 1 .. At BY <4>2 DEF Output
        <4> QED BY <4>1, <4>3, <1>b
      <3> QED BY <3>1, <3>2, <2>2, <2>3
    <2>7. TypeOK' BY <1>a, <1>8, <2>1, <2>2, EmptySeq DEF TypeOK, Flush, Output
    <2> QED BY <1>a, <1>c, <2>1, <2>6, <2>7, EmptySeq
            DEF IInv, Working, PendingIsMine, NotYetWritten
  <1>9. CASE Abort
    <2>1. At' = At /\ pc' = "dead" /\ m_pending' = <<>> /\ out' = out /\ m_pending = <<>>
      BY <1>a, <1>9 DEF Abort, At, PendingIsMine
    <2>2. TypeOK' BY <1>a, <1>9, <2>1 DEF TypeOK, Abort
    <2> QED BY <1>a, <1>c, <2>1, <2>2 DEF IInv, Working, PendingIsMine, NotYetWritten, InOrder
  <1>10. CASE Ended \/ UNCHANGED vars
    BY <1>a, <1>10 DEF Ended, vars, IInv, TypeOK, Working, PendingIsMine, NotYetWritten, InOrder,
                       At, Msg
  <1> QED BY <1>1, <1>2, <1>3, <1>4, <1>5, <1>6, <1>7, <1>8, <1>9, <1>10 DEF Next

\* IInv is inductive, so every state of every run satisfies it.
LEMMA Inductive == Spec => []IInv
  BY InitIInv, NextIInv, PTL DEF Spec

\* The server's state keeps its shape for every set of scripts.
THEOREM TypeCorrect == Spec => []TypeOK
  <1>1. IInv => TypeOK BY DEF IInv
  <1> QED BY <1>1, Inductive, PTL

\* For every script: output follows the messages, answers before the
\* diagnostics of the same request, and nothing of an earlier message after
\* anything of a later one.
THEOREM OutputInOrder == Spec => []InOrder
  <1>1. IInv => InOrder BY DEF IInv
  <1> QED BY <1>1, Inductive, PTL

-----------------------------------------------------------------------------
(* What the messages are answered with.                                    *)

\* The messages whose handler has run.
Handled == IF pc = "dispatch" THEN At - 1 ELSE At

\* The two flags are what the script says: a message is dispatched unless a
\* shutdown has been, and rejected unless an initialize has been.
FlagsOK ==
    /\ \A i \in 1 .. At : i < At \/ pc # "dead" => IsMessage(i)
    /\ m_initialized <=> \E j \in 1 .. Handled : Initializes(j)
    /\ m_shutdown <=> Shutdowns(Handled) # {}
    /\ m_shutdown => m_initialized
    /\ pc \in {"dispatch", "respond", "flush"} => Dispatched(At)

AnswerOK(i) ==
    IF Expected(i) = {} THEN OutputsOf(i, Answers) = {}
    ELSE \E n : OutputsOf(i, Answers) = {n} /\ out[n].what \in Expected(i)
Settled(i) == AnswerOK(i) /\ PublishedFor(i) = Due(i) /\ ~Kills(i)

\* What waits in the queue is what this message is to publish.
InHand ==
    /\ Runs(At) /\ Msg.ends # "asserts"
    /\ DOMAIN m_pending = DOMAIN Msg.queues /\ Len(m_pending) = Len(Msg.queues)
    /\ \A k \in DOMAIN m_pending : m_pending[k].utf8 = Msg.queues[k]

\* The message that the process died of.
Fatal ==
    /\ Kills(At)
    /\ IF Mute(At) THEN \A W : OutputsOf(At, W) = {}
       ELSE AnswerOK(At) /\ PublishedFor(At) = Min(Garbled(At)) - 1

\* Every earlier message is settled, and of this one what is not written yet
\* waits in the queue.
Accounts ==
    /\ \A i \in Past : Settled(i)
    /\ pc \in {"respond", "flush"} => InHand
    /\ pc = "respond" => Expected(At) = {"result"}
    /\ pc = "flush" => Msg.utf8 /\ AnswerOK(At) /\ OutputsOf(At, {"publish"}) = {}
    /\ pc = "dead" => Fatal

AInv == FlagsOK /\ Accounts

\* What the script asks for does not change.
LEMMA ScriptSame ==
    ASSUME script' = script
    PROVE  \A i : /\ Initializes(i)' = Initializes(i) /\ Carried(i)' = Carried(i)
                  /\ Shutdowns(i)' = Shutdowns(i) /\ Dispatched(i)' = Dispatched(i)
                  /\ InTime(i)' = InTime(i) /\ IsMessage(i)' = IsMessage(i)
                  /\ Expected(i)' = Expected(i) /\ Due(i)' = Due(i) /\ Runs(i)' = Runs(i)
                  /\ Mute(i)' = Mute(i) /\ Garbled(i)' = Garbled(i) /\ Kills(i)' = Kills(i)
  BY DEF Initializes, Carried, Shutdowns, Dispatched, InTime, IsMessage, Expected, Due, Runs,
         Mute, Garbled, Kills

\* Writing adds one to what a message has been answered or published.
LEMMA Written ==
    ASSUME TypeOK, NEW w, Write(w)
    PROVE  /\ Len(out) \in Nat /\ out'[Len(out) + 1] = [of |-> At, what |-> w]
           /\ \A n \in DOMAIN out : out'[n] = out[n]
           /\ \A i, W : OutputsOf(i, W)' = OutputsOf(i, W)
                            \cup (IF i = At /\ w \in W THEN {Len(out) + 1} ELSE {})
  <1>1. PICK S : S = Output \cup {[of |-> At, what |-> w]} OBVIOUS
  <1>2. out \in Seq(S) /\ [of |-> At, what |-> w] \in S
    <2>1. out \in Seq(Output) /\ Output \subseteq S BY <1>1 DEF TypeOK, Output
    <2> QED BY <1>1, <2>1, SeqGrows
  <1>3. /\ Len(out) \in Nat /\ Len(out') = Len(out) + 1
        /\ \A n \in 1 .. Len(out) : out'[n] = out[n]
        /\ out'[Len(out) + 1] = [of |-> At, what |-> w]
        /\ out' \in Seq(S)
    BY <1>2, AppendProperties, LenProperties DEF Write
  <1>4. DOMAIN out = 1 .. Len(out) /\ DOMAIN out' = 1 .. Len(out) + 1
    BY <1>2, <1>3, LenProperties
  <1>5. ASSUME NEW i, NEW W
        PROVE  OutputsOf(i, W)' = OutputsOf(i, W)
                   \cup (IF i = At /\ w \in W THEN {Len(out) + 1} ELSE {})
    <2>1. DOMAIN out' = DOMAIN out \cup {Len(out) + 1} BY <1>3, <1>4
    <2> QED BY <1>3, <1>4, <2>1 DEF OutputsOf
  <1> QED BY <1>3, <1>4, <1>5

\* Nothing is written for a message before it is read.
LEMMA OutputTags ==
    ASSUME TypeOK, NEW n \in DOMAIN out
    PROVE  out[n].of \in 1 .. At
  <1>1. out \in Seq(Output) BY DEF TypeOK, Output
  <1>2. out[n] \in Output BY <1>1, ElementOfSeq, LenProperties
  <1> QED BY <1>2 DEF Output

\* A message that nothing is written for stays as settled as it was.
LEMMA SettledSame ==
    ASSUME script' = script, NEW i, \A W : OutputsOf(i, W)' = OutputsOf(i, W),
           \A n \in DOMAIN out : out'[n] = out[n]
    PROVE  (AnswerOK(i)' <=> AnswerOK(i)) /\ (Settled(i)' <=> Settled(i))
  <1>1. Expected(i)' = Expected(i) /\ Due(i)' = Due(i) /\ Kills(i)' = Kills(i) BY ScriptSame
  <1>2. \A W : \A n \in OutputsOf(i, W) : out'[n] = out[n] BY DEF OutputsOf
  <1>3. AnswerOK(i)' <=> AnswerOK(i)
    <2>1. OutputsOf(i, Answers)' = OutputsOf(i, Answers) BY DEF Answers
    <2>2. \A n : OutputsOf(i, Answers) = {n} => out'[n] = out[n] BY <1>2
    <2> QED BY <1>1, <2>1, <2>2 DEF AnswerOK
  <1>4. PublishedFor(i)' = PublishedFor(i) BY DEF PublishedFor
  <1> QED BY <1>1, <1>3, <1>4 DEF Settled

\* What one more message adds to what the script asks for.
LEMMA OneMore ==
    ASSUME NEW n \in Nat \ {0}
    PROVE  /\ (\E j \in 1 .. n : Initializes(j)) <=>
                  Initializes(n) \/ \E j \in 1 .. n - 1 : Initializes(j)
           /\ Shutdowns(n) = Shutdowns(n - 1)
                  \cup (IF Carried(n) /\ script[n].method = "shutdown" THEN {n} ELSE {})
  <1>1. 1 .. n = (1 .. n - 1) \cup {n} OBVIOUS
  <1> QED BY <1>1 DEF Shutdowns

\* Nothing has been read at the start.
LEMMA AInit == Init => AInv
  <1> SUFFICES ASSUME Init PROVE AInv OBVIOUS
  <1>1. At = 0 /\ Handled = 0 /\ pc = "read" BY DEF Init, At, Handled
  <1>2. 1 .. 0 = {} OBVIOUS
  <1>3. FlagsOK BY <1>1, <1>2 DEF Init, FlagsOK, Shutdowns
  <1>4. Accounts BY <1>1, <1>2 DEF Accounts, Past
  <1> QED BY <1>3, <1>4 DEF AInv

\* While a message is dispatched, the flags tell whether it is in time.
LEMMA InTimeFacts ==
    ASSUME IInv, AInv, pc = "dispatch"
    PROVE  /\ At \in Nat \ {0} /\ At \in 1 .. Len(script) /\ Msg \in Message /\ IsMessage(At)
           /\ Dispatched(At) /\ m_pending = <<>>
           /\ m_initialized <=> \E j \in 1 .. At - 1 : Initializes(j)
           /\ InTime(At) <=> Initializes(At) \/ m_initialized
           /\ Msg.hasId => (Rejected <=> ~Carried(At))
           /\ \A W : OutputsOf(At, W) = {}
  <1>1. /\ At \in Nat \ {0} /\ At \in 1 .. Len(script) /\ Msg \in Message /\ m_pending = <<>>
        /\ \A n \in DOMAIN out : out[n].of < At
    BY DEF IInv, Working, PendingIsMine, NotYetWritten
  <1>2. Dispatched(At) /\ (m_initialized <=> \E j \in 1 .. At - 1 : Initializes(j))
    BY DEF AInv, FlagsOK, Handled
  <1>3. IsMessage(At) BY <1>2 DEF Dispatched
  <1>4. InTime(At) <=> Initializes(At) \/ m_initialized BY <1>2 DEF InTime
  <1>5. Msg.hasId => (Rejected <=> ~Carried(At))
    BY <1>3, <1>4 DEF Rejected, TooEarly, Carried, Initializes, Msg, Requests
  <1>6. \A W : OutputsOf(At, W) = {} BY <1>1 DEF OutputsOf
  <1> QED BY <1>1, <1>2, <1>3, <1>4, <1>5, <1>6

\* Reject, Fail and Respond: one answer, the one that is expected.
LEMMA AnswersIt ==
    ASSUME TypeOK, At \in Nat \ {0}, OutputsOf(At, Answers) = {}, OutputsOf(At, {"publish"}) = {},
           NEW w \in Answers, Write(w), script' = script, At' = At, Expected(At) = {w}
    PROVE  /\ AnswerOK(At)' /\ OutputsOf(At, {"publish"})' = {}
           /\ \A i : i # At => (Settled(i)' <=> Settled(i))
  <1>1. /\ out'[Len(out) + 1] = [of |-> At, what |-> w]
        /\ \A n \in DOMAIN out : out'[n] = out[n]
        /\ \A i, W : OutputsOf(i, W)' = OutputsOf(i, W)
               \cup (IF i = At /\ w \in W THEN {Len(out) + 1} ELSE {})
    BY Written
  <1>2. PICK a : a = At OBVIOUS
  <1>3. OutputsOf(a, Answers)' = {Len(out) + 1} /\ OutputsOf(a, {"publish"})' = {}
    <2>1. w # "publish" BY DEF Answers
    <2>2. \A W : OutputsOf(a, W)' = OutputsOf(a, W) \cup (IF w \in W THEN {Len(out) + 1} ELSE {})
      BY <1>1, <1>2
    <2>3. OutputsOf(a, {"publish"})' = OutputsOf(a, {"publish"})
                                          \cup (IF w \in {"publish"} THEN {Len(out) + 1} ELSE {})
      BY <2>2
    <2>4. OutputsOf(a, Answers)' = OutputsOf(a, Answers) \cup {Len(out) + 1}
      BY <2>2 DEF Answers
    <2> QED BY <1>2, <2>1, <2>3, <2>4
  <1>4. Expected(a)' = {w} BY <1>2, ScriptSame
  <1>5. AnswerOK(a)'
    <2>1. out'[Len(out) + 1].what \in Expected(a)' BY <1>1, <1>4
    <2> QED BY <1>3, <1>4, <2>1 DEF AnswerOK
  <1>6. ASSUME NEW i, i # At PROVE Settled(i)' <=> Settled(i)
    <2>1. \A W : OutputsOf(i, W)' = OutputsOf(i, W) BY <1>1, <1>6
    <2> QED BY <1>1, <2>1, SettledSame
  <1>7. AnswerOK(At)' /\ OutputsOf(At, {"publish"})' = {}
    <2>1. a = At' BY <1>2
    <2> QED BY <1>3, <1>5, <2>1 DEF AnswerOK, OutputsOf, Answers, Expected
  <1> QED BY <1>6, <1>7

\* The flags, kept by every step.
LEMMA FlagsNext == ASSUME IInv, AInv, [Next]_vars PROVE FlagsOK'
  <1>a. TypeOK /\ Working /\ PendingIsMine /\ FlagsOK BY DEF IInv, AInv
  <1>b. next \in Nat \ {0} /\ At \in Nat /\ Len(script) \in Nat /\ next = At + 1
    BY <1>a, ScriptType DEF TypeOK, At, IInv
  <1>c. script' = script
    BY DEF Next, Read, ReadThrows, EndOfStream, AwaitExit, Notification, Reject, Fail, Handle,
           Abort, Respond, Flush, Ended, vars
  <1>d. \A i : /\ Initializes(i)' = Initializes(i) /\ IsMessage(i)' = IsMessage(i)
               /\ Shutdowns(i)' = Shutdowns(i) /\ Dispatched(i)' = Dispatched(i)
    BY <1>c, ScriptSame
  <1>1. CASE Read
    <2>1. /\ At' = At + 1 /\ pc = "read" /\ pc' = "dispatch" /\ ~m_shutdown /\ IsMessage(next)
          /\ m_initialized' = m_initialized /\ m_shutdown' = m_shutdown
      BY <1>1, <1>b DEF Read, At, Some
    <2>2. Handled = At /\ Handled' = At /\ At' - 1 = At BY <1>b, <2>1 DEF Handled
    <2>3. Shutdowns(At) = {} BY <1>a, <2>1, <2>2 DEF FlagsOK
    <2>4. Dispatched(At') BY <1>b, <2>1, <2>2, <2>3 DEF Dispatched
    <2>5. PICK h, a : h = Handled /\ a = At' OBVIOUS
    <2>6. \A i \in 1 .. a : IsMessage(i) BY <1>a, <1>b, <2>1, <2>5 DEF FlagsOK
    <2>7. h = Handled' /\ Dispatched(a)' /\ Shutdowns(h)' = Shutdowns(h)
          /\ (\E j \in 1 .. h : Initializes(j))' = (\E j \in 1 .. h : Initializes(j))
          /\ \A i \in 1 .. a : IsMessage(i)'
      BY <1>d, <2>2, <2>4, <2>5, <2>6
    <2> QED BY <1>a, <2>1, <2>5, <2>7 DEF FlagsOK
  <1>2. CASE AwaitExit
    <2>1. /\ At' = At + 1 /\ pc = "read" /\ pc' \in {"read", "done"} /\ m_shutdown
          /\ m_initialized' = m_initialized /\ m_shutdown' = m_shutdown /\ IsMessage(next)
      BY <1>a, <1>b, <1>2 DEF AwaitExit, Some, At
    <2>2. Handled = At /\ Handled' = At + 1 BY <2>1 DEF Handled
    <2>3. m_initialized /\ Shutdowns(At) # {} /\ \E j \in 1 .. At : Initializes(j)
      BY <1>a, <2>1, <2>2 DEF FlagsOK
    <2>4. Shutdowns(At + 1) # {} /\ \E j \in 1 .. At + 1 : Initializes(j)
      BY <1>b, <2>3, OneMore DEF Shutdowns
    <2>5. PICK h : h = At + 1 OBVIOUS
    <2>6. \A i \in 1 .. h : IsMessage(i) BY <1>a, <1>b, <2>1, <2>5 DEF FlagsOK
    <2>7. /\ h = Handled' /\ h = At' /\ Shutdowns(h)' # {} /\ (\E j \in 1 .. h : Initializes(j))'
          /\ \A i \in 1 .. h : IsMessage(i)'
      BY <1>d, <2>1, <2>2, <2>4, <2>5, <2>6
    <2> QED BY <2>1, <2>3, <2>5, <2>7 DEF FlagsOK
  <1>3. CASE ReadThrows
    <2>1. /\ At' = At + 1 /\ pc = "read" /\ pc' = "dead" /\ script[next] = Deadly
          /\ m_initialized' = m_initialized /\ m_shutdown' = m_shutdown
      BY <1>b, <1>3 DEF ReadThrows, At
    <2>2. Handled = At /\ Handled' = At + 1 BY <2>1 DEF Handled
    <2>3. ~Initializes(At + 1) /\ ~Carried(At + 1)
      BY <1>b, <2>1 DEF Initializes, Carried, IsMessage
    <2>4. /\ Shutdowns(At + 1) = Shutdowns(At)
          /\ (\E j \in 1 .. At + 1 : Initializes(j)) <=> \E j \in 1 .. At : Initializes(j)
      <3>1. At + 1 \in Nat \ {0} /\ (At + 1) - 1 = At BY <1>b
      <3> QED BY <2>3, <3>1, OneMore
    <2>5. PICK h : h = At + 1 OBVIOUS
    <2>6. \A i \in 1 .. h : i < h => IsMessage(i) BY <1>a, <1>b, <2>1, <2>5 DEF FlagsOK
    <2>7. /\ h = Handled' /\ h = At' /\ Shutdowns(h)' = Shutdowns(h)
          /\ (\E j \in 1 .. h : Initializes(j))' = (\E j \in 1 .. h : Initializes(j))
          /\ \A i \in 1 .. h : i < h => IsMessage(i)'
      BY <1>d, <2>1, <2>2, <2>5, <2>6
    <2> QED BY <1>a, <2>1, <2>2, <2>4, <2>5, <2>7 DEF FlagsOK
  <1>4. ASSUME pc = "dispatch", pc' \in {"read", "respond", "flush", "dead"}, At' = At,
               m_initialized' <=> m_initialized \/ Initializes(At),
               m_shutdown' <=> m_shutdown \/ (Carried(At) /\ script[At].method = "shutdown")
        PROVE  FlagsOK'
    <2>1. Handled = At - 1 /\ Handled' = At BY <1>4 DEF Handled
    <2>2. /\ At \in Nat \ {0} /\ Dispatched(At)
          /\ m_initialized <=> \E j \in 1 .. At - 1 : Initializes(j)
          /\ InTime(At) <=> Initializes(At) \/ m_initialized
      BY <1>4, InTimeFacts
    <2>3. /\ m_initialized' <=> \E j \in 1 .. At : Initializes(j)
          /\ m_shutdown' <=> Shutdowns(At) # {}
          /\ m_shutdown' => m_initialized'
      BY <1>4, <1>a, <2>1, <2>2, OneMore DEF FlagsOK, Carried
    <2>4. PICK a : a = At OBVIOUS
    <2>5. /\ a = At' /\ a = Handled' /\ Shutdowns(a)' = Shutdowns(a) /\ Dispatched(a)'
          /\ (\E j \in 1 .. a : Initializes(j))' = (\E j \in 1 .. a : Initializes(j))
      BY <1>4, <1>d, <2>1, <2>2, <2>4
    <2>6. \A i \in 1 .. a : IsMessage(i)' BY <1>a, <1>d, <1>4, <2>4 DEF FlagsOK
    <2> QED BY <2>3, <2>4, <2>5, <2>6 DEF FlagsOK
  <1>5. CASE Notification
    <2>1. ~Initializes(At) /\ ~Carried(At) BY <1>5 DEF Notification, Initializes, Carried, Msg
    <2> QED BY <1>4, <1>5, <2>1 DEF Notification, AfterNotification, At
  <1>6. CASE Reject
    <2>1. ~Carried(At) BY <1>6, InTimeFacts DEF Reject
    <2>2. ~Initializes(At) BY <2>1 DEF Carried, Initializes, InTime, Requests
    <2> QED BY <1>4, <1>6, <2>1, <2>2 DEF Reject, At
  <1>7. CASE Fail \/ Handle
    <2>1. Carried(At) /\ Msg.hasId /\ Flags /\ IsMessage(At)
      BY <1>7, InTimeFacts DEF Fail, Handle
    <2>2. /\ m_initialized' <=> m_initialized \/ Initializes(At)
          /\ m_shutdown' <=> m_shutdown \/ (Carried(At) /\ script[At].method = "shutdown")
      BY <2>1 DEF Flags, Initializes, Msg
    <2>3. pc = "dispatch" /\ pc' \in {"read", "respond"} /\ At' = At
      BY <1>7 DEF Fail, Handle, At
    <2> QED BY <1>4, <2>2, <2>3
  <1>8. CASE Abort
    <2>1. pc = "dispatch" /\ Msg \in Message /\ Msg.ends = "asserts"
      BY <1>8, InTimeFacts DEF Abort
    <2>2. Msg.method \in {"feature", "sync"} BY <2>1 DEF Message
    <2>3. ~Initializes(At) /\ script[At].method # "shutdown" BY <2>2 DEF Initializes, Msg
    <2> QED BY <1>4, <1>8, <2>1, <2>3 DEF Abort, At
  <1>9. ASSUME pc # "dispatch", pc' # "dispatch", At' = At, m_initialized' = m_initialized,
               m_shutdown' = m_shutdown, pc = "dead" => pc' = "dead",
               pc' \in {"respond", "flush"} => pc \in {"respond", "flush"}
        PROVE  FlagsOK'
    <2>1. PICK a : a = At OBVIOUS
    <2>2. /\ a = At' /\ a = Handled' /\ a = Handled
          /\ Shutdowns(a)' = Shutdowns(a) /\ Dispatched(a)' = Dispatched(a)
          /\ (\E j \in 1 .. a : Initializes(j))' = (\E j \in 1 .. a : Initializes(j))
          /\ \A i \in 1 .. a : IsMessage(i)' = IsMessage(i)
      BY <1>9, <1>d, <2>1 DEF Handled
    <2> QED BY <1>a, <1>9, <2>1, <2>2 DEF FlagsOK
  <1>10. CASE EndOfStream \/ Respond \/ Flush
    BY <1>9, <1>10 DEF EndOfStream, Stop, Respond, Flush, At
  <1>11. CASE Ended \/ UNCHANGED vars
    <2>1. pc' = pc /\ At' = At /\ m_initialized' = m_initialized /\ m_shutdown' = m_shutdown
      BY <1>11 DEF Ended, vars, At
    <2>2. CASE pc # "dispatch" BY <1>9, <2>1, <2>2
    <2>3. CASE pc = "dispatch"
      <3>1. PICK a, h : a = At /\ h = Handled OBVIOUS
      <3>2. /\ a = At' /\ h = Handled' /\ Shutdowns(h)' = Shutdowns(h) /\ Dispatched(a)' = Dispatched(a)
            /\ (\E j \in 1 .. h : Initializes(j))' = (\E j \in 1 .. h : Initializes(j))
            /\ \A i \in 1 .. a : IsMessage(i)' = IsMessage(i)
        BY <1>d, <2>1, <3>1 DEF Handled
      <3> QED BY <1>a, <2>1, <3>1, <3>2 DEF FlagsOK
    <2> QED BY <2>2, <2>3
  <1> QED BY <1>1, <1>2, <1>3, <1>5, <1>6, <1>7, <1>8, <1>10, <1>11 DEF Next

\* Between two messages every one so far is settled.
LEMMA AllSettled ==
    ASSUME Accounts, pc = "read", NEW i \in 1 .. At
    PROVE  Settled(i)
  BY DEF Accounts, Past

\* A message that the server only reads on from asks for nothing.
LEMMA SkippedIsSettled ==
    ASSUME TypeOK, At \in Nat, NEW i, IsMessage(i), ~Dispatched(i), i = At + 1
    PROVE  Settled(i)
  <1>1. Expected(i) = {} /\ Due(i) = 0 /\ ~Kills(i)
    BY DEF Expected, Due, Runs, Kills, Mute, Garbled, IsMessage
  <1>2. \A W : OutputsOf(i, W) = {} BY OutputTags DEF OutputsOf
  <1>3. OutputsOf(i, Answers) = {} /\ OutputsOf(i, {"publish"}) = {} BY <1>2
  <1> QED BY <1>1, <1>3, FS_EmptySet DEF Settled, AnswerOK, PublishedFor

\* What a dispatched request is answered with, and what it queues.
LEMMA WhatIsDue ==
    ASSUME IInv, AInv, pc = "dispatch"
    PROVE  /\ ~Msg.hasId => Expected(At) = {} /\ Runs(At)
           /\ Reject => ~Runs(At) /\ Expected(At)
                  = {IF Msg.method \notin Requests THEN "notFound" ELSE "notInitialized"}
           /\ Fail => Due(At) = 0 /\ ~Kills(At) /\ Expected(At) = {"internalError"}
           /\ Handle => Runs(At) /\ Expected(At) = {"result"}
  <1>1. /\ Msg \in Message /\ Dispatched(At) /\ IsMessage(At)
        /\ InTime(At) <=> Initializes(At) \/ m_initialized
        /\ Msg.hasId => (Rejected <=> ~Carried(At))
    BY InTimeFacts
  <1>2. ~Msg.hasId => Expected(At) = {} /\ Runs(At)
    BY <1>1 DEF Expected, Runs, Msg
  <1>3. ASSUME Reject
        PROVE  ~Runs(At) /\ Expected(At)
                  = {IF Msg.method \notin Requests THEN "notFound" ELSE "notInitialized"}
    <2>1. Msg.hasId /\ ~Carried(At) BY <1>1, <1>3 DEF Reject
    <2>2. ~Runs(At) BY <2>1 DEF Runs, Msg
    <2>3. Msg.method \in Requests => ~InTime(At) BY <1>1, <2>1 DEF Carried, Msg
    <2> QED BY <1>1, <2>1, <2>2, <2>3 DEF Expected, Msg
  <1>4. ASSUME Fail PROVE Due(At) = 0 /\ ~Kills(At) /\ Expected(At) = {"internalError"}
    <2>1. Msg.hasId /\ Carried(At) /\ Msg.ends = "throws" BY <1>1, <1>4 DEF Fail
    <2>2. Msg.queues = <<>> /\ Msg.utf8 BY <1>1, <2>1 DEF Message
    <2>3. Due(At) = 0 /\ ~Kills(At)
      BY <1>1, <2>1, <2>2 DEF Due, Kills, Mute, Garbled, IsMessage, Msg
    <2> QED BY <1>1, <2>1, <2>3 DEF Expected, Carried, Msg
  <1>5. ASSUME Handle PROVE Runs(At) /\ Expected(At) = {"result"}
    <2>1. Msg.hasId /\ Carried(At) /\ Msg.ends = "returns" BY <1>1, <1>5 DEF Handle
    <2> QED BY <1>1, <2>1 DEF Runs, Expected, Carried, Msg
  <1> QED BY <1>2, <1>3, <1>4, <1>5

\* What a handler queued is in hand.
LEMMA QueuedInHand ==
    ASSUME IInv, AInv, pc = "dispatch", m_pending' = Queued, script' = script, At' = At,
           Runs(At), Msg.ends # "asserts"
    PROVE  InHand'
  <1>1. /\ Queued \in Seq(Pending) /\ Len(Queued) = Len(Msg.queues)
        /\ DOMAIN Msg.queues = 1 .. Len(Msg.queues)
        /\ \A i \in DOMAIN Queued : Queued[i] = [of |-> At, utf8 |-> Msg.queues[i]]
    BY InTimeFacts, QueuedType DEF IInv
  <1>2. DOMAIN Queued = DOMAIN Msg.queues BY <1>1, LenProperties
  <1>3. \A i \in DOMAIN Queued : Queued[i].utf8 = Msg.queues[i] BY <1>1
  <1>4. Msg' = Msg BY DEF Msg
  <1>5. Runs(At)'
    <2>1. PICK a : a = At OBVIOUS
    <2>2. a = At' /\ Runs(a)' BY <2>1, ScriptSame
    <2> QED BY <2>2 DEF Runs, Dispatched, Carried, Shutdowns, IsMessage, InTime, Initializes
  <1> QED BY <1>1, <1>2, <1>3, <1>4, <1>5 DEF InHand

\* What is sent of the queue: all of it, or what comes before the first that
\* is garbled.
LEMMA SentOfMine ==
    ASSUME TypeOK, InHand, Msg.utf8
    PROVE  /\ ~Mute(At) /\ Due(At) = Len(m_pending)
           /\ Garbled(At) = {} => Sent = Len(m_pending)
           /\ Garbled(At) # {} => Sent # Len(m_pending) /\ Sent = Min(Garbled(At)) - 1
  <1>1. /\ Len(m_pending) \in 0 .. 2 /\ DOMAIN m_pending = 1 .. Len(m_pending)
        /\ Sent \in 0 .. Len(m_pending) /\ \A i \in 1 .. Sent : m_pending[i].utf8
        /\ \A n \in 0 .. Len(m_pending) : (\A i \in 1 .. n : m_pending[i].utf8) => n <= Sent
    BY SentFacts
  <1>2. ~Mute(At) /\ Due(At) = Len(m_pending)
    BY DEF InHand, Mute, Due, Msg, Runs, Dispatched, IsMessage
  <1>3. Garbled(At) = {k \in 1 .. Len(m_pending) : ~m_pending[k].utf8}
    BY <1>1 DEF Garbled, InHand, Msg
  <1>4. CASE Garbled(At) = {}
    <2>1. \A i \in 1 .. Len(m_pending) : m_pending[i].utf8 BY <1>3, <1>4
    <2>2. Len(m_pending) <= Sent BY <1>1, <2>1
    <2>3. Sent = Len(m_pending)
      <3>1. PICK c, l : c = Sent /\ l = Len(m_pending) OBVIOUS
      <3>2. l \in 0 .. 2 /\ c \in 0 .. l /\ l <= c BY <1>1, <2>2, <3>1
      <3>3. c = l BY ONLY <3>2
      <3> QED BY <3>1, <3>3
    <2> QED BY <1>2, <1>4, <2>3
  <1>5. CASE Garbled(At) # {}
    <2>1. Garbled(At) \in SUBSET (0 .. 2) BY <1>1, <1>3
    <2>2. PICK m : m = Min(Garbled(At)) OBVIOUS
    <2>3. m \in Garbled(At) /\ \A k \in Garbled(At) : m <= k BY <1>5, <2>1, <2>2, Extremes
    <2>4. m \in 1 .. Len(m_pending) /\ ~m_pending[m].utf8 BY <1>3, <2>3
    <2>5. ~(m <= Sent) BY <1>1, <2>4
    <2>6. \A i \in 1 .. m - 1 : m_pending[i].utf8
      <3> SUFFICES ASSUME NEW i \in 1 .. m - 1, ~m_pending[i].utf8 PROVE FALSE OBVIOUS
      <3>1. i \in 1 .. Len(m_pending) /\ ~(m <= i) BY <1>1, <2>4
      <3> QED BY <1>3, <2>3, <3>1
    <2>7. m - 1 \in 0 .. Len(m_pending)
      <3>1. PICK l : l = Len(m_pending) OBVIOUS
      <3>2. l \in 0 .. 2 /\ m \in 1 .. l BY <1>1, <2>4, <3>1
      <3>3. m - 1 \in 0 .. l BY <3>2
      <3> QED BY <3>1, <3>3
    <2>8. m - 1 <= Sent BY <1>1, <2>6, <2>7
    <2>9. Sent = m - 1 /\ Sent # Len(m_pending)
      <3>1. PICK c, l : c = Sent /\ l = Len(m_pending) OBVIOUS
      <3>2. l \in 0 .. 2 /\ c \in 0 .. l /\ m \in 1 .. l /\ ~(m <= c) /\ m - 1 <= c
        BY <1>1, <2>4, <2>5, <2>8, <3>1
      <3>3. c = m - 1 /\ c # l BY ONLY <3>2
      <3> QED BY <3>1, <3>3
    <2> QED BY <1>2, <1>5, <2>2, <2>9
  <1> QED BY <1>2, <1>4, <1>5

\* A step that turns to no other message and leaves the earlier ones alone
\* keeps the accounts when it keeps those of its own message.
LEMMA OwnAccount ==
    ASSUME Accounts, At \in Nat, At' = At, pc \in {"dispatch", "respond", "flush"},
           pc' \in {"read", "respond", "flush", "dead"},
           \A i : i # At => (Settled(i)' <=> Settled(i)),
           pc' = "read" => Settled(At)',
           pc' \in {"respond", "flush"} => InHand',
           pc' = "respond" => (Expected(At) = {"result"})',
           pc' = "flush" => (Msg.utf8 /\ AnswerOK(At) /\ OutputsOf(At, {"publish"}) = {})',
           pc' = "dead" => Fatal'
    PROVE  Accounts'
  <1>1. PICK a : a = At OBVIOUS
  <1>2. ASSUME NEW i \in 1 .. a, i < a \/ pc' = "read" PROVE Settled(i)'
    <2>1. CASE i < a
      <3>1. i \in Past BY <1>1, <2>1 DEF Past
      <3> QED BY <1>1, <2>1, <3>1 DEF Accounts
    <2>2. CASE i = a /\ pc' = "read"
      <3>1. i = At' BY <1>1, <2>2
      <3> QED BY <2>2, <3>1
    <2> QED BY <1>1, <1>2, <2>1, <2>2
  <1>3. \A i \in Past' : i \in 1 .. a /\ (i < a \/ pc' = "read") BY <1>1 DEF Past
  <1>4. (\A i \in Past : Settled(i))' BY <1>2, <1>3
  <1> QED BY <1>4 DEF Accounts

\* The accounts, kept by every step.
LEMMA AccountsNext == ASSUME IInv, AInv, [Next]_vars PROVE Accounts'
  <1>a. TypeOK /\ Working /\ PendingIsMine /\ NotYetWritten /\ FlagsOK /\ Accounts
    BY DEF IInv, AInv
  <1>b. next \in Nat \ {0} /\ At \in Nat /\ Len(script) \in Nat /\ next = At + 1
    BY <1>a, ScriptType DEF TypeOK, At, IInv
  <1>c. script' = script
    BY DEF Next, Read, ReadThrows, EndOfStream, AwaitExit, Notification, Reject, Fail, Handle,
           Abort, Respond, Flush, Ended, vars
  <1>d. ASSUME out' = out, NEW i PROVE Settled(i)' <=> Settled(i)
    <2>1. \A W : OutputsOf(i, W)' = OutputsOf(i, W) BY <1>d DEF OutputsOf
    <2> QED BY <1>c, <1>d, <2>1, SettledSame
  <1>e. ASSUME pc \in {"respond", "flush"} PROVE At \in Nat \ {0} BY <1>a, <1>b, <1>e DEF Working
  <1> DEFINE Same(a) == /\ Due(a)' = Due(a) /\ Expected(a)' = Expected(a)
                        /\ Kills(a)' = Kills(a) /\ Mute(a)' = Mute(a) /\ Garbled(a)' = Garbled(a)
  <1>f. \A a : Same(a) BY <1>c, ScriptSame
  <1>1. CASE Read
    <2>1. At' = At + 1 /\ pc = "read" /\ pc' = "dispatch" /\ out' = out
      BY <1>1, <1>b DEF Read, At
    <2>2. PICK a : a = At + 1 OBVIOUS
    <2>3. \A i \in 1 .. a - 1 : Settled(i)' BY <1>a, <1>b, <1>d, <2>1, <2>2, AllSettled
    <2>4. Past' = 1 .. a - 1 BY <2>1, <2>2 DEF Past
    <2> QED BY <2>1, <2>3, <2>4 DEF Accounts
  <1>2. CASE AwaitExit
    <2>1. /\ At' = At + 1 /\ pc = "read" /\ pc' \in {"read", "done"} /\ out' = out /\ m_shutdown
          /\ IsMessage(At + 1)
      BY <1>2, <1>b, <1>a DEF AwaitExit, At, Some
    <2>2. PICK a : a = At + 1 OBVIOUS
    <2>3. ~Dispatched(a)
      <3>1. Handled = At /\ a - 1 = At BY <1>b, <2>1, <2>2 DEF Handled
      <3> QED BY <1>a, <2>1, <3>1 DEF FlagsOK, Dispatched
    <2>4. Settled(a) BY <1>a, <1>b, <2>1, <2>2, <2>3, SkippedIsSettled
    <2>5. \A i \in 1 .. a : Settled(i)' BY <1>a, <1>b, <1>d, <2>1, <2>2, <2>4, AllSettled
    <2>6. Past' = 1 .. a BY <2>1, <2>2 DEF Past
    <2> QED BY <2>1, <2>5, <2>6 DEF Accounts
  <1>3. CASE ReadThrows
    <2>1. At' = At + 1 /\ pc = "read" /\ pc' = "dead" /\ out' = out /\ script[At + 1] = Deadly
      BY <1>3, <1>b DEF ReadThrows, At
    <2>2. PICK a : a = At + 1 OBVIOUS
    <2>3. \A i \in 1 .. a - 1 : Settled(i)' BY <1>a, <1>b, <1>d, <2>1, <2>2, AllSettled
    <2>4. Past' = 1 .. a - 1 BY <2>1, <2>2 DEF Past
    <2>5. Mute(a)' /\ Kills(a)' BY <1>f, <2>1, <2>2 DEF Mute, Kills
    <2>6. \A W : OutputsOf(a, W)' = {}
      BY <1>a, <1>b, <2>1, <2>2, OutputTags DEF OutputsOf
    <2>7. Fatal'
      <3>1. a = At' BY <2>1, <2>2
      <3> QED BY <2>5, <2>6, <3>1 DEF Fatal
    <2> QED BY <2>1, <2>3, <2>4, <2>7 DEF Accounts
  <1>4. CASE Notification
    <2>1. /\ pc = "dispatch" /\ ~Msg.hasId /\ pc' = "flush" /\ At' = At /\ m_pending' = Queued
          /\ Msg.ends # "asserts"
      BY <1>4 DEF Notification, AfterNotification, At
    <2>2. At \in Nat \ {0} /\ Msg \in Message /\ \A W : OutputsOf(At, W) = {}
      BY <2>1, InTimeFacts
    <2>3. Expected(At) = {} /\ Runs(At) BY <2>1, WhatIsDue
    <2>4. InHand' BY <1>c, <2>1, <2>3, QueuedInHand
    <2>5. PICK a : a = At OBVIOUS
    <2>6. /\ OutputsOf(a, Answers)' = {} /\ OutputsOf(a, {"publish"})' = {}
          /\ \A i : i # a => (Settled(i)' <=> Settled(i))
      <3>1. CASE Msg.ends = "throws"
        <4>1. Write("log") BY <1>4, <3>1 DEF Notification
        <4>2. /\ \A n \in DOMAIN out : out'[n] = out[n]
              /\ \A i, W : OutputsOf(i, W)' = OutputsOf(i, W)
                     \cup (IF i = At /\ "log" \in W THEN {Len(out) + 1} ELSE {})
          BY <1>a, <4>1, Written
        <4>3. OutputsOf(a, Answers)' = {}
          BY <2>2, <2>5, <4>2 DEF Answers
        <4>4. OutputsOf(a, {"publish"})' = {} BY <2>2, <2>5, <4>2
        <4>5. ASSUME NEW i, i # a PROVE Settled(i)' <=> Settled(i)
          <5>1. \A W : OutputsOf(i, W)' = OutputsOf(i, W) BY <2>5, <4>2, <4>5
          <5> QED BY <1>c, <4>2, <5>1, SettledSame
        <4> QED BY <4>3, <4>4, <4>5
      <3>2. CASE Msg.ends # "throws"
        <4>1. out' = out BY <1>4, <3>2 DEF Notification
        <4>2. OutputsOf(a, Answers)' = {} /\ OutputsOf(a, {"publish"})' = {}
          BY <2>2, <2>5, <4>1 DEF OutputsOf, Answers
        <4> QED BY <1>d, <4>1, <4>2
      <3> QED BY <3>1, <3>2
    <2>7. Expected(a)' = {} BY <1>f, <2>3, <2>5
    <2>8. AnswerOK(a)' BY <2>6, <2>7 DEF AnswerOK
    <2>9. Msg'.utf8 BY <1>c, <2>1, <2>2 DEF Message, Msg
    <2>10. (Msg.utf8 /\ AnswerOK(At) /\ OutputsOf(At, {"publish"}) = {})'
      <3>1. a = At' BY <2>1, <2>5
      <3> QED BY <2>6, <2>8, <2>9, <3>1
    <2> QED BY <1>a, <1>b, <2>1, <2>4, <2>5, <2>6, <2>10, OwnAccount
  <1>5. ASSUME pc = "dispatch", pc' = "read", At' = At, Due(At) = 0, ~Kills(At),
               NEW w \in Answers, Write(w), Expected(At) = {w}
        PROVE  Accounts'
    <2>1. At \in Nat \ {0} /\ \A W : OutputsOf(At, W) = {} BY <1>5, InTimeFacts
    <2>2. /\ AnswerOK(At)' /\ OutputsOf(At, {"publish"})' = {}
          /\ \A i : i # At => (Settled(i)' <=> Settled(i))
      <3>1. OutputsOf(At, Answers) = {} /\ OutputsOf(At, {"publish"}) = {} BY <2>1
      <3> QED BY <1>a, <1>c, <1>5, <2>1, <3>1, AnswersIt
    <2>3. PICK a : a = At OBVIOUS
    <2>4. a = At' /\ Due(a)' = 0 /\ ~Kills(a)' BY <1>5, <1>f, <2>3
    <2>5. AnswerOK(a)' /\ OutputsOf(a, {"publish"})' = {} BY <2>2, <2>4
    <2>6. Settled(a)' BY <2>4, <2>5, FS_EmptySet DEF Settled, PublishedFor
    <2>7. Settled(At)' BY <2>4, <2>6
    <2> QED BY <1>a, <1>b, <1>5, <2>2, <2>7, OwnAccount
  <1>6. CASE Reject
    <2>1. PICK w : w = IF Msg.method \notin Requests THEN "notFound" ELSE "notInitialized" OBVIOUS
    <2>2. w \in Answers BY <2>1 DEF Answers
    <2>3. pc = "dispatch" /\ pc' = "read" /\ At' = At /\ Write(w) BY <1>6, <2>1 DEF Reject, At
    <2>4. ~Runs(At) /\ Expected(At) = {w} BY <1>6, <2>1, <2>3, WhatIsDue
    <2>5. Due(At) = 0 /\ ~Kills(At)
      <3>1. IsMessage(At) BY <2>3, InTimeFacts
      <3> QED BY <2>4, <3>1 DEF Due, Kills, Mute, Garbled, IsMessage
    <2> QED BY <1>5, <2>2, <2>3, <2>4, <2>5
  <1>7. CASE Fail
    <2>1. pc = "dispatch" /\ pc' = "read" /\ At' = At /\ Write("internalError")
      BY <1>7 DEF Fail, At
    <2>2. Due(At) = 0 /\ ~Kills(At) /\ Expected(At) = {"internalError"} BY <1>7, <2>1, WhatIsDue
    <2>3. "internalError" \in Answers BY DEF Answers
    <2> QED BY <1>5, <2>1, <2>2, <2>3
  <1>8. CASE Handle
    <2>1. /\ pc = "dispatch" /\ pc' = "respond" /\ At' = At /\ out' = out /\ m_pending' = Queued
          /\ Msg.ends # "asserts"
      BY <1>8 DEF Handle, At
    <2>2. Runs(At) /\ Expected(At) = {"result"} BY <1>8, <2>1, WhatIsDue
    <2>3. InHand' BY <1>c, <2>1, <2>2, QueuedInHand
    <2>4. PICK a : a = At OBVIOUS
    <2>5. a = At' /\ Expected(a)' = {"result"} BY <1>f, <2>1, <2>2, <2>4
    <2>6. (Expected(At) = {"result"})' BY <2>5
    <2>7. \A i : i # At => (Settled(i)' <=> Settled(i)) BY <1>d, <2>1
    <2> QED BY <1>a, <1>b, <2>1, <2>3, <2>6, <2>7, OwnAccount
  <1>9. CASE Abort
    <2>1. pc = "dispatch" /\ pc' = "dead" /\ At' = At /\ out' = out /\ Msg.ends = "asserts"
          /\ (Msg.hasId => ~Rejected)
      BY <1>9 DEF Abort, At
    <2>2. /\ Dispatched(At) /\ (Msg.hasId => Carried(At))
          /\ \A W : OutputsOf(At, W) = {}
      BY <2>1, InTimeFacts
    <2>3. Mute(At) /\ Kills(At) BY <2>1, <2>2 DEF Mute, Kills, Runs, Msg
    <2>4. PICK a : a = At OBVIOUS
    <2>5. a = At' /\ Mute(a)' /\ Kills(a)' BY <1>f, <2>1, <2>3, <2>4
    <2>6. \A W : OutputsOf(a, W)' = {} BY <2>1, <2>2, <2>4 DEF OutputsOf
    <2>7. Fatal' BY <2>5, <2>6 DEF Fatal
    <2>8. \A i : i # At => (Settled(i)' <=> Settled(i)) BY <1>d, <2>1
    <2> QED BY <1>a, <1>b, <2>1, <2>7, <2>8, OwnAccount
  <1>10. CASE Respond
    <2>1. pc = "respond" /\ At' = At /\ m_pending' = m_pending /\ Msg' = Msg
      BY <1>10, <1>c DEF Respond, At, Msg
    <2>2. At \in Nat \ {0} BY <1>e, <2>1
    <2>3. \A W : OutputsOf(At, W) = {} BY <1>a, <2>1, <2>2 DEF NotYetWritten, OutputsOf
    <2>4. Expected(At) = {"result"} /\ InHand BY <1>a, <2>1 DEF Accounts
    <2>5. PICK a : a = At OBVIOUS
    <2>6. CASE Msg.utf8
      <3>1. Write("result") /\ pc' = "flush" BY <1>10, <2>6 DEF Respond
      <3>2. /\ AnswerOK(At)' /\ OutputsOf(At, {"publish"})' = {}
            /\ \A i : i # At => (Settled(i)' <=> Settled(i))
        <4>1. "result" \in Answers BY DEF Answers
        <4>2. OutputsOf(At, Answers) = {} /\ OutputsOf(At, {"publish"}) = {} BY <2>3
        <4> QED BY <1>a, <1>c, <2>1, <2>2, <2>4, <3>1, <4>1, <4>2, AnswersIt
      <3>3. InHand'
        <4>1. a = At' /\ Runs(a)' = Runs(a) BY <1>c, <2>1, <2>5, ScriptSame
        <4> QED BY <2>1, <2>4, <2>5, <4>1 DEF InHand
      <3> QED BY <1>a, <1>b, <2>1, <2>6, <3>1, <3>2, <3>3, OwnAccount
    <2>7. CASE ~Msg.utf8
      <3>1. out' = out /\ pc' = "dead" BY <1>10, <2>7 DEF Respond
      <3>2. Mute(At) /\ Kills(At) BY <2>4, <2>7 DEF Mute, Kills, InHand, Msg
      <3>3. a = At' /\ Mute(a)' /\ Kills(a)' BY <1>f, <2>1, <2>5, <3>2
      <3>4. \A W : OutputsOf(a, W)' = {} BY <2>3, <2>5, <3>1 DEF OutputsOf
      <3>5. Fatal' BY <3>3, <3>4 DEF Fatal
      <3>6. \A i : i # At => (Settled(i)' <=> Settled(i)) BY <1>d, <3>1
      <3> QED BY <1>a, <1>b, <2>1, <3>1, <3>5, <3>6, OwnAccount
    <2> QED BY <2>6, <2>7
  <1>11. CASE Flush
    <2>1. /\ pc = "flush" /\ pc' = (IF Sent = Len(m_pending) THEN "read" ELSE "dead") /\ At' = At
          /\ out' = out \o [i \in 1 .. Sent |-> [of |-> m_pending[i].of, what |-> "publish"]]
      BY <1>11 DEF Flush, At
    <2>2. At \in Nat \ {0} /\ Sent \in 0 .. Len(m_pending) BY <1>a, <1>e, <2>1, SentFacts
    <2>3. /\ Len(out) \in Nat /\ \A n \in DOMAIN out : out'[n] = out[n]
          /\ \A i, W : OutputsOf(i, W)' = OutputsOf(i, W)
                 \cup (IF i = At /\ "publish" \in W THEN Len(out) + 1 .. Len(out) + Sent ELSE {})
      BY <1>a, <2>1, <2>2, FirstPublished
    <2>4. InHand /\ Msg.utf8 /\ AnswerOK(At) /\ OutputsOf(At, {"publish"}) = {}
      BY <1>a, <2>1 DEF Accounts
    <2>5. PICK a : a = At OBVIOUS
    <2>6. a = At' /\ Same(a) BY <1>f, <2>1, <2>5
    <2>7. OutputsOf(a, Answers)' = OutputsOf(a, Answers)
      <3>1. "publish" \notin Answers BY DEF Answers
      <3>2. PICK W : W = Answers OBVIOUS
      <3>3. OutputsOf(a, W)' = OutputsOf(a, W) BY <2>3, <3>1, <3>2
      <3>4. Answers' = Answers BY DEF Answers
      <3> QED BY <3>2, <3>3, <3>4 DEF OutputsOf
    <2>8. AnswerOK(a)'
      <3>1. \A n \in OutputsOf(a, Answers) : out'[n] = out[n] BY <2>3 DEF OutputsOf
      <3>2. AnswerOK(a) BY <2>4, <2>5
      <3> QED BY <2>6, <2>7, <3>1, <3>2 DEF AnswerOK
    <2>9. PublishedFor(a)' = Sent
      <3>1. PICK l, m, c : l = Len(out) + 1 /\ m = Len(out) + Sent /\ c = Sent OBVIOUS
      <3>2. OutputsOf(a, {"publish"})' = l .. m BY <2>3, <2>4, <2>5, <3>1
      <3>3. l \in Int /\ m \in Int /\ c \in Nat /\ m - l + 1 = c
        <4>1. Sent \in Nat /\ Len(out) \in Nat BY <1>a, <2>2, <2>3, SentFacts
        <4> QED BY <3>1, <4>1
      <3>4. Cardinality(l .. m) = IF l > m THEN 0 ELSE m - l + 1 BY <3>3, FS_Interval
      <3>5. Cardinality(l .. m) = c BY <3>3, <3>4
      <3> QED BY <3>1, <3>2, <3>5 DEF PublishedFor
    <2>10. /\ ~Mute(At) /\ Due(At) = Len(m_pending)
           /\ Garbled(At) = {} => Sent = Len(m_pending)
           /\ Garbled(At) # {} => Sent # Len(m_pending) /\ Sent = Min(Garbled(At)) - 1
      BY <1>a, <2>4, SentOfMine
    <2>11. ASSUME NEW i, i # At PROVE Settled(i)' <=> Settled(i)
      <3>1. \A W : OutputsOf(i, W)' = OutputsOf(i, W) BY <2>3, <2>11
      <3> QED BY <1>c, <2>3, <3>1, SettledSame
    <2>12. CASE Sent = Len(m_pending)
      <3>1. ~Kills(At) /\ pc' = "read" BY <2>1, <2>10, <2>12 DEF Kills
      <3>2. Settled(a)' BY <2>5, <2>6, <2>8, <2>9, <2>10, <2>12, <3>1 DEF Settled
      <3>3. Settled(At)' BY <2>6, <3>2
      <3> QED BY <1>a, <1>b, <2>1, <2>11, <3>1, <3>3, OwnAccount
    <2>13. CASE Sent # Len(m_pending)
      <3>1. Kills(At) /\ pc' = "dead" /\ Sent = Min(Garbled(At)) - 1
        BY <2>1, <2>10, <2>13 DEF Kills
      <3>2. /\ Kills(a)' /\ ~Mute(a)' /\ AnswerOK(a)' /\ PublishedFor(a)' = Min(Garbled(a)') - 1
        BY <2>5, <2>6, <2>8, <2>9, <2>10, <3>1
      <3>3. Fatal' BY <2>6, <3>2 DEF Fatal
      <3> QED BY <1>a, <1>b, <2>1, <2>11, <3>1, <3>3, OwnAccount
    <2> QED BY <2>12, <2>13
  <1>12. CASE EndOfStream
    <2>1. pc = "read" /\ pc' = "done" /\ At' = At /\ out' = out BY <1>12 DEF EndOfStream, Stop, At
    <2>2. PICK a : a = At OBVIOUS
    <2>3. \A i \in 1 .. a : Settled(i)' BY <1>a, <1>d, <2>1, <2>2, AllSettled
    <2>4. Past' = 1 .. a BY <2>1, <2>2 DEF Past
    <2> QED BY <2>1, <2>3, <2>4 DEF Accounts
  <1>13. CASE Ended \/ UNCHANGED vars
    <2>1. UNCHANGED vars BY <1>13 DEF Ended
    <2>2. PICK a : a = At OBVIOUS
    <2>3. a = At' /\ Same(a) /\ Runs(a)' = Runs(a) /\ Past' = Past
          /\ pc' = pc /\ out' = out /\ m_pending' = m_pending /\ Msg' = Msg
      BY <1>c, <1>f, <2>1, <2>2, ScriptSame DEF vars, At, Msg, Past
    <2>4. /\ AnswerOK(a)' <=> AnswerOK(a)
          /\ \A W : OutputsOf(a, W)' = OutputsOf(a, W)
          /\ PublishedFor(a)' = PublishedFor(a)
      BY <2>3 DEF AnswerOK, OutputsOf, Answers, PublishedFor
    <2>5. /\ \A i \in Past' : Settled(i)'
          /\ pc' \in {"respond", "flush"} => InHand'
          /\ pc' = "respond" => Expected(a)' = {"result"}
      BY <1>a, <1>d, <2>2, <2>3 DEF Accounts, InHand
    <2>6. pc' = "flush" => Msg'.utf8 /\ AnswerOK(a)' /\ OutputsOf(a, {"publish"})' = {}
      BY <1>a, <2>2, <2>3, <2>4 DEF Accounts
    <2>7. pc' = "dead" => Fatal'
      BY <1>a, <2>2, <2>3, <2>4 DEF Accounts, Fatal
    <2> QED BY <2>3, <2>5, <2>6, <2>7 DEF Accounts
  <1> QED BY <1>1, <1>2, <1>3, <1>4, <1>6, <1>7, <1>8, <1>9, <1>10, <1>11, <1>12, <1>13 DEF Next

\* The flags and the accounts hold in every state.
LEMMA AInductive == Spec => [](IInv /\ AInv)
  <1>1. Init => IInv /\ AInv BY InitIInv, AInit
  <1>2. IInv /\ AInv /\ [Next]_vars => IInv' /\ AInv'
    BY NextIInv, FlagsNext, AccountsNext DEF AInv
  <1> QED BY <1>1, <1>2, PTL DEF Spec

\* One answer, and an expected one.
LEMMA AnswersCount ==
    ASSUME NEW i, AnswerOK(i)
    PROVE  Answered(i)
  <1>1. Expected(i) = {} \/ \E w : Expected(i) = {w} BY DEF Expected
  <1>2. CASE Expected(i) = {} BY <1>2, FS_EmptySet DEF AnswerOK, Answered
  <1>3. CASE Expected(i) # {}
    <2>1. PICK w : Expected(i) = {w} BY <1>1, <1>3
    <2>2. PICK n : OutputsOf(i, Answers) = {n} /\ out[n].what \in Expected(i)
      BY <1>3 DEF AnswerOK
    <2>3. Cardinality(OutputsOf(i, Answers)) = 1 /\ Cardinality(Expected(i)) = 1
      BY <2>1, <2>2, FS_Singleton
    <2> QED BY <2>2, <2>3 DEF Answered
  <1> QED BY <1>2, <1>3

\* "Requests (have an id, need a response)" (registerHandlers): each request
\* that the server is done with has exactly one answer, the one that what came
\* before it calls for; nothing else is answered.  A request that the process
\* dies of is answered unless it is one of those it dies of first.
THEOREM EveryRequestAnswered == Spec => []AnsweredOnce
  <1>1. ASSUME IInv, AInv PROVE AnsweredOnce
    <2>1. \A i \in Past : Answered(i) BY <1>1, AnswersCount DEF AInv, Accounts, Settled
    <2>2. ASSUME pc = "dead"
          PROVE  IF Mute(At) THEN OutputsOf(At, Answers) = {} ELSE Answered(At)
      <3>1. Fatal BY <1>1, <2>2 DEF AInv, Accounts
      <3> QED BY <3>1, AnswersCount DEF Fatal
    <2> QED BY <2>1, <2>2 DEF AnsweredOnce
  <1> QED BY <1>1, AInductive, PTL

\* "Publish everything the workspace queued" (Server.h): each diagnostic that
\* a message made a handler queue is published once by the time the server is
\* done with it.  Of the message that the process dies of, those are published
\* that come before the garbled one; no other message's are lost.
THEOREM EverythingPublished == Spec => []Published
  <1>1. ASSUME IInv, AInv PROVE Published
    <2>1. \A i \in Past : PublishedFor(i) = Due(i) BY <1>1 DEF AInv, Accounts, Settled
    <2>2. ASSUME pc = "dead"
          PROVE  PublishedFor(At) = IF Mute(At) THEN 0 ELSE Min(Garbled(At)) - 1
      <3>1. Fatal BY <1>1, <2>2 DEF AInv, Accounts
      <3>2. CASE Mute(At) BY <3>1, <3>2, FS_EmptySet DEF Fatal, PublishedFor
      <3>3. CASE ~Mute(At) BY <3>1, <3>3 DEF Fatal
      <3> QED BY <3>2, <3>3
    <2> QED BY <2>1, <2>2 DEF Published
  <1> QED BY <1>1, AInductive, PTL

\* The exceptions that leave dispatch: whatever the script, the process dies of
\* a message that it cannot survive, never of another, and goes on from none.
THEOREM DiesOnlyOfThose == Spec => []DiesOf
  <1>1. ASSUME IInv, AInv PROVE DiesOf
    <2>1. \A i \in Past : ~Kills(i) BY <1>1 DEF AInv, Accounts, Settled
    <2>2. pc = "dead" => Kills(At) BY <1>1 DEF AInv, Accounts, Fatal
    <2> QED BY <2>1, <2>2 DEF DiesOf
  <1> QED BY <1>1, AInductive, PTL

=============================================================================
