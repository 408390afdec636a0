------------------------- MODULE StdioSessionProofs -------------------------
(***************************************************************************)
(* What is proved of an exchange with a stdio server, for any number of       *)
(* retries and any number of lines that the child writes unasked.             *)
(***************************************************************************)
EXTENDS StdioSession, SequenceTheorems, FiniteSetTheorems, TLAPS

-----------------------------------------------------------------------------
(* What appending to a sequence and taking its head and tail give.            *)
LEMMA Queues ==
  ASSUME NEW S, NEW s \in Seq(S), NEW x \in S
  PROVE /\ Append(s, x) \in Seq(S)
        /\ s # <<>> => Head(s) \in S /\ Tail(s) \in Seq(S)
  OBVIOUS

(* Appending to one message gives two.                                       *)
LEMMA AppendPair == ASSUME NEW x, NEW y PROVE Append(<<x>>, y) = <<x, y>>
<1>1. <<x>> \in Seq({x, y}) /\ <<x, y>> \in Seq({x, y}) /\ Append(<<x>>, y) \in Seq({x, y})
  OBVIOUS
<1>2. Len(Append(<<x>>, y)) = 2 /\ Append(<<x>>, y)[1] = x /\ Append(<<x>>, y)[2] = y
  OBVIOUS
<1>3. Len(<<x, y>>) = 2 /\ <<x, y>>[1] = x /\ <<x, y>>[2] = y
  OBVIOUS
<1>4. \A i \in 1..2 : Append(<<x>>, y)[i] = <<x, y>>[i]
  BY <1>2, <1>3
<1> QED
  BY <1>1, <1>2, <1>3, <1>4, SeqEqual

(* What is sent at each step is one of the messages of the protocol.          *)
LEMMA SendingTyped ==
  ASSUME TypeOK, pc \in {"send_init", "notify", "send_request"}
  PROVE  Sending[pc] \in Requests \cup {"initialized"}
  BY DEF TypeOK, Sending, Requests

-----------------------------------------------------------------------------
(* TypeOK.                                                                   *)

(* Where the exchange starts: at the spawn, or closed when the server is not    *)
(* one over stdio (Upstream).                                                *)
AtStart == Fresh /\ pc \in {"spawn", "closed"}

(* The types hold at the start.                                              *)
LEMMA StartTyped == AtStart => TypeOK
<1> SUFFICES ASSUME AtStart PROVE TypeOK
  OBVIOUS
<1>1. Unasked("notice") \in Messages
  BY DEF Unasked, Messages
<1>2. 0 \in 0..Retries
  BY RetriesAssumption
<1>3. <<>> \in Seq(Messages) /\ <<>> \in Seq(Requests \cup {"initialized"})
  OBVIOUS
<1>4. /\ method \in {"tools/list", "tools/call"} /\ pc \in Steps
      /\ attempt \in 0..Retries /\ orphans \in Nat /\ notices \in Nat
      /\ alive \in BOOLEAN /\ disturbed \in BOOLEAN
  BY <1>2 DEF AtStart, Fresh, Steps
<1>5. /\ stdin \in Seq(Requests \cup {"initialized"}) /\ stdout \in Seq(Messages)
      /\ sent \in Seq(Requests \cup {"initialized"}) /\ result \in Messages
      /\ outcome = "none"
  BY <1>1, <1>3 DEF AtStart, Fresh
<1> QED
  BY <1>4, <1>5 DEF TypeOK

(* Every step keeps the types.                                               *)
LEMMA NextTyped == TypeOK /\ [Next]_vars => TypeOK'
<1> SUFFICES ASSUME TypeOK, [Next]_vars PROVE TypeOK'
  OBVIOUS
<1> USE RetriesAssumption, SessionAssumption
<1>0. \A kind \in {"answer", "error", "notice", "junk"}, to \in Requests \cup {"none"} :
        [kind |-> kind, to |-> to] \in Messages
  BY DEF Messages
<1>1. CASE Spawn
  BY <1>1 DEF Spawn, TypeOK, Steps
<1>2. CASE Send
  <2>1. CASE UNCHANGED <<stdin, sent>> /\ Fail("broken_pipe")
    BY <1>2, <2>1 DEF Send, Fail, TypeOK, Steps
  <2>2. CASE /\ stdin' = Append(stdin, Sending[pc]) /\ sent' = Append(sent, Sending[pc])
             /\ pc' = Following[pc] /\ UNCHANGED outcome
    <3>1. Sending[pc] \in Requests \cup {"initialized"}
      BY <1>2, SendingTyped DEF Send
    <3>2. /\ stdin' \in Seq(Requests \cup {"initialized"})
          /\ sent' \in Seq(Requests \cup {"initialized"})
      BY <2>2, <3>1, Queues DEF TypeOK
    <3>3. pc' \in Steps
      BY <1>2, <2>2 DEF Send, Following, Steps
    <3> QED
      BY <1>2, <2>2, <3>2, <3>3 DEF Send, TypeOK
  <2> QED
    BY <1>2, <2>1, <2>2 DEF Send
<1>3. CASE SendLarge
  <2>1. /\ stdin' \in Seq(Requests \cup {"initialized"})
        /\ sent' \in Seq(Requests \cup {"initialized"})
    BY <1>3, Queues DEF SendLarge, TypeOK, Requests
  <2> QED
    BY <1>3, <2>1 DEF SendLarge, TypeOK, Steps
<1>4. CASE WriteEnds
  BY <1>4 DEF WriteEnds, Fail, child, TypeOK, Steps
<1>5. CASE Read
  BY <1>5 DEF Read, Fail, Waiting, TypeOK, Steps
<1>6. CASE Garble
  BY <1>6 DEF Garble, Fail, Waiting, TypeOK, Steps
<1>7. CASE TimesOut
  BY <1>7 DEF TimesOut, Fail, Waiting, Retried, child, TypeOK, Steps
<1>8. CASE Close
  BY <1>8 DEF Close, TypeOK, Steps
<1>9. CASE Steal
  BY <1>9 DEF Steal, TypeOK, Steps
<1>10. CASE ReadEnd
  BY <1>10 DEF ReadEnd, Fail, Waiting, child, TypeOK, Steps
<1>11. CASE Take
  <2>1. Head(stdin) \in Requests \cup {"initialized"} /\ Tail(stdin) \in Seq(Requests \cup {"initialized"})
    BY <1>11 DEF Take, TypeOK
  <2>2. stdout' \in Seq(Messages)
    <3>1. CASE UNCHANGED stdout
      BY <3>1 DEF TypeOK
    <3>2. ASSUME NEW kind \in {"answer", "error"}, Head(stdin) \in Requests,
                 stdout' = Append(stdout, [kind |-> kind, to |-> Head(stdin)])
          PROVE  stdout' \in Seq(Messages)
      <4>1. [kind |-> kind, to |-> Head(stdin)] \in Messages
        BY <3>2, <1>0
      <4> QED
        BY <3>2, <4>1, Queues DEF TypeOK
    <3> QED
      BY <1>11, <3>1, <3>2 DEF Take
  <2> QED
    BY <1>11, <2>1, <2>2 DEF Take, thread, TypeOK
<1>12. CASE Notice
  <2>1. \A kind \in {"notice", "junk"} : Append(stdout, Unasked(kind)) \in Seq(Messages)
    BY <1>0, Queues DEF Unasked, TypeOK
  <2>2. stdout' \in Seq(Messages)
    BY <1>12, <2>1 DEF Notice
  <2> QED
    BY <1>12, <2>2 DEF Notice, thread, TypeOK
<1>13. CASE Exit
  BY <1>13 DEF Exit, thread, TypeOK, Steps
<1>14. CASE UNCHANGED vars
  BY <1>14 DEF vars, child, thread, TypeOK, Steps
<1> QED
  BY <1>1, <1>2, <1>3, <1>4, <1>5, <1>6, <1>7, <1>8, <1>9, <1>10, <1>11, <1>12, <1>13, <1>14
  DEF Next, DaemonStep, ReaderStep

(* Every variable keeps its type.                                            *)
THEOREM Typing == Spec => []TypeOK
<1>1. Init => TypeOK
  BY StartTyped DEF Init, AtStart
<1> QED
  BY <1>1, NextTyped, PTL DEF Spec

-----------------------------------------------------------------------------
(* OwnAnswer.                                                                *)

(* While nothing disturbs the exchange, each pipe holds what belongs to the     *)
(* step that the daemon's thread is at: at most the request it waits for, or   *)
(* the answer to it.                                                         *)
Answering(m) == stdin = <<>> /\ (stdout = <<>> \/ \E r \in Messages : stdout = <<r>> /\ r.to = m)

InStep ==
  ~disturbed =>
    /\ orphans = 0
    /\ pc \in {"spawn", "send_init"} => stdin = <<>> /\ stdout = <<>>
    /\ pc = "wait_init" => (stdin = <<"initialize">> /\ stdout = <<>>) \/ Answering("initialize")
    /\ pc = "notify" => stdin = <<>> /\ stdout = <<>>
    /\ pc = "send_request" => stdin \in {<<>>, <<"initialized">>} /\ stdout = <<>>
    /\ pc \in {"writing", "wait_request"} =>
         \/ stdin \in {<<"initialized", method>>, <<method>>} /\ stdout = <<>>
         \/ Answering(method)

(* Every step keeps the exchange in step as long as nothing disturbs it: at  *)
(* most one request is under way, and what is on the pipe is its answer      *)
(* (stdio_mcp.py:123-139).                                                   *)
LEMMA NextInStep == TypeOK /\ InStep /\ [Next]_vars => InStep'
<1> SUFFICES ASSUME TypeOK, InStep, [Next]_vars PROVE InStep'
  OBVIOUS
<1>1. CASE Spawn
  BY <1>1 DEF Spawn, InStep, Answering, Requests, TypeOK, Steps
<1>2. CASE Send
  <2>1. CASE Fail("broken_pipe")
    BY <1>2, <2>1 DEF Send, Fail, InStep, Answering
  <2>2. CASE /\ stdin' = Append(stdin, Sending[pc]) /\ pc' = Following[pc]
    <3>1. CASE pc = "send_init"
      BY <1>2, <2>2, <3>1 DEF Send, Sending, Following, InStep, Answering
    <3>2. CASE pc = "notify"
      BY <1>2, <2>2, <3>2 DEF Send, Sending, Following, InStep, Answering
    <3>3. CASE pc = "send_request"
      <4>1. stdin' = Append(stdin, method) /\ pc' = "wait_request"
        BY <2>2, <3>3 DEF Sending, Following
      <4>2. ASSUME ~disturbed PROVE stdout = <<>> /\ orphans = 0
                                    /\ stdin' \in {<<"initialized", method>>, <<method>>}
        <5>1. CASE stdin = <<>>
          BY <3>3, <4>1, <4>2, <5>1 DEF InStep
        <5>2. CASE stdin = <<"initialized">>
          <6>1. Append(<<"initialized">>, method) = <<"initialized", method>>
            BY AppendPair DEF TypeOK
          <6> QED
            BY <3>3, <4>1, <4>2, <5>2, <6>1 DEF InStep
        <5> QED
          BY <3>3, <4>2, <5>1, <5>2 DEF InStep
      <4> QED
        BY <1>2, <4>1, <4>2 DEF Send, InStep
    <3> QED
      BY <1>2, <3>1, <3>2, <3>3 DEF Send
  <2> QED
    BY <1>2, <2>1, <2>2 DEF Send
<1>3. CASE SendLarge
  <2>1. ASSUME ~disturbed PROVE stdout = <<>> /\ orphans = 0
                                /\ stdin' \in {<<"initialized", method>>, <<method>>}
    <3>1. stdin \in {<<>>, <<"initialized">>} /\ stdout = <<>> /\ orphans = 0
      BY <1>3, <2>1 DEF SendLarge, InStep
    <3>2. Append(<<"initialized">>, method) = <<"initialized", method>>
      BY AppendPair
    <3>3. stdin' = Append(stdin, method)
      BY <1>3 DEF SendLarge
    <3>4. CASE stdin = <<>>
      BY <1>3, <3>1, <3>3, <3>4 DEF SendLarge
    <3>5. CASE stdin = <<"initialized">>
      BY <1>3, <3>1, <3>2, <3>3, <3>5 DEF SendLarge
    <3> QED
      BY <3>1, <3>4, <3>5
  <2> QED
    BY <1>3, <2>1 DEF SendLarge, InStep
<1>4. CASE WriteEnds
  BY <1>4 DEF WriteEnds, Fail, child, InStep, Answering
<1>5. CASE Read
  <2>1. ~disturbed /\ pc = "wait_init" => stdin = <<>> /\ stdout' = <<>>
    BY <1>5 DEF Read, InStep, Answering
  <2>2. /\ pc' \in {"closing", "notify"} /\ (pc' = "notify" => pc = "wait_init")
        /\ UNCHANGED <<method, orphans, stdin, disturbed>>
    BY <1>5 DEF Read, Fail, Waiting
  <2> QED
    BY <2>1, <2>2 DEF InStep
<1>6. CASE Garble
  BY <1>6 DEF Garble, Fail, Waiting, InStep, Answering, Requests, TypeOK, Steps
<1>7. CASE TimesOut
  BY <1>7 DEF TimesOut, Fail, Waiting, Retried, child, InStep, Answering, Requests, TypeOK, Steps
<1>8. CASE Close
  BY <1>8 DEF Close, InStep, Answering, Requests, TypeOK, Steps
<1>9. CASE Steal
  BY <1>9 DEF Steal, InStep, Answering, Requests, TypeOK, Steps
<1>10. CASE ReadEnd
  BY <1>10 DEF ReadEnd, Fail, Waiting, child, InStep, Answering, Requests, TypeOK, Steps
<1>11. CASE Take
  <2>0. \A m \in Requests : \A kind \in {"answer", "error"} : [kind |-> kind, to |-> m] \in Messages
    BY DEF Messages
  <2>1. stdin # <<>> /\ UNCHANGED <<pc, method, disturbed, orphans>>
    BY <1>11 DEF Take, thread
  <2>2. CASE ~disturbed /\ pc = "wait_init"
    <3>1. stdin = <<"initialize">> /\ stdout = <<>>
      BY <2>1, <2>2 DEF InStep, Answering
    <3>2. Answering("initialize")'
      BY <1>11, <2>0, <3>1 DEF Take, Answering, Requests
    <3> QED
      BY <2>1, <2>2, <3>2 DEF InStep
  <2>3. CASE ~disturbed /\ pc = "send_request"
    <3>1. stdin = <<"initialized">> /\ stdout = <<>>
      BY <2>1, <2>3 DEF InStep
    <3>2. Head(stdin) = "initialized" /\ Tail(stdin) = <<>>
      BY <3>1
    <3>3. stdin' = <<>> /\ stdout' = <<>>
      BY <1>11, <3>1, <3>2 DEF Take, Requests
    <3> QED
      BY <2>1, <2>3, <3>3 DEF InStep
  <2>4. CASE ~disturbed /\ pc \in {"writing", "wait_request"}
    <3>1. stdin \in {<<"initialized", method>>, <<method>>} /\ stdout = <<>>
      BY <2>1, <2>4 DEF InStep, Answering
    <3>2. CASE stdin = <<"initialized", method>>
      BY <1>11, <2>1, <2>4, <3>1, <3>2 DEF Take, InStep, Requests
    <3>3. CASE stdin = <<method>>
      <4>1. Answering(method)'
        BY <1>11, <2>0, <2>1, <3>1, <3>3 DEF Take, Answering, Requests
      <4> QED
        BY <2>1, <2>4, <4>1 DEF InStep
    <3> QED
      BY <3>1, <3>2, <3>3
  <2> QED
    BY <2>1, <2>2, <2>3, <2>4 DEF InStep
<1>12. CASE Notice
  BY <1>12 DEF Notice, thread, InStep, Answering, Requests, TypeOK, Steps
<1>13. CASE Exit
  BY <1>13 DEF Exit, thread, InStep, Answering, Requests, TypeOK, Steps
<1>14. CASE UNCHANGED vars
  BY <1>14 DEF vars, child, thread, InStep, Answering, Requests, TypeOK, Steps
<1> QED
  BY <1>1, <1>2, <1>3, <1>4, <1>5, <1>6, <1>7, <1>8, <1>9, <1>10, <1>11, <1>12, <1>13, <1>14
  DEF Next, DaemonStep, ReaderStep

(* Before anything is sent the exchange is in step.                           *)
LEMMA StartInStep == AtStart => InStep /\ OwnAnswer
  BY DEF AtStart, Fresh, InStep, OwnAnswer

(* Only reading the answer to the request decides OwnAnswer.                   *)
LEMMA NextOwnAnswer == TypeOK /\ InStep /\ OwnAnswer /\ [Next]_vars => OwnAnswer'
<1> SUFFICES ASSUME TypeOK, InStep, OwnAnswer, [Next]_vars PROVE OwnAnswer'
  OBVIOUS
<1>1. CASE Read
  BY <1>1 DEF Read, Fail, Waiting, InStep, Answering, OwnAnswer, TypeOK
<1>2. CASE Spawn \/ Send \/ SendLarge \/ WriteEnds \/ Garble \/ TimesOut \/ Close \/ ReaderStep
  BY <1>2 DEF Spawn, Send, SendLarge, WriteEnds, Garble, TimesOut, Close, ReaderStep, Steal, ReadEnd, Fail, Waiting,
              child, OwnAnswer, TypeOK
<1>3. CASE Take \/ Notice \/ Exit \/ UNCHANGED vars
  BY <1>3 DEF Take, Notice, Exit, vars, thread, OwnAnswer
<1> QED
  BY <1>1, <1>2, <1>3 DEF Next, DaemonStep

(* An undisturbed exchange hands over the answer to its own request.          *)
THEOREM AnswerIsOwn == Spec => []OwnAnswer
<1>1. Init => InStep /\ OwnAnswer
  BY StartInStep DEF Init, AtStart
<1> QED
  BY <1>1, Typing, NextInStep, NextOwnAnswer, PTL DEF Spec

-----------------------------------------------------------------------------
(* HandshakeKept.                                                            *)

Count(s, m) == Cardinality({i \in DOMAIN s : s[i] = m})

(* One more message is one more of its kind.                                  *)
LEMMA Counting ==
  ASSUME NEW S, NEW s \in Seq(S), NEW x \in S, NEW m
  PROVE  /\ Count(s, m) \in Nat
         /\ x = m => Count(Append(s, x), m) = Count(s, m) + 1
         /\ x # m => Count(Append(s, x), m) = Count(s, m)
<1> DEFINE old == {i \in DOMAIN s : s[i] = m}
           new == {i \in DOMAIN Append(s, x) : Append(s, x)[i] = m}
<1>1. IsFiniteSet(old)
  BY FS_Interval, FS_Subset
<1>2. DOMAIN Append(s, x) = 1..(Len(s) + 1) /\ DOMAIN s = 1..Len(s) /\ Len(s) \in Nat
  OBVIOUS
<1>3. /\ \A i \in 1..Len(s) : Append(s, x)[i] = s[i]
      /\ Append(s, x)[Len(s) + 1] = x
  OBVIOUS
<1>4. CASE x = m
  <2>1. new = old \cup {Len(s) + 1} /\ Len(s) + 1 \notin old
    BY <1>2, <1>3, <1>4
  <2> QED
    BY <1>1, <1>4, <2>1, FS_AddElement, FS_CardinalityType DEF Count
<1>5. CASE x # m
  <2>1. new = old
    BY <1>2, <1>3, <1>5
  <2> QED
    BY <1>1, <1>5, <2>1, FS_CardinalityType DEF Count
<1> QED
  BY <1>4, <1>5

(* How many have been sent at each step, which decides how many may follow.     *)
Early == {"spawn", "send_init", "wait_init", "notify"}

Counted ==
  /\ Times("initialize") <= Retries + 1
  /\ pc \in {"spawn", "send_init"} => Times("initialize") = attempt
  /\ pc = "wait_init" => Times("initialize") = attempt + 1
  /\ Times("initialized") <= 1
  /\ pc \in Early => Times("initialized") = 0 /\ Times(method) = 0
  /\ pc = "notify" => attempt = 0
  /\ Times(method) <= Retries + 1 /\ (method = "tools/call" => Times(method) <= 1)
  /\ \A m \in {"tools/list", "tools/call"} : m # method => Times(m) = 0
  /\ pc = "send_request" => Times(method) = attempt
  /\ pc \in {"writing", "wait_request"} => Times(method) = attempt + 1
  /\ pc \in {"send_request", "writing", "wait_request"} /\ method = "tools/call" => attempt = 0

(* In which order.                                                           *)
Ordered ==
  /\ sent # <<>> => sent[1] = "initialize"
  /\ pc \notin {"spawn", "send_init", "closing", "closed"} => sent # <<>>
  /\ pc \in {"send_request", "writing", "wait_request"} =>
       \E j \in DOMAIN sent : sent[j] = "initialized"
  /\ \A i \in DOMAIN sent : sent[i] = method => \E j \in 1..(i - 1) : sent[j] = "initialized"

(* Nothing has been sent at the start.                                       *)
LEMMA StartHandshake == AtStart => Counted /\ Ordered
<1> SUFFICES ASSUME AtStart PROVE Counted /\ Ordered
  OBVIOUS
<1>1. \A m : Times(m) = 0
  <2>1. \A m : {i \in DOMAIN sent : sent[i] = m} = {}
    BY DEF AtStart, Fresh
  <2> QED
    BY <2>1, FS_EmptySet DEF Times
<1>2. sent = <<>> /\ attempt = 0 /\ pc \in {"spawn", "closed"}
  BY DEF AtStart, Fresh
<1>3. Counted
  BY <1>1, <1>2, RetriesAssumption DEF Counted, Early
<1> QED
  BY <1>2, <1>3 DEF Ordered

(* A message is sent, at the step that sends it.                              *)
LEMMA SentCounted ==
  ASSUME TypeOK, Counted, NEW x \in Requests \cup {"initialized"}, sent' = Append(sent, x),
         UNCHANGED <<method, attempt>>,
         \/ pc = "send_init" /\ x = "initialize" /\ pc' = "wait_init"
         \/ pc = "notify" /\ x = "initialized" /\ pc' = "send_request"
         \/ pc = "send_request" /\ x = method /\ pc' \in {"writing", "wait_request"}
  PROVE  Counted'
<1>1. \A m : /\ Times(m) \in Nat
             /\ x = m => Times(m)' = Times(m) + 1
             /\ x # m => Times(m)' = Times(m)
  <2> TAKE m
  <2>1. sent \in Seq(Requests \cup {"initialized"})
    BY DEF TypeOK
  <2>2. Times(m) = Count(sent, m) /\ Times(m)' = Count(Append(sent, x), m)
    BY DEF Times, Count
  <2> QED
    BY <2>1, <2>2, Counting
<1>2. attempt \in 0..Retries /\ method \in {"tools/list", "tools/call"} /\ Retries \in Nat
  BY RetriesAssumption DEF TypeOK
<1> DEFINE A == Times("initialize")  B == Times("initialized")  C == Times(method)
<1>3. /\ A \in Nat /\ B \in Nat /\ C \in Nat
      /\ UNCHANGED method
  BY <1>1
<1>4. CASE pc = "send_init" /\ x = "initialize" /\ pc' = "wait_init"
  <2>1. A' = A + 1 /\ B' = B /\ C' = C
        /\ \A m \in {"tools/list", "tools/call"} : Times(m)' = Times(m)
    BY <1>1, <1>2, <1>4
  <2> QED
    BY <1>2, <1>3, <1>4, <2>1 DEF Counted, Early
<1>5. CASE pc = "notify" /\ x = "initialized" /\ pc' = "send_request"
  <2>1. A' = A /\ B' = B + 1 /\ C' = C
        /\ \A m \in {"tools/list", "tools/call"} : Times(m)' = Times(m)
    BY <1>1, <1>2, <1>5
  <2> QED
    BY <1>2, <1>3, <1>5, <2>1 DEF Counted, Early
<1>6. CASE pc = "send_request" /\ x = method /\ pc' \in {"writing", "wait_request"}
  <2>1. A' = A /\ B' = B /\ C' = C + 1
        /\ \A m \in {"tools/list", "tools/call"} : m # method => Times(m)' = Times(m)
    BY <1>1, <1>2, <1>6
  <2>2. C = attempt /\ (method = "tools/call" => attempt = 0)
    BY <1>6 DEF Counted
  <2> QED
    BY <1>2, <1>3, <1>6, <2>1, <2>2 DEF Counted, Early
<1> QED
  BY <1>4, <1>5, <1>6

(* The same for the order.                                                   *)
LEMMA SentOrdered ==
  ASSUME TypeOK, Ordered, NEW x \in Requests \cup {"initialized"}, sent' = Append(sent, x),
         UNCHANGED method,
         \/ pc = "send_init" /\ x = "initialize" /\ pc' = "wait_init"
         \/ pc = "notify" /\ x = "initialized" /\ pc' = "send_request"
         \/ pc = "send_request" /\ x = method /\ pc' \in {"writing", "wait_request"}
  PROVE  Ordered'
<1>1. /\ Len(sent) \in Nat /\ DOMAIN sent = 1..Len(sent)
      /\ DOMAIN sent' = 1..(Len(sent) + 1)
      /\ \A i \in 1..Len(sent) : sent'[i] = sent[i]
      /\ sent'[Len(sent) + 1] = x
      /\ sent' # <<>>
      /\ sent = <<>> <=> Len(sent) = 0
  BY DEF TypeOK
<1>2. sent'[1] = "initialize"
  BY <1>1 DEF Ordered
<1>3. pc' \in {"send_request", "writing", "wait_request"} =>
        \E j \in DOMAIN sent' : sent'[j] = "initialized"
  BY <1>1 DEF Ordered
<1>4. method \in {"tools/list", "tools/call"}
  BY DEF TypeOK
<1>5. ASSUME NEW i \in DOMAIN sent', sent'[i] = method
      PROVE  \E j \in 1..(i - 1) : sent'[j] = "initialized"
  <2>1. CASE i \in 1..Len(sent)
    <3>1. PICK j \in 1..(i - 1) : sent[j] = "initialized"
      BY <1>1, <1>5, <2>1 DEF Ordered
    <3>2. j \in 1..Len(sent)
      BY <1>1, <2>1
    <3> QED
      BY <1>1, <3>1, <3>2
  <2>2. CASE i = Len(sent) + 1
    <3>1. pc = "send_request"
      BY <1>1, <1>4, <1>5, <2>2
    <3>2. PICK j \in 1..Len(sent) : sent[j] = "initialized"
      BY <1>1, <3>1 DEF Ordered
    <3>3. j \in 1..(i - 1) /\ sent'[j] = "initialized"
      BY <1>1, <2>2, <3>2
    <3> QED
      BY <3>3
  <2> QED
    BY <1>1, <2>1, <2>2
<1> QED
  BY <1>1, <1>2, <1>3, <1>5 DEF Ordered

(* Every step keeps count and order.                                          *)
LEMMA NextHandshake == TypeOK /\ Counted /\ Ordered /\ [Next]_vars => Counted' /\ Ordered'
<1> SUFFICES ASSUME TypeOK, Counted, Ordered, [Next]_vars PROVE Counted' /\ Ordered'
  OBVIOUS
<1>0. attempt \in 0..Retries /\ method \in {"tools/list", "tools/call"} /\ Retries \in Nat
  BY RetriesAssumption DEF TypeOK
<1>1. ASSUME UNCHANGED sent PROVE \A m : Times(m)' = Times(m)
  BY <1>1 DEF Times
<1>2. CASE Send
  <2>1. CASE Fail("broken_pipe") /\ UNCHANGED sent
    BY <1>1, <1>2, <2>1 DEF Send, Fail, Counted, Early, Ordered
  <2>2. CASE sent' = Append(sent, Sending[pc]) /\ pc' = Following[pc]
    <3>1. Sending[pc] \in Requests \cup {"initialized"} /\ UNCHANGED <<method, attempt>>
      BY <1>2, SendingTyped DEF Send
    <3>2. \/ pc = "send_init" /\ Sending[pc] = "initialize" /\ pc' = "wait_init"
          \/ pc = "notify" /\ Sending[pc] = "initialized" /\ pc' = "send_request"
          \/ pc = "send_request" /\ Sending[pc] = method /\ pc' = "wait_request"
      BY <1>2, <2>2 DEF Send, Sending, Following
    <3> QED
      BY <2>2, <3>1, <3>2, SentCounted, SentOrdered
  <2> QED
    BY <1>2, <2>1, <2>2 DEF Send
<1>3. CASE SendLarge
  <2>1. /\ sent' = Append(sent, method) /\ pc = "send_request" /\ pc' = "writing"
        /\ UNCHANGED <<method, attempt>> /\ method \in Requests \cup {"initialized"}
    BY <1>0, <1>3 DEF SendLarge, Requests
  <2> QED
    BY <2>1, SentCounted, SentOrdered
<1>4. CASE Spawn
  BY <1>1, <1>4 DEF Spawn, Counted, Early, Ordered
<1>5. CASE WriteEnds
  BY <1>1, <1>5 DEF WriteEnds, Fail, child, Counted, Early, Ordered
<1>6. CASE Read
  <2>1. UNCHANGED <<sent, method>> /\ attempt' = 0
    BY <1>6 DEF Read
  <2>2. pc' = "closing" \/ (pc = "wait_init" /\ pc' = "notify")
    BY <1>6 DEF Read, Fail, Waiting
  <2> QED
    BY <1>1, <2>1, <2>2 DEF Counted, Early, Ordered
<1>7. CASE Garble
  BY <1>1, <1>7 DEF Garble, Fail, Waiting, Counted, Early, Ordered
<1>8. CASE TimesOut
  <2>0. UNCHANGED <<sent, method>>
    BY <1>8 DEF TimesOut
  <2>1. CASE Retried /\ attempt < Retries /\ attempt' = attempt + 1
             /\ pc' = IF pc = "wait_init" THEN "send_init" ELSE "send_request"
    <3>1. CASE pc = "wait_init"
      BY <1>0, <1>1, <2>0, <2>1, <3>1 DEF Counted, Early, Ordered
    <3>2. CASE pc = "wait_request"
      <4>1. method = "tools/list"
        BY <2>1, <3>2 DEF Retried
      <4> QED
        BY <1>0, <1>1, <2>0, <2>1, <3>2, <4>1 DEF Counted, Early, Ordered
    <3> QED
      BY <1>8, <3>1, <3>2 DEF TimesOut, Waiting
  <2>2. CASE Fail("timeout")
    BY <1>1, <2>0, <2>2 DEF Fail, Counted, Early, Ordered
  <2> QED
    BY <1>8, <2>1, <2>2 DEF TimesOut
<1>9. CASE Close
  BY <1>1, <1>9 DEF Close, Counted, Early, Ordered
<1>10. CASE ReaderStep
  BY <1>1, <1>10 DEF ReaderStep, Steal, ReadEnd, Fail, Waiting, child, Counted, Early, Ordered
<1>11. CASE Take \/ Notice \/ Exit \/ UNCHANGED vars
  <2>1. UNCHANGED <<pc, method, attempt, sent>>
    BY <1>11 DEF Take, Notice, Exit, vars, thread
  <2> QED
    BY <1>1, <2>1 DEF Counted, Early, Ordered
<1> QED
  BY <1>2, <1>3, <1>4, <1>5, <1>6, <1>7, <1>8, <1>9, <1>10, <1>11 DEF Next, DaemonStep

(* Count and order are what HandshakeKept asks for.                           *)
LEMMA HandshakeFollows == TypeOK /\ Counted /\ Ordered => HandshakeKept
<1> SUFFICES ASSUME TypeOK, Counted, Ordered PROVE HandshakeKept
  OBVIOUS
<1>1. Times("initialized") <= 1 /\ Times("initialize") <= Retries + 1
  BY DEF Counted
<1>2. Times("tools/call") <= 1 /\ Times("tools/list") <= Retries + 1
  BY RetriesAssumption DEF Counted, TypeOK
<1>3. \A i \in DOMAIN sent : sent[i] = "initialized" => sent[1] = "initialize"
  BY DEF Ordered, TypeOK
<1> QED
  BY <1>1, <1>2, <1>3 DEF HandshakeKept, Ordered

(* The handshake's order and the number of every request hold always, whatever *)
(* times out and whatever the child does.                                     *)
THEOREM HandshakeIsKept == Spec => []HandshakeKept
<1>1. Init => Counted /\ Ordered
  BY StartHandshake DEF Init, AtStart
<1> QED
  BY <1>1, Typing, NextHandshake, HandshakeFollows, PTL DEF Spec

-----------------------------------------------------------------------------
(* How long the daemon's thread can go on, and what it leaves behind.         *)

Requesting == {"send_request", "writing", "wait_request"}

(* The readers left behind are the timeouts of initialize and, from notify on,  *)
(* those of the request, which for a tools/call is sent once.                 *)
ReadersByPlace ==
  /\ pc \in {"spawn", "send_init", "wait_init"} => orphans <= attempt
  /\ pc = "notify" => orphans <= Retries /\ attempt = 0
  /\ pc \in Requesting => orphans <= Retries + attempt /\ (method = "tools/call" => attempt = 0)
  /\ pc \in {"closing", "closed"} => ReadersBounded

LEMMA NextReaders == TypeOK /\ TypeOK' /\ ReadersByPlace /\ [Next]_vars => ReadersByPlace'
<1> SUFFICES ASSUME TypeOK, TypeOK', ReadersByPlace, [Next]_vars PROVE ReadersByPlace'
  OBVIOUS
<1> USE DEF ReadersByPlace, ReadersBounded, Requesting
<1>0. /\ Retries \in Nat /\ attempt \in 0..Retries /\ orphans \in Nat /\ pc \in Steps
      /\ attempt' \in 0..Retries /\ orphans' \in Nat
  BY RetriesAssumption DEF TypeOK
<1>1. ASSUME UNCHANGED <<method, attempt>>, orphans' <= orphans,
             \/ pc' = pc
             \/ pc = "spawn" /\ pc' = "send_init"
             \/ pc = "send_init" /\ pc' = "wait_init"
             \/ pc = "notify" /\ pc' = "send_request"
             \/ pc \in Requesting /\ pc' \in Requesting
             \/ pc \in Steps /\ pc' \in {"closing", "closed"}
      PROVE  ReadersByPlace'
  BY <1>0, <1>1 DEF Steps
<1>2. CASE Spawn \/ SendLarge \/ Garble \/ Close
  <2>1. CASE Spawn
    BY <1>0, <1>1, <2>1 DEF Spawn
  <2>2. CASE SendLarge
    BY <1>0, <1>1, <2>2 DEF SendLarge
  <2>3. CASE Garble
    BY <1>0, <1>1, <2>3 DEF Garble, Fail
  <2>4. CASE Close
    BY <1>0, <1>1, <2>4 DEF Close
  <2> QED BY <1>2, <2>1, <2>2, <2>3, <2>4
<1>3. CASE Send
  BY <1>0, <1>1, <1>3 DEF Send, Fail, Following
<1>4. CASE WriteEnds \/ Steal \/ ReadEnd
  <2>1. CASE WriteEnds
    BY <1>0, <1>1, <2>1 DEF WriteEnds, Fail
  <2>2. CASE Steal
    BY <1>0, <1>1, <2>2 DEF Steal
  <2>3. CASE ReadEnd
    BY <1>0, <1>1, <2>3 DEF ReadEnd, Fail
  <2> QED BY <1>4, <2>1, <2>2, <2>3
<1>5. CASE Read
  <2>1. /\ UNCHANGED <<method, orphans>> /\ attempt' = 0
        /\ \/ pc = "wait_init" /\ pc' \in {"notify", "closing"}
           \/ pc = "wait_request" /\ pc' = "closing"
    BY <1>5 DEF Read, Fail, Waiting
  <2> QED BY <1>0, <2>1
<1>6. CASE TimesOut
  <2>1. /\ UNCHANGED method /\ orphans' = orphans + 1 /\ Waiting
        /\ \/ /\ Retried /\ attempt < Retries /\ attempt' = attempt + 1
              /\ pc' = IF pc = "wait_init" THEN "send_init" ELSE "send_request"
           \/ UNCHANGED attempt /\ pc' = "closing"
    BY <1>6 DEF TimesOut, Fail
  <2>2. CASE pc = "wait_init"
    <3>1. orphans <= attempt
      BY <2>2
    <3>2. CASE pc' = "send_init"
      BY <1>0, <2>1, <2>2, <3>1, <3>2
    <3>3. CASE pc' = "closing"
      BY <1>0, <2>1, <3>1, <3>3
    <3> QED BY <2>1, <2>2, <3>2, <3>3
  <2>3. CASE pc = "wait_request" /\ pc' = "closing"
    BY <1>0, <2>1, <2>3
  <2>4. CASE pc = "wait_request" /\ pc' # "closing"
    <3>1. method' = "tools/list" /\ attempt' = attempt + 1 /\ pc' = "send_request"
      BY <2>1, <2>4 DEF Retried
    <3> QED BY <1>0, <2>1, <2>4, <3>1
  <2> QED BY <2>1, <2>2, <2>3, <2>4 DEF Waiting
<1>7. CASE Take \/ Notice \/ Exit \/ UNCHANGED vars
  BY <1>7 DEF Take, Notice, Exit, vars, thread
<1> QED BY <1>2, <1>3, <1>4, <1>5, <1>6, <1>7 DEF Next, DaemonStep, ReaderStep

LEMMA ReadersFollow ==
  /\ AtStart => ReadersByPlace
  /\ TypeOK /\ ReadersByPlace => ReadersBounded
<1>1. AtStart => ReadersByPlace
  BY RetriesAssumption DEF AtStart, Fresh, ReadersByPlace, ReadersBounded, Requesting
<1>2. TypeOK /\ ReadersByPlace => ReadersBounded
  BY RetriesAssumption DEF TypeOK, Steps, ReadersByPlace, ReadersBounded, Requesting
<1> QED BY <1>1, <1>2

(* An exchange never has more reader threads waiting on its pipe than one for   *)
(* each retry and the last timeout: a server that hangs costs no more          *)
(* (stdio_mcp.py:92-110).                                                    *)
THEOREM ReadersAreBounded == Spec => []ReadersBounded
<1>1. Init => ReadersByPlace
  BY ReadersFollow DEF Init, AtStart
<1> QED
  BY <1>1, Typing, NextReaders, ReadersFollow, PTL DEF Spec

(* What StepsLeft says at each place.                                         *)
PlacesCounted ==
  /\ pc = "spawn" => StepsLeft = 5 * Retries + 8
  /\ pc = "send_init" => StepsLeft = 3 * Retries + 2 * (Retries - attempt) + 7
  /\ pc = "wait_init" => StepsLeft = 3 * Retries + 2 * (Retries - attempt) + 6
  /\ pc = "notify" => StepsLeft = 3 * Retries + 5
  /\ pc = "send_request" => StepsLeft = 3 * (Retries - attempt) + 4
  /\ pc = "writing" => StepsLeft = 3 * (Retries - attempt) + 3
  /\ pc = "wait_request" => StepsLeft = 3 * (Retries - attempt) + 2
  /\ pc = "closing" => StepsLeft = 1
  /\ pc = "closed" => StepsLeft = 0

LEMMA StepsAt == PlacesCounted /\ PlacesCounted'
  BY SMT DEF PlacesCounted, StepsLeft

(* Each step of the daemon's thread uses up steps.                            *)
LEMMA DaemonStepsCount ==
  ASSUME TypeOK, TypeOK', DaemonStep PROVE StepsLeft' < StepsLeft
<1> USE RetriesAssumption DEF PlacesCounted
<1>0. /\ Retries \in Nat /\ attempt \in 0..Retries /\ attempt' \in 0..Retries
      /\ PlacesCounted /\ PlacesCounted'
  BY StepsAt DEF TypeOK
<1>1. CASE Spawn \/ Close
  BY <1>0, <1>1 DEF Spawn, Close
<1>2. CASE Send
  <2>1. /\ pc \in {"send_init", "notify", "send_request"} /\ attempt' = attempt
        /\ pc' \in {Following[pc], "closing"}
    BY <1>2 DEF Send, Fail
  <2> QED BY <1>0, <2>1 DEF Following
<1>3. CASE SendLarge \/ WriteEnds
  BY <1>0, <1>3 DEF SendLarge, WriteEnds, Fail
<1>4. CASE Read \/ Garble
  BY <1>0, <1>4 DEF Read, Garble, Fail, Waiting
<1>5. CASE TimesOut
  BY <1>0, <1>5 DEF TimesOut, Fail, Waiting
<1> QED BY <1>1, <1>2, <1>3, <1>4, <1>5 DEF DaemonStep

(* Nothing else adds to them: the end of the pipe only ends the wait.          *)
LEMMA OthersDoNotCount ==
  ASSUME TypeOK, [Next]_vars, ~DaemonStep PROVE StepsLeft' <= StepsLeft
<1>0. /\ Retries \in Nat /\ attempt \in 0..Retries /\ PlacesCounted /\ PlacesCounted' /\ pc \in Steps
  BY RetriesAssumption, StepsAt DEF TypeOK
<1>1. ASSUME pc' = pc, attempt' = attempt PROVE StepsLeft' <= StepsLeft
  BY <1>0, <1>1 DEF PlacesCounted, Steps
<1>2. CASE ReadEnd
  <2>1. attempt' = attempt /\ (pc' = pc \/ (pc \in {"wait_init", "wait_request"} /\ pc' = "closing"))
    BY <1>2 DEF ReadEnd, Fail, Waiting, child
  <2> QED BY <1>0, <1>1, <2>1 DEF PlacesCounted
<1>3. CASE Steal \/ Take \/ Notice \/ Exit \/ UNCHANGED vars
  BY <1>1, <1>3 DEF Steal, Take, Notice, Exit, vars, thread
<1> QED BY <1>2, <1>3 DEF Next, ReaderStep
=============================================================================
