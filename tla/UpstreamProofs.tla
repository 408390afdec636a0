--------------------------- MODULE UpstreamProofs ---------------------------
(***************************************************************************)
(* What is proved of an exchange over either transport, for any number of      *)
(* retries: the invariants of both adapters, and that an exchange is what      *)
(* UpstreamCall says. Over stdio everything about the messages comes from      *)
(* StdioSessionProofs; a step over http leaves that side as it is.             *)
(***************************************************************************)
EXTENDS Upstream, StdioSessionProofs

-----------------------------------------------------------------------------
(* One side of an exchange is at rest.                                        *)
AtRest == transport = "stdio" => step = "closed" /\ ending = "none" /\ acted = {} /\ tries = 0

HttpInv == transport \in {"stdio", "http"} /\ AtRest /\ HttpTypeOK /\ SilenceIsReported

(* A step of an exchange is one of the session, or leaves the session alone.   *)
LEMMA SessionSide ==
  /\ UpstreamInit => AtStart
  /\ [UpstreamNext]_upstreamVars => [Next]_vars
<1>1. UpstreamInit => AtStart
  BY DEF UpstreamInit, AtStart
<1>2. HttpStep => UNCHANGED vars
  <2>1. Http!Next => UNCHANGED method
    BY DEF Http!Next, Http!ClientStep, Http!Connect, Http!Read, Http!TimesOut, Http!Act, Http!Head, Http!Finish, Http!Drip
  <2> QED
    BY <2>1 DEF HttpStep, stdioPart, vars
<1>3. UNCHANGED upstreamVars => UNCHANGED vars
  BY DEF upstreamVars, stdioPart, vars
<1> QED
  BY <1>1, <1>2, <1>3 DEF UpstreamNext, StdioStep

(* Every step of a request over http keeps its types.                         *)
LEMMA HttpNextTyped ==
  ASSUME Http!HttpTypeOK, Http!SilenceIsReported, [Http!Next]_(Http!httpVars)
  PROVE  Http!HttpTypeOK' /\ Http!SilenceIsReported'
<1> USE RetriesAssumption DEF Http!Bodies
<1> DEFINE Inv == Http!HttpTypeOK /\ Http!SilenceIsReported
<1>1. CASE Http!Connect
  <2>1. tries \in 0..tries
    BY DEF Http!HttpTypeOK
  <2>2. delivered' \subseteq 0..tries /\ acted \subseteq delivered'
    BY <1>1, <2>1 DEF Http!Connect, Http!HttpTypeOK
  <2>3. CASE Http!End("failed") /\ UNCHANGED delivered
    BY <1>1, <2>3 DEF Http!Connect, Http!End, Http!answer, Http!HttpTypeOK, Http!SilenceIsReported
  <2>4. CASE step' = "wait" /\ delivered' = delivered \cup {tries} /\ UNCHANGED ending
    BY <1>1, <2>2, <2>4 DEF Http!Connect, Http!answer, Http!HttpTypeOK, Http!SilenceIsReported
  <2> QED
    BY <1>1, <2>3, <2>4 DEF Http!Connect
<1>2. CASE Http!Read
  BY <1>2 DEF Http!Read, Http!Unusable, Http!End, Http!answer, Http!HttpTypeOK, Http!SilenceIsReported
<1>3. CASE Http!TimesOut
  BY <1>3 DEF Http!TimesOut, Http!Again, Http!Retried, Http!End, Http!answer, Http!HttpTypeOK, Http!SilenceIsReported
<1>4. CASE Http!Act
  BY <1>4 DEF Http!Act, Http!answer, Http!HttpTypeOK, Http!SilenceIsReported
<1>5. CASE Http!Head
  BY <1>5 DEF Http!Head, Http!HttpTypeOK, Http!SilenceIsReported
<1>6. CASE Http!Finish
  BY <1>6 DEF Http!Finish, Http!HttpTypeOK, Http!SilenceIsReported
<1>7. CASE Http!Drip
  BY <1>7 DEF Http!Drip, Http!answer, Http!HttpTypeOK, Http!SilenceIsReported
<1>8. CASE UNCHANGED Http!httpVars
  BY <1>8 DEF Http!httpVars, Http!answer, Http!HttpTypeOK, Http!SilenceIsReported
<1> QED
  BY <1>1, <1>2, <1>3, <1>4, <1>5, <1>6, <1>7, <1>8 DEF Http!Next, Http!ClientStep

(* HttpInv holds at the start and after every step.                           *)
LEMMA HttpInductive ==
  /\ UpstreamInit => HttpInv
  /\ HttpInv /\ [UpstreamNext]_upstreamVars => HttpInv'
<1>1. UpstreamInit => HttpInv
  <2> SUFFICES ASSUME UpstreamInit PROVE HttpInv
    OBVIOUS
  <2>1. ending = "none" /\ transport \in {"stdio", "http"} /\ AtRest
    BY DEF UpstreamInit, Http!Fresh, AtRest
  <2>2. ASSUME transport = "http" PROVE Http!HttpTypeOK
    <3>1. tries \in 0..Retries /\ 0 \in 0..tries
      BY RetriesAssumption DEF UpstreamInit, Http!Fresh
    <3> QED
      BY <2>2, <3>1 DEF UpstreamInit, Http!Fresh, Http!HttpTypeOK, Http!Bodies
  <2> QED
    BY <2>1, <2>2 DEF HttpInv, HttpTypeOK, SilenceIsReported, Http!SilenceIsReported
<1>2. ASSUME HttpInv, StdioStep \/ UNCHANGED upstreamVars PROVE HttpInv'
  <2>1. UNCHANGED <<transport, httpPart>> /\ (transport = "http" => UNCHANGED method)
    BY <1>2 DEF StdioStep, upstreamVars
  <2> QED
    BY <1>2, <2>1
    DEF httpPart, HttpInv, AtRest, HttpTypeOK, SilenceIsReported, Http!HttpTypeOK, Http!SilenceIsReported
<1>3. ASSUME HttpInv, HttpStep PROVE HttpInv'
  BY <1>3, HttpNextTyped DEF HttpStep, HttpInv, AtRest, HttpTypeOK, SilenceIsReported
<1> QED
  BY <1>1, <1>2, <1>3 DEF UpstreamNext

(* A request over http keeps its types and is in flight on one connection.      *)
THEOREM HttpTyping == UpstreamSpec => []HttpTypeOK
<1>1. HttpInv => HttpTypeOK
  BY DEF HttpInv
<1> QED
  BY <1>1, HttpInductive, PTL DEF UpstreamSpec

(* A server that is only slow or silent is reported to the caller, for any      *)
(* number of retries.                                                        *)
THEOREM SilenceReported == UpstreamSpec => []SilenceIsReported
<1>1. HttpInv => SilenceIsReported
  BY DEF HttpInv
<1> QED
  BY <1>1, HttpInductive, PTL DEF UpstreamSpec

-----------------------------------------------------------------------------
(* CarriedOutOnce.                                                           *)

(* A call is never tried again.                                              *)
Single == method = "tools/call" => tries = 0

(* That holds at the start and after every step.                              *)
LEMMA SingleInductive ==
  /\ UpstreamInit => Single
  /\ HttpInv /\ Single /\ [UpstreamNext]_upstreamVars => Single'
<1>1. UpstreamInit => Single
  BY DEF UpstreamInit, Http!Fresh, Single
<1>2. ASSUME HttpInv, Single, HttpStep PROVE Single'
  BY <1>2
  DEF HttpStep, Http!Next, Http!ClientStep, Http!Connect, Http!Read, Http!TimesOut, Http!Again, Http!Retried,
      Http!Act, Http!Head, Http!Finish, Http!Drip, Http!answer, Single
<1>3. ASSUME HttpInv, StdioStep \/ UNCHANGED upstreamVars, Single PROVE Single'
  <2>1. UNCHANGED httpPart
    BY <1>3 DEF StdioStep, upstreamVars
  <2>2. transport = "http" => UNCHANGED method
    BY <1>3 DEF StdioStep, upstreamVars
  <2> QED
    BY <1>3, <2>1, <2>2 DEF httpPart, HttpInv, AtRest, Single
<1> QED
  BY <1>1, <1>2, <1>3 DEF UpstreamNext

(* A call is carried out once at most and a listing once for each try, however  *)
(* late the server acts and however often the request timed out.               *)
THEOREM CarriedOutAtMostOnce == UpstreamSpec => []CarriedOutOnce
<1>1. HttpInv /\ Single => CarriedOutOnce
  BY RetriesAssumption DEF HttpInv, AtRest, HttpTypeOK, Http!HttpTypeOK, Single, CarriedOutOnce, Http!CarriedOutOnce
<1> QED
  BY <1>1, HttpInductive, SingleInductive, PTL DEF UpstreamSpec

-----------------------------------------------------------------------------
(* The session's invariants hold of every exchange: over http it lies idle.     *)
THEOREM SessionKept == UpstreamSpec => [](TypeOK /\ OwnAnswer /\ HandshakeKept /\ ReadersBounded)
<1> DEFINE Inv == TypeOK /\ InStep /\ OwnAnswer /\ Counted /\ Ordered /\ ReadersByPlace
<1>1. UpstreamInit => Inv
  BY SessionSide, StartTyped, StartInStep, StartHandshake, ReadersFollow
<1>2. Inv /\ [UpstreamNext]_upstreamVars => Inv'
  BY SessionSide, NextTyped, NextInStep, NextOwnAnswer, NextHandshake, NextReaders
<1>3. Inv => TypeOK /\ OwnAnswer /\ HandshakeKept /\ ReadersBounded
  BY HandshakeFollows, ReadersFollow
<1> QED
  BY <1>1, <1>2, <1>3, PTL DEF UpstreamSpec

-----------------------------------------------------------------------------
(* KeepsContract.                                                            *)

(* An exchange over stdio has an outcome only when it is being closed.         *)
Undecided == transport = "stdio" /\ pc \notin {"closing", "closed"} => outcome = "none"

(* So it is at the start and after every step.                                *)
LEMMA UndecidedInductive ==
  /\ UpstreamInit => Undecided
  /\ Undecided /\ [UpstreamNext]_upstreamVars => Undecided'
<1>1. UpstreamInit => Undecided
  BY DEF UpstreamInit, Fresh, Undecided
<1>2. ASSUME Undecided, StdioStep PROVE Undecided'
  <2>1. CASE DaemonStep
    BY <1>2, <2>1
    DEF StdioStep, DaemonStep, Spawn, Send, SendLarge, WriteEnds, Read, Garble, TimesOut, Close, Fail, Waiting, Undecided
  <2>2. CASE ReaderStep \/ Take \/ Notice \/ Exit
    BY <1>2, <2>2 DEF StdioStep, ReaderStep, Steal, ReadEnd, Take, Notice, Exit, Fail, thread, Undecided
  <2> QED
    BY <1>2, <2>1, <2>2 DEF StdioStep, Next
<1>3. ASSUME Undecided, HttpStep \/ UNCHANGED upstreamVars PROVE Undecided'
  BY <1>3 DEF HttpStep, upstreamVars, stdioPart, thread, Undecided
<1> QED
  BY <1>1, <1>2, <1>3 DEF UpstreamNext

(* What the refinement mapping makes of each side.                            *)
LEMMA Mapped ==
  /\ transport = "http" => Asked = Cardinality(delivered) /\ Ending = ending
  /\ transport # "http" =>
       /\ Asked = Times(method)
       /\ outcome = "none" => Ending = "none"
       /\ outcome = "result" => Ending = "result"
       /\ outcome \in {"timeout", "protocol"} => Ending = "failed"
       /\ outcome \in {"spawn_failed", "broken_pipe"} =>
            Ending = IF method = "tools/list" THEN "failed" ELSE "raised"
  BY DEF Asked, Ending, StdioEnding

(* A request over http: the one that is sent is an Ask, an ending a Finish.     *)
LEMMA HttpRefines ==
  ASSUME HttpInv, Single, HttpStep
  PROVE  [Contract!Ask \/ Contract!Finish]_(Contract!callVars)
<1>0. /\ transport = "http" /\ transport' = "http" /\ UNCHANGED method
      /\ Http!Next /\ Http!HttpTypeOK /\ Retries \in Nat
  BY RetriesAssumption
  DEF HttpStep, Http!Next, Http!ClientStep, Http!Connect, Http!Read, Http!TimesOut, Http!Act, Http!Head,
      Http!Finish, Http!Drip, HttpInv, HttpTypeOK
<1>1. /\ Asked = Cardinality(delivered) /\ Asked' = Cardinality(delivered)'
      /\ Ending = ending /\ Ending' = ending'
  BY <1>0, Mapped DEF Asked, Ending
<1>2. IsFiniteSet(delivered) /\ Cardinality(delivered) \in Nat
  <2>1. delivered \subseteq 0..tries /\ tries \in Nat
    BY <1>0 DEF Http!HttpTypeOK
  <2>2. IsFiniteSet(0..tries)
    BY <2>1, FS_Interval
  <2>3. IsFiniteSet(delivered)
    BY <2>1, <2>2, FS_Subset
  <2> QED
    BY <2>3, FS_CardinalityType
<1>3. CASE Http!Connect
  <2>1. CASE delivered' = delivered \cup {tries} /\ UNCHANGED ending
    <3>1. /\ tries \notin delivered /\ delivered \subseteq 0..(tries - 1) /\ tries \in 0..Retries
          /\ ending = "none"
      BY <1>0, <1>3 DEF Http!Connect, Http!HttpTypeOK
    <3>2. Cardinality(delivered) <= tries
      <4>1. IsFiniteSet(0..(tries - 1)) /\ Cardinality(0..(tries - 1)) = tries
        BY <1>0, <3>1, FS_Interval
      <4> QED
        BY <3>1, <4>1, FS_Subset
    <3>3. Cardinality(delivered)' = Cardinality(delivered) + 1
      BY <1>2, <2>1, <3>1, FS_AddElement
    <3>4. Asked < Contract!Limit
      BY <1>0, <1>1, <1>2, <3>1, <3>2 DEF Contract!Limit, Single, Http!HttpTypeOK
    <3> QED
      BY <1>0, <1>1, <2>1, <3>1, <3>3, <3>4 DEF Contract!Ask
  <2>2. CASE Http!End("failed") /\ UNCHANGED delivered
    BY <1>0, <1>1, <1>3, <2>2 DEF Http!Connect, Http!End, Http!HttpTypeOK, Contract!Finish
  <2> QED
    BY <1>3, <2>1, <2>2 DEF Http!Connect
<1>4. CASE Http!Read
  <2>1. /\ ending = "none" /\ UNCHANGED delivered /\ ending' \in {"result", "failed", "raised"}
        /\ tries \in delivered
    BY <1>0, <1>4 DEF Http!Read, Http!End, Http!HttpTypeOK
  <2>2. Cardinality(delivered) > 0
    BY <1>2, <2>1, FS_EmptySet
  <2> QED
    BY <1>0, <1>1, <2>1, <2>2 DEF Contract!Finish
<1>5. CASE Http!TimesOut
  <2>1. ending = "none" /\ UNCHANGED delivered /\ ending' \in {"none", "failed", "raised"}
    BY <1>0, <1>5 DEF Http!TimesOut, Http!End, Http!HttpTypeOK
  <2> QED
    BY <1>0, <1>1, <2>1 DEF Contract!Finish, Contract!callVars
<1>6. CASE Http!Act \/ Http!Head \/ Http!Finish \/ Http!Drip
  BY <1>0, <1>1, <1>6 DEF Http!Act, Http!Head, Http!Finish, Http!Drip, Contract!callVars
<1> QED
  BY <1>0, <1>3, <1>4, <1>5, <1>6 DEF Http!Next, Http!ClientStep

(* An exchange over stdio: sending the request is an Ask, failing or reading    *)
(* an answer a Finish, the rest of the session nothing.                       *)
LEMMA StdioRefines ==
  ASSUME TypeOK, Counted, Undecided, StdioStep
  PROVE  [Contract!Ask \/ Contract!Finish]_(Contract!callVars)
<1>0. /\ transport = "stdio" /\ transport' = "stdio" /\ Next /\ Retries \in Nat
      /\ method \in {"tools/list", "tools/call"} /\ attempt \in 0..Retries
  BY RetriesAssumption DEF StdioStep, TypeOK
<1>1. UNCHANGED method
  BY <1>0 DEF Next, DaemonStep, ReaderStep, Spawn, Send, SendLarge, WriteEnds, Read, Garble, TimesOut, Close, Steal,
              ReadEnd, Take, Notice, Exit
<1>2. /\ Asked = Times(method) /\ Asked' = Times(method)'
      /\ outcome = "none" => Ending = "none"
      /\ outcome' = "none" => Ending' = "none"
      /\ outcome' = "result" => Ending' = "result"
      /\ outcome' \in {"timeout", "protocol"} => Ending' = "failed"
      /\ outcome' \in {"spawn_failed", "broken_pipe"} =>
           Ending' = IF method = "tools/list" THEN "failed" ELSE "raised"
      /\ UNCHANGED outcome => UNCHANGED Ending
  <2>1. Asked = Times(method) /\ Asked' = Times(method)'
    BY <1>0 DEF Asked
  <2>2. outcome = "none" => Ending = "none"
    BY <1>0, Mapped
  <2>3. UNCHANGED outcome => UNCHANGED Ending
    BY <1>0, <1>1 DEF Ending, StdioEnding
  <2>4. /\ outcome' = "none" => Ending' = "none"
        /\ outcome' = "result" => Ending' = "result"
        /\ outcome' \in {"timeout", "protocol"} => Ending' = "failed"
    BY <1>0 DEF Ending, StdioEnding
  <2>5. outcome' \in {"spawn_failed", "broken_pipe"} =>
          Ending' = IF method = "tools/list" THEN "failed" ELSE "raised"
    BY <1>0, <1>1 DEF Ending, StdioEnding
  <2> QED
    BY <2>1, <2>2, <2>3, <2>4, <2>5
<1>3. ASSUME UNCHANGED <<sent, outcome>> PROVE UNCHANGED Contract!callVars
  BY <1>0, <1>1, <1>2, <1>3 DEF Times, Contract!callVars
<1>4. ASSUME UNCHANGED sent, outcome = "none", outcome' \in {"timeout", "protocol", "spawn_failed", "broken_pipe"}
      PROVE  Contract!Finish
  BY <1>0, <1>1, <1>2, <1>4 DEF Times, Contract!Finish
<1>5. ASSUME pc = "send_request", sent' = Append(sent, method), UNCHANGED outcome
      PROVE  Contract!Ask
  <2>1. Times(method) \in Nat /\ Times(method)' = Times(method) + 1
    <3>1. sent \in Seq(Requests \cup {"initialized"}) /\ method \in Requests \cup {"initialized"}
      BY <1>0 DEF TypeOK, Requests
    <3>2. Times(method) = Count(sent, method) /\ Times(method)' = Count(Append(sent, method), method)
      BY <1>1, <1>5 DEF Times, Count
    <3> QED
      BY <3>1, <3>2, Counting
  <2>2. Times(method) = attempt /\ (method = "tools/call" => attempt = 0) /\ outcome = "none"
    BY <1>0, <1>5 DEF Counted, Undecided
  <2>3. Times(method) < Contract!Limit
    BY <1>0, <2>2 DEF Contract!Limit
  <2> QED
    BY <1>0, <1>1, <1>2, <1>5, <2>1, <2>2, <2>3 DEF Contract!Ask
<1>6. ASSUME pc # "send_request", pc \in {"send_init", "notify"}, sent' = Append(sent, Sending[pc]), UNCHANGED outcome
      PROVE  UNCHANGED Contract!callVars
  <2>1. Sending[pc] \in Requests \cup {"initialized"} /\ Sending[pc] # method
    BY <1>0, <1>6 DEF Sending, Requests
  <2>2. Times(method) = Count(sent, method) /\ Times(method)' = Count(Append(sent, Sending[pc]), method)
    BY <1>1, <1>6 DEF Times, Count
  <2>3. UNCHANGED Times(method)
    BY <2>1, <2>2, Counting DEF TypeOK
  <2> QED
    BY <1>0, <1>1, <1>2, <1>6, <2>3 DEF Contract!callVars
<1>7. CASE Send
  <2>1. CASE sent' = Append(sent, Sending[pc]) /\ UNCHANGED outcome
    <3>1. CASE pc = "send_request"
      BY <1>5, <2>1, <3>1 DEF Sending
    <3>2. CASE pc # "send_request"
      BY <1>6, <1>7, <2>1, <3>2 DEF Send
    <3> QED
      BY <3>1, <3>2
  <2>2. CASE Fail("broken_pipe") /\ UNCHANGED sent
    BY <1>0, <1>4, <1>7, <2>2 DEF Send, Fail, Undecided
  <2> QED
    BY <1>7, <2>1, <2>2 DEF Send
<1>8. CASE SendLarge
  BY <1>5, <1>8 DEF SendLarge
<1>9. CASE Read
  <2>1. UNCHANGED sent /\ outcome = "none"
    BY <1>0, <1>9 DEF Read, Waiting, Undecided
  <2>2. CASE UNCHANGED outcome
    BY <1>3, <2>1, <2>2
  <2>3. CASE Fail("protocol")
    BY <1>4, <2>1, <2>3 DEF Fail
  <2>4. CASE pc = "wait_request" /\ outcome' = "result"
    <3>1. Times(method) = attempt + 1 /\ UNCHANGED Times(method)
      BY <1>1, <2>1, <2>4 DEF Counted, Times
    <3> QED
      BY <1>0, <1>1, <1>2, <2>1, <2>4, <3>1 DEF Contract!Finish
  <2> QED
    BY <1>9, <2>2, <2>3, <2>4 DEF Read
<1>10. CASE Spawn \/ WriteEnds \/ Garble \/ TimesOut
  <2>1. /\ UNCHANGED sent /\ outcome = "none"
        /\ outcome' \in {"none", "timeout", "protocol", "spawn_failed", "broken_pipe"}
    BY <1>0, <1>10 DEF Spawn, WriteEnds, Garble, TimesOut, Fail, Waiting, Undecided
  <2> QED
    BY <1>3, <1>4, <2>1
<1>11. CASE ReadEnd
  <2>1. UNCHANGED sent /\ (UNCHANGED outcome \/ (outcome = "none" /\ outcome' = "protocol"))
    BY <1>0, <1>11 DEF ReadEnd, Fail, Waiting, Undecided
  <2> QED
    BY <1>3, <1>4, <2>1
<1>12. CASE Close \/ Steal \/ Take \/ Notice \/ Exit
  BY <1>3, <1>12 DEF Close, Steal, Take, Notice, Exit, thread
<1> QED
  BY <1>0, <1>7, <1>8, <1>9, <1>10, <1>11, <1>12 DEF Next, DaemonStep, ReaderStep

(* Over either transport an exchange is what UpstreamCall says: asked within     *)
(* the retries, a call once, ended once, and with a result only if asked.      *)
THEOREM ExchangeKeepsContract == UpstreamSpec => KeepsContract
<1> DEFINE Inv == HttpInv /\ Single /\ Undecided /\ TypeOK /\ Counted /\ Ordered
<1>1. UpstreamInit => Inv
  BY HttpInductive, SingleInductive, UndecidedInductive, SessionSide, StartTyped, StartHandshake
<1>2. Inv /\ [UpstreamNext]_upstreamVars => Inv'
  BY HttpInductive, SingleInductive, UndecidedInductive, SessionSide, NextTyped, NextHandshake
<1>3. UpstreamInit => Contract!CallInit
  <2> SUFFICES ASSUME UpstreamInit PROVE Contract!CallInit
    OBVIOUS
  <2>1. transport \in {"stdio", "http"} /\ method \in {"tools/list", "tools/call"}
        /\ outcome = "none" /\ ending = "none" /\ sent = <<>> /\ delivered = {}
    BY DEF UpstreamInit, Fresh, Http!Fresh
  <2>2. Times(method) = 0
    <3>1. {i \in DOMAIN sent : sent[i] = method} = {}
      BY <2>1
    <3> QED
      BY <3>1, FS_EmptySet DEF Times
  <2>3. Cardinality(delivered) = 0
    BY <2>1, FS_EmptySet
  <2> QED
    BY <2>1, <2>2, <2>3, Mapped DEF Contract!CallInit
<1>4. Inv /\ [UpstreamNext]_upstreamVars => [Contract!Ask \/ Contract!Finish]_(Contract!callVars)
  <2>1. UNCHANGED upstreamVars => UNCHANGED Contract!callVars
    BY DEF upstreamVars, httpPart, stdioPart, thread, Asked, Ending, StdioEnding, Times, Contract!callVars
  <2> QED
    BY <2>1, HttpRefines, StdioRefines DEF UpstreamNext
<1> QED
  BY <1>1, <1>2, <1>3, <1>4, PTL DEF UpstreamSpec, KeepsContract, Contract!CallSpec

-----------------------------------------------------------------------------
(* ExchangeRunsOut.                                                          *)

(* The steps left of an exchange over http at each place.                     *)
HttpCounted ==
  /\ step = "connect" => Http!StepsLeft = 2 * (Retries - tries) + 2
  /\ step = "wait" => Http!StepsLeft = 2 * (Retries - tries) + 1
  /\ step = "closed" => Http!StepsLeft = 0

LEMMA HttpStepsAt == HttpCounted /\ HttpCounted'
  BY SMT DEF HttpCounted, Http!StepsLeft

(* Each step of the client uses up steps, and the server adds none.           *)
LEMMA HttpStepsCount ==
  ASSUME Http!HttpTypeOK, Http!HttpTypeOK', Http!Next
  PROVE  IF Http!ClientStep THEN Http!StepsLeft' < Http!StepsLeft ELSE Http!StepsLeft' <= Http!StepsLeft
<1> USE RetriesAssumption DEF HttpCounted
<1>0. /\ Retries \in Nat /\ tries \in 0..Retries /\ tries' \in 0..Retries
      /\ step \in {"connect", "wait", "closed"} /\ HttpCounted /\ HttpCounted'
  BY HttpStepsAt DEF Http!HttpTypeOK
<1>1. CASE Http!ClientStep
  BY <1>0, <1>1 DEF Http!ClientStep, Http!Connect, Http!Read, Http!TimesOut, Http!End
<1>2. CASE ~Http!ClientStep
  <2>1. step' = step /\ tries' = tries
    BY <1>2 DEF Http!Next, Http!Act, Http!Head, Http!Finish, Http!Drip
  <2> QED BY <1>0, <1>2, <2>1
<1> QED BY <1>1, <1>2

(* Whatever the server does and for any number of retries, the daemon's thread  *)
(* takes at most 5 R + 8 steps over stdio, 2 R + 2 over http, and only its own   *)
(* count. Each of them but two, the write of a large message and a wait that a   *)
(* dripping server keeps up, has a timeout: hence SessionEnds and HttpEnds      *)
(* (stdio_mcp.py:87-139, http_mcp.py:51-80).                                  *)
THEOREM ExchangesEnd == UpstreamSpec => ExchangeRunsOut
<1> DEFINE Inv == HttpInv /\ TypeOK
<1>1. UpstreamInit => Inv
  BY HttpInductive, SessionSide, StartTyped
<1>2. Inv /\ [UpstreamNext]_upstreamVars => Inv'
  BY HttpInductive, SessionSide, NextTyped
<1>3. Inv /\ Inv' /\ [UpstreamNext]_upstreamVars
      => [IF ThreadStep THEN StepsToGo' < StepsToGo ELSE StepsToGo' <= StepsToGo]_upstreamVars
  <2> SUFFICES ASSUME HttpInv, TypeOK, HttpInv', TypeOK', UpstreamNext
      PROVE  IF ThreadStep THEN StepsToGo' < StepsToGo ELSE StepsToGo' <= StepsToGo
    OBVIOUS
  <2>1. CASE StdioStep
    <3>1. transport = "stdio" /\ transport' = "stdio" /\ Next
      BY <2>1 DEF StdioStep
    <3>2. /\ StepsToGo = StepsLeft /\ StepsToGo' = StepsLeft'
          /\ ThreadStep <=> DaemonStep
      BY <2>1, <3>1 DEF StepsToGo, ThreadStep, HttpStep
    <3> QED BY <3>1, <3>2, DaemonStepsCount, OthersDoNotCount
  <2>2. CASE HttpStep
    <3>1. transport = "http" /\ transport' = "http" /\ Http!Next
      BY <2>2 DEF HttpStep
    <3>2. /\ StepsToGo = Http!StepsLeft /\ StepsToGo' = (Http!StepsLeft)'
          /\ ThreadStep <=> Http!ClientStep
      BY <2>2, <3>1 DEF StepsToGo, ThreadStep, StdioStep
    <3> QED BY <3>1, <3>2, HttpStepsCount DEF HttpInv, HttpTypeOK
  <2> QED BY <2>1, <2>2 DEF UpstreamNext
<1> QED BY <1>1, <1>2, <1>3, PTL DEF UpstreamSpec, ExchangeRunsOut
=============================================================================
