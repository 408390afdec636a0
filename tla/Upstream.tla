------------------------------ MODULE Upstream ------------------------------
(***************************************************************************)
(* The exchange that the daemon makes for one request (lmcp/daemon.py), over   *)
(* stdio or over http as the server's entry says: StdioSession or             *)
(* HttpExchange, the other one lying idle. A server of another transport is    *)
(* never asked.                                                              *)
(***************************************************************************)
EXTENDS StdioSession

VARIABLES
  transport,                                                  \* the server's
  step, tries, ending, status, body, dripping, delivered, acted   \* HttpExchange

Http == INSTANCE HttpExchange

httpPart == <<step, tries, ending, status, body, dripping, delivered, acted>>
stdioPart == <<thread, child, sent, disturbed>>
upstreamVars == <<transport, method, httpPart, stdioPart>>

UpstreamInit ==
  /\ \/ transport = "stdio" /\ pc = "spawn" /\ step = "closed"
     \/ transport = "http" /\ pc = "closed" /\ step = "connect"
  /\ Fresh /\ Http!Fresh

StdioStep == transport = "stdio" /\ Next /\ UNCHANGED <<transport, httpPart>>
HttpStep == transport = "http" /\ Http!Next /\ UNCHANGED <<transport, stdioPart>>

UpstreamNext == StdioStep \/ HttpStep

(* That of the two modules.                                                  *)
UpstreamSpec ==
  /\ UpstreamInit /\ [][UpstreamNext]_upstreamVars
  /\ WF_upstreamVars(StdioStep /\ DaemonStep)
  /\ WF_upstreamVars(StdioStep /\ ReaderStep)
  /\ WF_upstreamVars(HttpStep /\ Http!ClientStep)

-----------------------------------------------------------------------------
(* For whoever asked: how often the server was sent the request, and how the   *)
(* exchange ended. A listing that fails over stdio is [] whatever was raised;   *)
(* of the rest the daemon catches only the adapters' own exceptions.           *)
Asked ==
  IF transport = "http" THEN Cardinality(delivered) ELSE Times(method)

StdioEnding(uncaught) ==
  CASE outcome \in {"none", "result"} -> outcome
    [] outcome \in {"timeout", "protocol"} -> "failed"
    [] outcome \in {"spawn_failed", "broken_pipe"} -> uncaught

Ending ==
  IF transport = "http" THEN ending
  ELSE StdioEnding(IF method = "tools/list" THEN "failed" ELSE "raised")

Contract == INSTANCE UpstreamCall WITH asked <- Asked, ending <- Ending

(* Over either transport, retries, late answers, stolen and garbled ones        *)
(* included, an exchange is what UpstreamCall says: the server is asked within  *)
(* the retries, for a call once; there is no result without a request; and the *)
(* ending is one and final (daemon.py:284-334, 686-716).                      *)
KeepsContract == Contract!CallSpec

(* The steps that the daemon's thread has left in an exchange.                 *)
ThreadStep == (StdioStep /\ DaemonStep) \/ (HttpStep /\ Http!ClientStep)
StepsToGo == IF transport = "http" THEN Http!StepsLeft ELSE StepsLeft

(* Whatever the server does, each step of the daemon's thread uses up one of    *)
(* those left, of 2 R + 2 over http and 5 R + 8 over stdio with R retries, and  *)
(* nothing else adds to them: neither a late nor a stolen answer makes it ask   *)
(* again (stdio_mcp.py:87-139, http_mcp.py:51-80).                            *)
ExchangeRunsOut ==
  [][IF ThreadStep THEN StepsToGo' < StepsToGo ELSE StepsToGo' <= StepsToGo]_upstreamVars

(* HttpExchange's properties, of the exchanges over http: those over stdio      *)
(* leave its variables at rest.                                              *)
HttpTypeOK == transport = "http" => Http!HttpTypeOK
CarriedOutOnce == Http!CarriedOutOnce
SilenceIsReported == Http!SilenceIsReported
HttpEnds == Http!HttpEnds
=============================================================================
