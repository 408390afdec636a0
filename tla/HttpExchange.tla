---------------------------- MODULE HttpExchange ----------------------------
(***************************************************************************)
(* One exchange with an http server (lmcp/http_mcp.py), as the daemon makes   *)
(* it for a tools/list or a tools/call: a request on a connection of its own, *)
(* and for tools/list another one after a timeout, on a new connection. The   *)
(* timeout is that of a single wait on the socket, never of the whole answer. *)
(* Only HttpMcpError is caught further up; any other exception leaves the     *)
(* client of the daemon without an answer.                                   *)
(*                                                                          *)
(* The server is external: it may act on a request at any time, answer, stop   *)
(* in the middle, drip, or break the connection. Redirects, which urllib       *)
(* follows with a request of another method, are left out; so is the backoff,  *)
(* which only waits.                                                         *)
(***************************************************************************)
EXTENDS UpstreamSettings

VARIABLES
  method,       \* what the daemon wants: "tools/list" or "tools/call"
  step,         \* where the daemon's thread is
  tries,        \* timeouts so far
  ending,       \* "none", "result", or how the exchange failed
  status,       \* what has come of the answer: "none", or the head of an
                \* answer that is "ok" or an "error"
  body,         \* what the rest of it was: "none" while it is not complete
  dripping,     \* the server sends so little that no wait ever times out
  delivered,    \* history: the tries whose request reached the server
  acted         \* history: the tries whose request the server carried out

answer == <<status, body>>
httpVars == <<method, step, tries, ending, answer, dripping, delivered, acted>>

(* What read() may end with: a JSON-RPC message, an event stream without one,  *)
(* JSON that is no object (or holds none where the caller looks for one), text *)
(* that is no JSON, or a connection that broke.                              *)
Bodies == {"message", "no_data", "odd", "junk", "broken"}

Fresh ==
  /\ method \in {"tools/list", "tools/call"}
  /\ tries = 0
  /\ ending = "none"
  /\ status = "none" /\ body = "none"
  /\ dripping = FALSE
  /\ delivered = {} /\ acted = {}

Init == Fresh /\ step = "connect"

-----------------------------------------------------------------------------
(* Mutant: a call is retried like a listing.                                 *)
Retried_Always == TRUE

(* Only http_tools_list goes through the helper that retries.                *)
Retried == method = "tools/list"

End(how) == ending' = how /\ step' = "closed"

(* urlopen: the connection stands and the request has been sent. A failure is  *)
(* a URLError and not retried, unless it is a timeout (TimesOut).             *)
Connect ==
  /\ step = "connect"
  /\ \/ /\ step' = "wait"
        /\ delivered' = delivered \cup {tries}
        /\ UNCHANGED ending
     \/ /\ End("failed")
        /\ UNCHANGED delivered
  /\ UNCHANGED <<method, tries, answer, dripping, acted>>

(* An answer that nobody can use and no handler catches.                      *)
Unusable == body = "broken" \/ (status = "ok" /\ body \in {"odd", "junk"})

(* The status of an error and an event stream without data raise HttpMcpError, *)
(* which the daemon reports.                                                 *)
Read ==
  /\ step = "wait" /\ body # "none"
  /\ \/ Unusable /\ End("raised")
     \/ ~Unusable /\ status = "ok" /\ body = "message" /\ End("result")
     \/ ~Unusable /\ (status = "error" \/ body = "no_data") /\ End("failed")
  /\ UNCHANGED <<method, tries, answer, dripping, delivered, acted>>

Again == Retried /\ tries < Retries

(* Mutant: a wait for the head of the answer raises what nobody catches.      *)
TimesOut_Uncaught ==
  /\ step = "connect" \/ (step = "wait" /\ body = "none" /\ ~dripping)
  /\ \/ step = "wait" /\ End("raised") /\ UNCHANGED tries
     \/ step = "connect" /\ Again /\ tries' = tries + 1 /\ UNCHANGED <<step, ending>>
     \/ step = "connect" /\ ~Again /\ End("failed") /\ UNCHANGED tries
  /\ UNCHANGED <<method, answer, dripping, delivered, acted>>

(* Mutant: only the wait for the connection times out.                       *)
TimesOut_ConnectOnly ==
  /\ step = "connect"
  /\ \/ Again /\ tries' = tries + 1 /\ UNCHANGED <<step, ending>>
     \/ ~Again /\ End("failed") /\ UNCHANGED tries
  /\ UNCHANGED <<method, answer, dripping, delivered, acted>>

(* Nothing came for as long as the timeout: while connecting or sending, or     *)
(* before the answer is complete. The next try has a new connection, on which   *)
(* nothing of the old one can arrive. In the body of an error, which is read   *)
(* outside the try block, it is a plain TimeoutError.                         *)
TimesOut ==
  /\ step = "connect" \/ (step = "wait" /\ body = "none" /\ ~dripping)
  /\ \/ status = "error" /\ End("raised") /\ UNCHANGED <<tries, answer>>
     \/ /\ status # "error" /\ Again
        /\ tries' = tries + 1
        /\ step' = "connect"
        /\ status' = "none" /\ body' = "none"
        /\ UNCHANGED ending
     \/ status # "error" /\ ~Again /\ End("failed") /\ UNCHANGED <<tries, answer>>
  /\ UNCHANGED <<method, dripping, delivered, acted>>

-----------------------------------------------------------------------------
(* The server.                                                              *)

(* It carries out a request it has been sent, once, and maybe long after the   *)
(* daemon has given up on it.                                                *)
Act ==
  /\ \E try \in delivered \ acted : acted' = acted \cup {try}
  /\ UNCHANGED <<method, step, tries, ending, answer, dripping, delivered>>

(* The head of an answer on the connection that is open.                      *)
Head ==
  /\ step = "wait" /\ status = "none" /\ body = "none"
  /\ \/ tries \in acted /\ status' = "ok"
     \/ status' = "error"
  /\ UNCHANGED <<method, step, tries, ending, body, dripping, delivered, acted>>

(* The rest of it; or the connection breaks.                                  *)
Finish ==
  /\ step = "wait" /\ body = "none"
  /\ body' \in IF status = "none" THEN {"broken"} ELSE Bodies
  /\ dripping' = FALSE
  /\ UNCHANGED <<method, step, tries, ending, status, delivered, acted>>

Drip ==
  /\ step = "wait" /\ body = "none"
  /\ dripping' = ~dripping
  /\ UNCHANGED <<method, step, tries, ending, answer, delivered, acted>>

ClientStep == Connect \/ Read \/ TimesOut

Next == ClientStep \/ Act \/ Head \/ Finish \/ Drip

(* The thread goes on when it can, and a wait with nothing coming ends at its   *)
(* timeout; of the server nothing is expected.                               *)
Spec == Init /\ [][Next]_httpVars /\ WF_httpVars(ClientStep)

-----------------------------------------------------------------------------
(* What every variable holds; a request is in flight on one connection.       *)
HttpTypeOK ==
  /\ method \in {"tools/list", "tools/call"}
  /\ step \in {"connect", "wait", "closed"}
  /\ tries \in 0..Retries
  /\ ending \in {"none", "result", "failed", "raised"}
  /\ status \in {"none", "ok", "error"} /\ body \in Bodies \cup {"none"}
  /\ dripping \in BOOLEAN
  /\ delivered \subseteq 0..tries /\ acted \subseteq delivered
  /\ step = "connect" => status = "none" /\ body = "none" /\ tries \notin delivered
  /\ step = "wait" => tries \in delivered
  /\ step = "closed" <=> ending # "none"

(* A tools/call is carried out at most once, a tools/list at most once for     *)
(* each try, whatever times out and however late the server acts              *)
(* (README.md:199-200; http_mcp.py:62-80, 105-117).                          *)
CarriedOutOnce ==
  /\ method = "tools/call" => acted \subseteq {0}
  /\ acted \subseteq 0..Retries

(* A server that is only slow or silent is reported to the caller as a         *)
(* failure: an exception leaves the caller without an answer only after the    *)
(* server has answered, with an error's head or to the end, or has broken the  *)
(* connection (http_mcp.py:51-60, daemon.py:303 and 714).                     *)
SilenceIsReported == ending = "raised" => body # "none" \/ status = "error"

(* How many steps the daemon's thread has left at most, two for each try.      *)
StepsLeft ==
  CASE step = "connect" -> 2 * (Retries - tries) + 2
    [] step = "wait"    -> 2 * (Retries - tries) + 1
    [] step = "closed"  -> 0

(* The exchange ends, unless the server sends a little again and again and     *)
(* never all of the answer: no timeout bounds the answer as a whole            *)
(* (http_mcp.py:44).                                                         *)
HttpEnds ==
  \/ <>[](step = "closed")
  \/ <>[](step = "wait" /\ body = "none") /\ []<>dripping
=============================================================================
