---------------------------- MODULE UpstreamCall ----------------------------
(***************************************************************************)
(* What the gateway relies on when it takes a tools/list or a tools/call to   *)
(* an upstream server for one step: the server is asked a bounded number of    *)
(* times, for a call once, the exchange ends at most once, and it ends in one  *)
(* of three ways.                                                            *)
(***************************************************************************)
EXTENDS UpstreamSettings

VARIABLES
  transport, method,  \* over what the server is asked, and for what
  asked,              \* how often it has been
  ending              \* "none", "result", "failed" (reported to the caller, or
                      \* a listing without this server), "raised" (no answer)

callVars == <<transport, method, asked, ending>>

CallInit ==
  /\ transport \in {"stdio", "http"} /\ method \in {"tools/list", "tools/call"}
  /\ asked = 0
  /\ ending = "none"

Limit == IF method = "tools/call" THEN 1 ELSE Retries + 1

Ask ==
  /\ ending = "none" /\ asked < Limit
  /\ asked' = asked + 1
  /\ UNCHANGED <<transport, method, ending>>

(* A result needs a request; a listing over stdio catches every exception.     *)
Finish ==
  /\ ending = "none"
  /\ ending' \in {"result", "failed", "raised"}
  /\ ending' = "result" => asked > 0
  /\ ending' = "raised" => ~(transport = "stdio" /\ method = "tools/list")
  /\ UNCHANGED <<transport, method, asked>>

CallSpec == CallInit /\ [][Ask \/ Finish]_callVars
=============================================================================
