------------------------------- MODULE Policy -------------------------------
(***************************************************************************)
(* The pure decision functions of lmcp/policy.py.  Each takes a piece of    *)
(* configuration and what a caller supplied and returns a PolicyDecision.   *)
(* They read nothing else: which configuration object a request hands them  *)
(* is the business of module Gateway.                                       *)
(***************************************************************************)

CONSTANTS
  ClientIds,  \* names a client may present
  ServerIds,  \* names of upstream servers
  Tools,      \* tool names, without the "server." prefix
  Secrets,    \* the token values that occur, in the registry or in a request
  NoToken,    \* the empty or absent token, one of Secrets
  Rpms,       \* the rate limits a registry may carry
  NoRpm       \* rate_limit_rpm absent: None

ASSUME PolicyAssumption ==
  /\ NoToken \in Secrets
  /\ NoRpm \notin Rpms

-----------------------------------------------------------------------------
(* The configuration records the functions read (lmcp/config.py).           *)

Modes == {"deny_all", "allow_all", "allow_list", "other"}

ToolPolicy == [mode : Modes, allow_tools : SUBSET Tools, deny_tools : SUBSET Tools]

ClientConfig == [token : Secrets, allow_servers : SUBSET ServerIds,
                 rate_limit_rpm : Rpms \cup {NoRpm}]

PolicyDecision == [allowed : BOOLEAN, reason : STRING]

Allow == [allowed |-> TRUE, reason |-> "ok"]
Deny(reason) == [allowed |-> FALSE, reason |-> reason]

-----------------------------------------------------------------------------
(* `table` is a registry dictionary, a function whose domain is the set of  *)
(* keys it holds; registry.clients.get(id) is None outside that domain.     *)

AuthenticateClient(table, id, provided) ==
  IF id \notin DOMAIN table            THEN Deny("unknown_client")
  ELSE IF table[id].token = NoToken    THEN Deny("client_missing_token")
  ELSE IF provided = NoToken           THEN Deny("missing_token")
  ELSE IF table[id].token # provided   THEN Deny("invalid_token")
  ELSE Allow

AuthorizeServer(client, server) ==
  IF server \in client.allow_servers THEN Allow ELSE Deny("server_not_allowed")

AuthorizeTool(policy, tool) ==
  IF policy.mode = "deny_all" THEN Deny("tool_policy_deny_all")
  ELSE IF policy.mode = "allow_all"
       THEN IF tool \in policy.deny_tools THEN Deny("tool_denied") ELSE Allow
  ELSE IF policy.mode = "allow_list"
       THEN IF tool \in policy.allow_tools THEN Allow ELSE Deny("tool_not_in_allow_list")
  ELSE Deny("unknown_tool_policy_mode")

(* What the two decision chains come down to: the predicates the safety     *)
(* properties of the gateway are stated with.  Written from the meaning of  *)
(* the settings, not from the order of the early returns.                   *)
HoldsToken(table, id, provided) ==
  /\ id \in DOMAIN table
  /\ table[id].token = provided
  /\ provided # NoToken

Permits(policy, tool) ==
  \/ policy.mode = "allow_all"  /\ tool \notin policy.deny_tools
  \/ policy.mode = "allow_list" /\ tool \in policy.allow_tools
=============================================================================
