---------------------------- MODULE GatewayProofs ---------------------------
(***************************************************************************)
(* Proofs about module Gateway, for any number of handlers, operators,       *)
(* clients, servers and registries.                                          *)
(***************************************************************************)
EXTENDS Gateway, TLAPS

-----------------------------------------------------------------------------
(* What the decision functions come down to.                                *)

(* authenticate_client grants exactly the holder of the client's own,        *)
(* non-empty token (policy.py:16-25).                                        *)
LEMMA AuthenticateMeaning ==
  ASSUME NEW table, NEW id, NEW provided
  PROVE  AuthenticateClient(table, id, provided).allowed <=> HoldsToken(table, id, provided)
BY DEF AuthenticateClient, HoldsToken, Allow, Deny

(* authorize_tool grants what the mode permits, and an unknown mode permits  *)
(* nothing (policy.py:34-45).                                                *)
LEMMA AuthorizeToolMeaning ==
  ASSUME NEW policy, NEW tool
  PROVE  AuthorizeTool(policy, tool).allowed <=> Permits(policy, tool)
BY DEF AuthorizeTool, Permits, Allow, Deny

(* authorize_server says yes to exactly the servers of the client's list     *)
(* (policy.py:28-31).                                                        *)
LEMMA AuthorizeServerMeaning ==
  ASSUME NEW client, NEW s
  PROVE  AuthorizeServer(client, s).allowed <=> s \in client.allow_servers
BY DEF AuthorizeServer, Allow, Deny

-----------------------------------------------------------------------------
(* Types.                                                                   *)

(* Every client table a registry file carries is a table of clients.         *)
LEMMA ClientTablesTyped ==
  ASSUME NEW t \in ClientTables
  PROVE  /\ DOMAIN t \subseteq ClientIds
         /\ \A c \in DOMAIN t : t[c] \in ClientConfig
BY GatewayAssumption DEF ClientTables, Registry

(* Every server table a registry file carries is a table of servers.         *)
LEMMA ServerTablesTyped ==
  ASSUME NEW t \in ServerTables
  PROVE  /\ DOMAIN t \subseteq ServerIds
         /\ \A s \in DOMAIN t : t[s] \in ServerConfig
BY GatewayAssumption DEF ServerTables, Registry

(* The attributes of a loadable registry are among those that may become     *)
(* live.                                                                     *)
LEMMA ConfigsTyped ==
  ASSUME NEW cfg \in Configs
  PROVE  /\ cfg.clients \in ClientTables /\ cfg.servers \in ServerTables
         /\ cfg.rpm \in GlobalRpms
BY DEF ClientTables, ServerTables, GlobalRpms

(* A global limit is a limit or absent.                                      *)
LEMMA RpmsTyped == GlobalRpms \subseteq Rpms \cup {NoRpm}
BY GatewayAssumption DEF GlobalRpms, Registry

(* The facts the typing of single steps turns on.                            *)

(* What a thread reads in the live registry has the type of a client's or a  *)
(* server's entry.                                                           *)
LEMMA LiveTablesTyped ==
  ASSUME SharedTypeOK
  PROVE  /\ \A c \in DOMAIN clients : /\ c \in ClientIds
                                     /\ clients[c].allow_servers \in SUBSET ServerIds
                                     /\ clients[c].rate_limit_rpm \in Rpms \cup {NoRpm}
         /\ \A s \in DOMAIN servers : s \in ServerIds /\ servers[s] \in ServerConfig
<1>1. clients \in ClientTables /\ servers \in ServerTables
  BY DEF SharedTypeOK
<1>2. \A c \in DOMAIN clients : c \in ClientIds /\ clients[c] \in ClientConfig
  BY <1>1, ClientTablesTyped
<1>3. \A s \in DOMAIN servers : s \in ServerIds /\ servers[s] \in ServerConfig
  BY <1>1, ServerTablesTyped
<1> QED BY <1>2, <1>3 DEF ClientConfig

(* The two daemon decisions that are audited are Booleans.                   *)
LEMMA GrantsBoolean ==
  ASSUME NEW q
  PROVE  Authenticated(q) \in BOOLEAN /\ Authorized(q) \in BOOLEAN
<1>1. AuthenticateClient(clients, q.client_id, q.token).allowed \in BOOLEAN
  BY DEF AuthenticateClient, Allow, Deny
<1> QED BY <1>1 DEF Authenticated, Authorized

(* A record keeps the trail a set of audit events.                           *)
LEMMA AuditTyped ==
  ASSUME HistoryTypeOK, NEW h \in Handlers,
         NEW event \in {"client_auth", "server_auth", "rate_limited", "tool_authz"},
         NEW allowed \in BOOLEAN, Audit(h, event, allowed)
  PROVE  trail' \in [Handlers -> SUBSET AuditEvents]
<1>1. <<event, allowed>> \in AuditEvents
  BY DEF AuditEvents
<1> QED BY <1>1 DEF HistoryTypeOK, Audit

(* The daemon starts well typed.                                             *)
LEMMA InitTyped == Init => TypeOK
BY ConfigsTyped, GatewayAssumption
   DEF Init, TypeOK, SharedTypeOK, ThreadTypeOK, LocalsSet, ApplyTypeOK, HistoryTypeOK, Empty,
       Steps, Replies, ApplySteps

(* Every step of a handler or an operator keeps every variable's type, and   *)
(* reaches a place in the code only with the locals set that are used there. *)
LEMMA NextTyped == TypeOK /\ [Next]_vars => TypeOK'
<1> SUFFICES ASSUME TypeOK, [Next]_vars PROVE TypeOK'
  OBVIOUS
<1> USE ClientTablesTyped, ServerTablesTyped, ConfigsTyped, RpmsTyped, GatewayAssumption
    DEF TypeOK, SharedTypeOK, ThreadTypeOK, LocalsSet, ApplyTypeOK, HistoryTypeOK,
        registry, locals, apply, history, Goto, Answer, AuditRaises, Steps, Replies, ApplySteps
<1>1. ASSUME NEW h \in Handlers, NEW q \in Incoming, Accept(h, q) PROVE TypeOK'
  BY <1>1 DEF Accept
<1>2. ASSUME NEW h \in Handlers, Close(h) PROVE TypeOK'
  BY <1>2 DEF Close
<1>3. ASSUME NEW h \in Handlers, ProbeLimit(h) PROVE TypeOK'
  <2>1. SharedTypeOK'
    BY <1>3 DEF ProbeLimit
  <2>2. ThreadTypeOK'
    BY <1>3 DEF ProbeLimit
  <2>3. LocalsSet'
    BY <1>3 DEF ProbeLimit
  <2>4. ApplyTypeOK'
    BY <1>3 DEF ProbeLimit
  <2>5. HistoryTypeOK'
    BY <1>3 DEF ProbeLimit
  <2> QED BY <2>1, <2>2, <2>3, <2>4, <2>5
<1>4. ASSUME NEW h \in Handlers, Authenticate(h) PROVE TypeOK'
  <2>6. /\ UNCHANGED <<req, limit, todo, cur, srv, source, fetched, tools>>
        /\ \/ pc' = [pc EXCEPT ![h] = "replied"]
           \/ pc' = [pc EXCEPT ![h] = "authorize"]
           \/ pc' = [pc EXCEPT ![h] = "client_rpm"]
        /\ \/ reply' = reply
           \/ reply' = [reply EXCEPT ![h] = "unauthorized"]
           \/ reply' = [reply EXCEPT ![h] = "ok"]
           \/ reply' = [reply EXCEPT ![h] = "dropped"]
    BY <1>4 DEF Authenticate
  <2>1. SharedTypeOK'
    BY <1>4 DEF Authenticate, Authenticated, AuthenticateRecords, Audit, AuditEvents
  <2>2. ThreadTypeOK'
    BY <2>6
  <2>3. LocalsSet'
    BY <2>6, <1>4 DEF Authenticate
  <2>4. ApplyTypeOK'
    BY <1>4 DEF Authenticate, Authenticated, AuthenticateRecords, Audit, AuditEvents
  <2>5. HistoryTypeOK'
    BY <1>4, GrantsBoolean, AuditTyped DEF Authenticate, AuthenticateRecords
  <2> QED BY <2>1, <2>2, <2>3, <2>4, <2>5
<1>5. ASSUME NEW h \in Handlers, ReadClientRpm(h) PROVE TypeOK'
  <2>1. SharedTypeOK'
    BY <1>5 DEF ReadClientRpm, Dispatch, ClientConfig
  <2>2. ThreadTypeOK'
    BY <1>5, LiveTablesTyped DEF ReadClientRpm, Dispatch
  <2>3. LocalsSet'
    BY <1>5, LiveTablesTyped DEF ReadClientRpm, Dispatch
  <2>4. ApplyTypeOK'
    BY <1>5 DEF ReadClientRpm, Dispatch, ClientConfig
  <2>5. HistoryTypeOK'
    BY <1>5 DEF ReadClientRpm, Dispatch, ClientConfig
  <2> QED BY <2>1, <2>2, <2>3, <2>4, <2>5
<1>6. ASSUME NEW h \in Handlers, ReadGlobalRpm(h) PROVE TypeOK'
  BY <1>6 DEF ReadGlobalRpm, Dispatch
<1>7. ASSUME NEW h \in Handlers, TakeToken(h) PROVE TypeOK'
  <2>1. SharedTypeOK'
    BY <1>7 DEF TakeToken, MakeBucket, Put, Bucket
  <2>2. ThreadTypeOK'
    BY <1>7 DEF TakeToken, Dispatch
  <2>3. LocalsSet'
    <3>1. pc'[h] \in {"list_client", "authorize", "replied"}
      BY <1>7 DEF TakeToken, Dispatch
    <3>2. \A g \in Handlers : g # h => pc'[g] = pc[g]
      BY <1>7 DEF TakeToken, Dispatch
    <3> QED BY <1>7, <3>1, <3>2 DEF TakeToken
  <2>4. ApplyTypeOK'
    BY <1>7 DEF TakeToken, Dispatch
  <2>5. HistoryTypeOK'
    BY <1>7, AuditTyped DEF TakeToken
  <2> QED BY <2>1, <2>2, <2>3, <2>4, <2>5
<1>8. ASSUME NEW h \in Handlers, Authorize(h) PROVE TypeOK'
  <2>6. /\ UNCHANGED <<req, limit, todo, cur, srv, source, fetched, tools>>
        /\ \/ pc' = [pc EXCEPT ![h] = "replied"]
           \/ pc' = [pc EXCEPT ![h] = "route"]
        /\ \/ reply' = reply
           \/ reply' = [reply EXCEPT ![h] = "server_not_allowed"]
           \/ reply' = [reply EXCEPT ![h] = "ok"]
           \/ reply' = [reply EXCEPT ![h] = "dropped"]
    BY <1>8 DEF Authorize
  <2>1. SharedTypeOK'
    BY <1>8 DEF Authorize, Authorized, Audit, AuditEvents
  <2>2. ThreadTypeOK'
    BY <2>6
  <2>3. LocalsSet'
    BY <2>6, <1>8 DEF Authorize
  <2>4. ApplyTypeOK'
    BY <1>8 DEF Authorize, Authorized, Audit, AuditEvents
  <2>5. HistoryTypeOK'
    BY <1>8, GrantsBoolean, AuditTyped DEF Authorize
  <2> QED BY <2>1, <2>2, <2>3, <2>4, <2>5
<1>9. ASSUME NEW h \in Handlers, Route(h) PROVE TypeOK'
  <2>1. SharedTypeOK'
    BY <1>9 DEF Route, Audit, AuditEvents, Request
  <2>2. ThreadTypeOK'
    <3>1. CASE req[h].name.server \notin DOMAIN servers
      BY <1>9, <3>1 DEF Route
    <3>2. CASE req[h].name.server \in DOMAIN servers
      <4>1. servers[req[h].name.server] \in ServerConfig
        BY <3>2, LiveTablesTyped
      <4>2. srv' = [srv EXCEPT ![h] = servers[req[h].name.server]]
        BY <1>9, <3>2 DEF Route
      <4>3. pc' = [pc EXCEPT ![h] = "forward"] \/ pc' = [pc EXCEPT ![h] = "replied"]
        BY <1>9, <3>2 DEF Route
      <4>4. reply' = reply \/ reply' = [reply EXCEPT ![h] = "tool_denied"]
            \/ reply' = [reply EXCEPT ![h] = "dropped"]
        BY <1>9, <3>2 DEF Route
      <4> QED BY <1>9, <4>1, <4>2, <4>3, <4>4 DEF Route
    <3> QED BY <3>1, <3>2
  <2>3. LocalsSet'
    <3>1. CASE req[h].name.server \notin DOMAIN servers
      BY <1>9, <3>1 DEF Route
    <3>2. CASE req[h].name.server \in DOMAIN servers
      <4>1. servers[req[h].name.server] \in ServerConfig
        BY <3>2, LiveTablesTyped
      <4>2. srv' = [srv EXCEPT ![h] = servers[req[h].name.server]]
        BY <1>9, <3>2 DEF Route
      <4>3. pc' = [pc EXCEPT ![h] = "forward"] \/ pc' = [pc EXCEPT ![h] = "replied"]
        BY <1>9, <3>2 DEF Route
      <4>4. reply' = reply \/ reply' = [reply EXCEPT ![h] = "tool_denied"]
            \/ reply' = [reply EXCEPT ![h] = "dropped"]
        BY <1>9, <3>2 DEF Route
      <4> QED BY <1>9, <4>1, <4>2, <4>3, <4>4 DEF Route
    <3> QED BY <3>1, <3>2
  <2>4. ApplyTypeOK'
    BY <1>9 DEF Route, Audit, AuditEvents, Request
  <2>5. HistoryTypeOK'
    BY <1>9, AuditTyped DEF Route
  <2> QED BY <2>1, <2>2, <2>3, <2>4, <2>5
<1>10. ASSUME NEW h \in Handlers, Forward(h) PROVE TypeOK'
  <2>6. /\ UNCHANGED <<req, limit, todo, cur, srv, source, fetched, tools>>
        /\ \/ pc' = [pc EXCEPT ![h] = "replied"]
        /\ \/ reply' = reply
           \/ reply' = [reply EXCEPT ![h] = "unsupported_transport"]
           \/ reply' = [reply EXCEPT ![h] = "result"]
           \/ reply' = [reply EXCEPT ![h] = "tool_call_failed"]
           \/ reply' = [reply EXCEPT ![h] = "dropped"]
    BY <1>10 DEF Forward
  <2>1. SharedTypeOK'
    BY <1>10 DEF Forward
  <2>2. ThreadTypeOK'
    BY <2>6
  <2>3. LocalsSet'
    BY <2>6, <1>10 DEF Forward
  <2>4. ApplyTypeOK'
    BY <1>10 DEF Forward
  <2>5. HistoryTypeOK'
    BY <1>10 DEF Forward
  <2> QED BY <2>1, <2>2, <2>3, <2>4, <2>5
<1>11. ASSUME NEW h \in Handlers, ListClient(h) PROVE TypeOK'
  <2>1. SharedTypeOK'
    BY <1>11 DEF ListClient, ClientConfig
  <2>2. ThreadTypeOK'
    BY <1>11, LiveTablesTyped DEF ListClient
  <2>3. LocalsSet'
    BY <1>11 DEF ListClient, ClientConfig
  <2>4. ApplyTypeOK'
    BY <1>11 DEF ListClient, ClientConfig
  <2>5. HistoryTypeOK'
    BY <1>11 DEF ListClient, ClientConfig
  <2> QED BY <2>1, <2>2, <2>3, <2>4, <2>5
<1>12. ASSUME NEW h \in Handlers, ListDone(h) PROVE TypeOK'
  <2>1. SharedTypeOK'
    BY <1>12 DEF ListDone
  <2>2. ThreadTypeOK'
    BY <1>12 DEF ListDone
  <2>3. LocalsSet'
    BY <1>12 DEF ListDone
  <2>4. ApplyTypeOK'
    BY <1>12 DEF ListDone
  <2>5. HistoryTypeOK'
    BY <1>12 DEF ListDone
  <2> QED BY <2>1, <2>2, <2>3, <2>4, <2>5
<1>13. ASSUME NEW h \in Handlers, Collect(h) PROVE TypeOK'
  <2>1. SharedTypeOK'
    BY <1>13 DEF Collect
  <2>2. ThreadTypeOK'
    <3>1. CASE cur[h] \notin DOMAIN servers
      <4>1. pc' = [pc EXCEPT ![h] = "list_next"] /\ UNCHANGED <<reply, source>>
        BY <1>13, <3>1 DEF Collect
      <4>2. UNCHANGED <<req, limit, todo, cur, srv, fetched, tools>>
        BY <1>13 DEF Collect
      <4> QED BY <4>1, <4>2
    <3>2. CASE cur[h] \in DOMAIN servers
      <4>1. servers[cur[h]] \in ServerConfig
        BY <3>2, LiveTablesTyped
      <4>2. /\ pc' = [pc EXCEPT ![h] = "cache"] /\ reply' = reply
            /\ source' = [source EXCEPT ![h] = servers[cur[h]]]
        BY <1>13, <3>2 DEF Collect
      <4>3. UNCHANGED <<req, limit, todo, cur, srv, fetched, tools>>
        BY <1>13 DEF Collect
      <4> QED BY <4>1, <4>2, <4>3
    <3> QED BY <3>1, <3>2
  <2>3. LocalsSet'
    BY <1>13 DEF Collect
  <2>4. ApplyTypeOK'
    BY <1>13 DEF Collect
  <2>5. HistoryTypeOK'
    BY <1>13 DEF Collect
  <2> QED BY <2>1, <2>2, <2>3, <2>4, <2>5
<1>14. ASSUME NEW h \in Handlers, CacheHit(h) PROVE TypeOK'
  <2>1. SharedTypeOK'
    BY <1>14 DEF CacheHit, Show, AppendPermitted, CacheEntry
  <2>2. ThreadTypeOK'
    <3>1. cache[cur[h]].tools \subseteq Tools /\ cur[h] \in ServerIds
      BY <1>14 DEF CacheHit, CacheEntry
    <3>2. tools' \in [Handlers -> SUBSET (ServerIds \X Tools)]
      BY <1>14, <3>1 DEF CacheHit, Show, AppendPermitted
    <3> QED BY <1>14, <3>2 DEF CacheHit, Show
  <2>3. LocalsSet'
    BY <1>14 DEF CacheHit, Show, AppendPermitted, CacheEntry
  <2>4. ApplyTypeOK'
    BY <1>14 DEF CacheHit, Show, AppendPermitted, CacheEntry
  <2>5. HistoryTypeOK'
    BY <1>14 DEF CacheHit, Show, AppendPermitted, CacheEntry
  <2> QED BY <2>1, <2>2, <2>3, <2>4, <2>5
<1>15. ASSUME NEW h \in Handlers, CacheMiss(h) PROVE TypeOK'
  <2>1. SharedTypeOK'
    BY <1>15 DEF CacheMiss, Drop
  <2>2. ThreadTypeOK'
    BY <1>15 DEF CacheMiss, Drop
  <2>3. LocalsSet'
    BY <1>15 DEF CacheMiss, Drop
  <2>4. ApplyTypeOK'
    BY <1>15 DEF CacheMiss, Drop
  <2>5. HistoryTypeOK'
    BY <1>15 DEF CacheMiss, Drop
  <2> QED BY <2>1, <2>2, <2>3, <2>4, <2>5
<1>16. ASSUME NEW h \in Handlers, FetchSucceeds(h) PROVE TypeOK'
  <2>1. SharedTypeOK'
    BY <1>16 DEF FetchSucceeds, ServerConfig
  <2>2. ThreadTypeOK'
    BY <1>16 DEF FetchSucceeds, ServerConfig
  <2>3. LocalsSet'
    BY <1>16 DEF FetchSucceeds, ServerConfig
  <2>4. ApplyTypeOK'
    BY <1>16 DEF FetchSucceeds, ServerConfig
  <2>5. HistoryTypeOK'
    BY <1>16 DEF FetchSucceeds, ServerConfig
  <2> QED BY <2>1, <2>2, <2>3, <2>4, <2>5
<1>17. ASSUME NEW h \in Handlers, FetchFails(h) PROVE TypeOK'
  <2>1. SharedTypeOK'
    BY <1>17 DEF FetchFails
  <2>2. ThreadTypeOK'
    BY <1>17 DEF FetchFails
  <2>3. LocalsSet'
    BY <1>17 DEF FetchFails
  <2>4. ApplyTypeOK'
    BY <1>17 DEF FetchFails
  <2>5. HistoryTypeOK'
    BY <1>17 DEF FetchFails
  <2> QED BY <2>1, <2>2, <2>3, <2>4, <2>5
<1>18. ASSUME NEW h \in Handlers, FetchRaises(h) PROVE TypeOK'
  <2>1. SharedTypeOK'
    BY <1>18 DEF FetchRaises
  <2>2. ThreadTypeOK'
    BY <1>18 DEF FetchRaises
  <2>3. LocalsSet'
    BY <1>18 DEF FetchRaises
  <2>4. ApplyTypeOK'
    BY <1>18 DEF FetchRaises
  <2>5. HistoryTypeOK'
    BY <1>18 DEF FetchRaises
  <2> QED BY <2>1, <2>2, <2>3, <2>4, <2>5
<1>19. ASSUME NEW h \in Handlers, CacheStore(h) PROVE TypeOK'
  <2>1. SharedTypeOK'
    BY <1>19 DEF CacheStore, Show, AppendPermitted, Put, CacheEntry, ServerConfig
  <2>2. ThreadTypeOK'
    <3>1. fetched[h] \subseteq Tools /\ cur[h] \in ServerIds
      BY <1>19 DEF CacheStore, CacheEntry
    <3>2. tools' \in [Handlers -> SUBSET (ServerIds \X Tools)]
      BY <1>19, <3>1 DEF CacheStore, Show, AppendPermitted
    <3> QED BY <1>19, <3>2 DEF CacheStore, Show
  <2>3. LocalsSet'
    BY <1>19 DEF CacheStore, Show, AppendPermitted, Put, CacheEntry, ServerConfig
  <2>4. ApplyTypeOK'
    BY <1>19 DEF CacheStore, Show, AppendPermitted, Put, CacheEntry, ServerConfig
  <2>5. HistoryTypeOK'
    BY <1>19 DEF CacheStore, Show, AppendPermitted, Put, CacheEntry, ServerConfig
  <2> QED BY <2>1, <2>2, <2>3, <2>4, <2>5
<1>20. ASSUME NEW h \in Handlers, NEW s \in ServerIds, ListServer(h, s) PROVE TypeOK'
  <2>1. SharedTypeOK'
    BY <1>20 DEF ListServer
  <2>2. ThreadTypeOK'
    <3>0. todo' = [todo EXCEPT ![h] = @ \ {s}]
      BY <1>20 DEF ListServer
    <3>1. CASE s \notin DOMAIN servers
      <4>1. pc' = [pc EXCEPT ![h] = "list_next"] /\ UNCHANGED <<reply, cur, srv>>
        BY <1>20, <3>1 DEF ListServer
      <4>2. UNCHANGED <<req, limit, source, fetched, tools>>
        BY <1>20 DEF ListServer
      <4> QED BY <3>0, <4>1, <4>2
    <3>2. CASE s \in DOMAIN servers
      <4>1. servers[s] \in ServerConfig
        BY <3>2, LiveTablesTyped
      <4>2. /\ pc' = [pc EXCEPT ![h] = "collect"] /\ reply' = reply
            /\ cur' = [cur EXCEPT ![h] = s] /\ srv' = [srv EXCEPT ![h] = servers[s]]
        BY <1>20, <3>2 DEF ListServer
      <4>3. UNCHANGED <<req, limit, source, fetched, tools>>
        BY <1>20 DEF ListServer
      <4> QED BY <1>20, <3>0, <4>1, <4>2, <4>3
    <3> QED BY <3>1, <3>2
  <2>3. LocalsSet'
    BY <1>20 DEF ListServer
  <2>4. ApplyTypeOK'
    BY <1>20 DEF ListServer
  <2>5. HistoryTypeOK'
    BY <1>20 DEF ListServer
  <2> QED BY <2>1, <2>2, <2>3, <2>4, <2>5
<1>21. ASSUME NEW o \in Operators, NEW cfg \in Configs, BeginApply(o, cfg) PROVE TypeOK'
  <2>1. SharedTypeOK'
    BY <1>21 DEF BeginApply, TakeWriteLock, ApplyStep, unchangedByApply
  <2>2. ThreadTypeOK'
    BY <1>21 DEF BeginApply, TakeWriteLock, ApplyStep, unchangedByApply
  <2>3. LocalsSet'
    BY <1>21 DEF BeginApply, TakeWriteLock, ApplyStep, unchangedByApply
  <2>4. ApplyTypeOK'
    BY <1>21 DEF BeginApply, TakeWriteLock, ApplyStep, unchangedByApply
  <2>5. HistoryTypeOK'
    BY <1>21 DEF BeginApply, TakeWriteLock, ApplyStep, unchangedByApply
  <2> QED BY <2>1, <2>2, <2>3, <2>4, <2>5
<1>22. ASSUME NEW o \in Operators, ReloadFails(o) PROVE TypeOK'
  <2>1. SharedTypeOK'
    BY <1>22 DEF ReloadFails, ApplyStep, unchangedByApply
  <2>2. ThreadTypeOK'
    BY <1>22 DEF ReloadFails, ApplyStep, unchangedByApply
  <2>3. LocalsSet'
    BY <1>22 DEF ReloadFails, ApplyStep, unchangedByApply
  <2>4. ApplyTypeOK'
    BY <1>22 DEF ReloadFails, ApplyStep, unchangedByApply
  <2>5. HistoryTypeOK'
    BY <1>22 DEF ReloadFails, ApplyStep, unchangedByApply
  <2> QED BY <2>1, <2>2, <2>3, <2>4, <2>5
<1>23. ASSUME NEW o \in Operators, SwapClients(o) PROVE TypeOK'
  <2>1. SharedTypeOK'
    BY <1>23 DEF SwapClients, RacedBySwap, ApplyStep, unchangedByApply
  <2>2. ThreadTypeOK'
    BY <1>23 DEF SwapClients, RacedBySwap, ApplyStep, unchangedByApply
  <2>3. LocalsSet'
    BY <1>23 DEF SwapClients, RacedBySwap, ApplyStep, unchangedByApply
  <2>4. ApplyTypeOK'
    BY <1>23 DEF SwapClients, RacedBySwap, ApplyStep, unchangedByApply
  <2>5. HistoryTypeOK'
    BY <1>23 DEF SwapClients, RacedBySwap, ApplyStep, unchangedByApply
  <2> QED BY <2>1, <2>2, <2>3, <2>4, <2>5
<1>24. ASSUME NEW o \in Operators, SwapServers(o) PROVE TypeOK'
  <2>1. SharedTypeOK'
    BY <1>24 DEF SwapServers, RacedBySwap, ApplyStep, unchangedByApply
  <2>2. ThreadTypeOK'
    BY <1>24 DEF SwapServers, RacedBySwap, ApplyStep, unchangedByApply
  <2>3. LocalsSet'
    BY <1>24 DEF SwapServers, RacedBySwap, ApplyStep, unchangedByApply
  <2>4. ApplyTypeOK'
    BY <1>24 DEF SwapServers, RacedBySwap, ApplyStep, unchangedByApply
  <2>5. HistoryTypeOK'
    BY <1>24 DEF SwapServers, RacedBySwap, ApplyStep, unchangedByApply
  <2> QED BY <2>1, <2>2, <2>3, <2>4, <2>5
<1>25. ASSUME NEW o \in Operators, SwapRpm(o) PROVE TypeOK'
  <2>1. SharedTypeOK'
    BY <1>25 DEF SwapRpm, RacedBySwap, ApplyStep, unchangedByApply
  <2>2. ThreadTypeOK'
    BY <1>25 DEF SwapRpm, RacedBySwap, ApplyStep, unchangedByApply
  <2>3. LocalsSet'
    BY <1>25 DEF SwapRpm, RacedBySwap, ApplyStep, unchangedByApply
  <2>4. ApplyTypeOK'
    BY <1>25 DEF SwapRpm, RacedBySwap, ApplyStep, unchangedByApply
  <2>5. HistoryTypeOK'
    BY <1>25 DEF SwapRpm, RacedBySwap, ApplyStep, unchangedByApply
  <2> QED BY <2>1, <2>2, <2>3, <2>4, <2>5
<1>26. ASSUME NEW o \in Operators, ReleaseLock(o) PROVE TypeOK'
  <2>1. SharedTypeOK'
    BY <1>26 DEF ReleaseLock, ApplyStep, unchangedByApply
  <2>2. ThreadTypeOK'
    BY <1>26 DEF ReleaseLock, ApplyStep, unchangedByApply
  <2>3. LocalsSet'
    BY <1>26 DEF ReleaseLock, ApplyStep, unchangedByApply
  <2>4. ApplyTypeOK'
    BY <1>26 DEF ReleaseLock, ApplyStep, unchangedByApply
  <2>5. HistoryTypeOK'
    BY <1>26 DEF ReleaseLock, ApplyStep, unchangedByApply
  <2> QED BY <2>1, <2>2, <2>3, <2>4, <2>5
<1>27. ASSUME NEW o \in Operators, ClearLimiters(o) PROVE TypeOK'
  <2>1. SharedTypeOK'
    BY <1>27 DEF ClearLimiters, Empty, ApplyStep, unchangedByApply
  <2>2. ThreadTypeOK'
    BY <1>27 DEF ClearLimiters, Empty, ApplyStep, unchangedByApply
  <2>3. LocalsSet'
    BY <1>27 DEF ClearLimiters, Empty, ApplyStep, unchangedByApply
  <2>4. ApplyTypeOK'
    BY <1>27 DEF ClearLimiters, Empty, ApplyStep, unchangedByApply
  <2>5. HistoryTypeOK'
    BY <1>27 DEF ClearLimiters, Empty, ApplyStep, unchangedByApply
  <2> QED BY <2>1, <2>2, <2>3, <2>4, <2>5
<1>28. ASSUME NEW o \in Operators, InvalidateCache(o) PROVE TypeOK'
  <2>1. SharedTypeOK'
    BY <1>28 DEF InvalidateCache, Empty, ApplyStep, unchangedByApply
  <2>2. ThreadTypeOK'
    BY <1>28 DEF InvalidateCache, Empty, ApplyStep, unchangedByApply
  <2>3. LocalsSet'
    BY <1>28 DEF InvalidateCache, Empty, ApplyStep, unchangedByApply
  <2>4. ApplyTypeOK'
    BY <1>28 DEF InvalidateCache, Empty, ApplyStep, unchangedByApply
  <2>5. HistoryTypeOK'
    BY <1>28 DEF InvalidateCache, Empty, ApplyStep, unchangedByApply
  <2> QED BY <2>1, <2>2, <2>3, <2>4, <2>5
<1>29. ASSUME NEW o \in Operators, ApplyRaises(o) PROVE TypeOK'
  <2>1. SharedTypeOK'
    BY <1>29 DEF ApplyRaises, ApplyStep, unchangedByApply
  <2>2. ThreadTypeOK'
    BY <1>29 DEF ApplyRaises, ApplyStep, unchangedByApply
  <2>3. LocalsSet'
    BY <1>29 DEF ApplyRaises, ApplyStep, unchangedByApply
  <2>4. ApplyTypeOK'
    BY <1>29 DEF ApplyRaises, ApplyStep, unchangedByApply
  <2>5. HistoryTypeOK'
    BY <1>29 DEF ApplyRaises, ApplyStep, unchangedByApply
  <2> QED BY <2>1, <2>2, <2>3, <2>4, <2>5
<1>30. CASE UNCHANGED vars
  BY <1>30 DEF vars
<1> QED
  BY <1>1, <1>2, <1>3, <1>4, <1>5, <1>6, <1>7, <1>8, <1>9, <1>10, <1>11, <1>12, <1>13, <1>14, <1>15, <1>16, <1>17, <1>18, <1>19, <1>20, <1>21, <1>22, <1>23, <1>24, <1>25, <1>26, <1>27, <1>28, <1>29, <1>30 DEF Next, HandlerStep, OperatorStep

(* Every variable of the gateway keeps its type, whatever the interleaving   *)
(* of handlers and applies: no thread uses a None it read (daemon.py:82-190, *)
(* 513-719).                                                                 *)
THEOREM Typing == Spec => []TypeOK
BY InitTyped, NextTyped, PTL DEF Spec
=============================================================================
