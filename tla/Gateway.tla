------------------------------- MODULE Gateway ------------------------------
(***************************************************************************)
(* The daemon's request threads and the hot reload they race with.          *)
(*                                                                          *)
(* lmcp/daemon.py serves every HTTP request on a thread of its own           *)
(* (ThreadingHTTPServer).  A thread reads the attributes of the one shared   *)
(* Registry object again and again while it handles a request: clients when  *)
(* it authenticates, clients and the global rpm when it rate limits, clients *)
(* when it authorises, servers when it routes.  POST /registry/apply,        *)
(* running on another thread, replaces those attributes one assignment at a  *)
(* time and later, no longer holding the write lock, clears the rate         *)
(* limiters and the tools cache.  Here every such read, assignment and       *)
(* locked section is a step of its own.                                      *)
(*                                                                          *)
(* Not here: the file the apply writes (module RegistryStore), how a token   *)
(* bucket counts (TokenBucket: allow() is a free choice here), the exchange  *)
(* with an upstream server (its outcome is a free choice here).              *)
(***************************************************************************)
EXTENDS Policy, Naturals, FiniteSets

CONSTANTS
  Handlers,   \* request threads
  Operators,  \* threads serving POST /registry/apply
  None,       \* Python's None, and a local not set yet
  NoId,       \* the client id of a request that gives none
  Upstreams,  \* what a server entry points at: a command line or a url
  Catalog,    \* Catalog[u] is the set of tools upstream u offers
  Configs,    \* the registry files an apply, or the start, may load
  Incoming,   \* the requests that may arrive
  LogBreaks,  \* whether an append to the audit log may fail
  MaxApplies  \* bound on the number of applies

Methods == {"initialize", "tools/list", "tools/call", "other", "auth-check", "server-check"}
Probes == {"auth-check", "server-check"}

(* NoName stands for a tool name without the "server." prefix. *)
NoName == [server |-> "none", tool |-> "none"]
ToolName == [server : ServerIds, tool : Tools] \cup {NoName}

Request == [method : Methods, client_id : ClientIds \cup {NoId}, token : Secrets, name : ToolName]

ServerConfig == [tool_policy : ToolPolicy, transport : {"http", "stdio", "other"},
                 upstream : Upstreams]

Registry == [clients : UNION {[S -> ClientConfig] : S \in SUBSET ClientIds},
             servers : UNION {[S -> ServerConfig] : S \in SUBSET ServerIds},
             rpm : Rpms \cup {NoRpm}]

ASSUME GatewayAssumption ==
  /\ Configs \subseteq Registry /\ Configs # {}
  /\ Incoming \subseteq Request
  /\ Catalog \in [Upstreams -> SUBSET Tools]
  /\ NoId \notin ClientIds
  /\ LogBreaks \in BOOLEAN
  /\ MaxApplies \in Nat

(* A daemon meets a few registry files, each with a finite list of servers.  *)
ASSUME ServersAssumption == IsFiniteSet(ServerIds)

ClientTables == {cfg.clients : cfg \in Configs}
ServerTables == {cfg.servers : cfg \in Configs}
GlobalRpms   == {cfg.rpm : cfg \in Configs}

VARIABLES
  clients, servers, rpm,  \* the reloadable attributes of the live Registry
  buckets,                \* _rate_limiters: client id -> bucket
  cache,                  \* _tools_cache: server id -> entry
  pc, req, reply,         \* per handler: next step, request, answer
  limit,                  \* local rpm of check_rate_limit
  todo, cur,              \* tools/list: servers left, server at hand
  srv,                    \* the ServerConfig object the policy is read from
  source,                 \* the ServerConfig object _collect_tools fetches from
  fetched, tools,         \* tools one server returned; tools of the answer
  apc, pending,           \* per operator: next step, registry it loaded
  lock, applies,          \* holders of _write_lock; applies begun
  trail,                  \* history: audit records of the current request
  seenC, seenS,           \* history: tables live at some time in the request
  raced,                  \* history: a swap fell between a read and its use
  uncleared,              \* history: tables a broken-off apply left uncleared
  sent                    \* history: the request reached an upstream tools/call

registry == <<clients, servers, rpm>>
locals   == <<limit, todo, cur, srv, source, fetched, tools>>
apply    == <<apc, pending, lock, applies, uncleared>>
history  == <<seenC, seenS>>
vars == <<registry, buckets, cache, pc, req, reply, locals, apply, trail, history, raced, sent>>

Busy == {h \in Handlers : pc[h] # "idle"}

-----------------------------------------------------------------------------
(* Shorthands of the handlers' steps.                                       *)

Goto(h, step) == pc' = [pc EXCEPT ![h] = step] /\ UNCHANGED reply

(* _json_response or _mcp_error, then return.  "dropped" stands for an       *)
(* exception that nothing catches: the connection closes without an answer.  *)
Answer(h, what) ==
  /\ pc' = [pc EXCEPT ![h] = "replied"]
  /\ reply' = [reply EXCEPT ![h] = what]

Audit(h, event, allowed) == trail' = [trail EXCEPT ![h] = @ \cup {<<event, allowed>>}]

(* audit.write raises OSError (a full disk, say) and nothing catches it.     *)
AuditRaises(h) == LogBreaks /\ Answer(h, "dropped") /\ UNCHANGED trail

(* client.rate_limit_rpm or registry.lmcp.rate_limit_rpm                     *)
EffectiveRpm(id) ==
  IF clients[id].rate_limit_rpm # NoRpm THEN clients[id].rate_limit_rpm ELSE rpm

Put(table, key, value) == [k \in DOMAIN table \cup {key} |-> IF k = key THEN value ELSE table[k]]
Drop(table, key) == [k \in DOMAIN table \ {key} |-> table[k]]
Empty == [k \in {} |-> k]

-----------------------------------------------------------------------------
Init ==
  /\ \E cfg \in Configs : clients = cfg.clients /\ servers = cfg.servers /\ rpm = cfg.rpm
  /\ buckets = Empty /\ cache = Empty
  /\ pc = [h \in Handlers |-> "idle"]
  /\ req = [h \in Handlers |-> None]
  /\ reply = [h \in Handlers |-> "none"]
  /\ limit = [h \in Handlers |-> NoRpm]
  /\ todo = [h \in Handlers |-> {}]
  /\ cur = [h \in Handlers |-> None]
  /\ srv = [h \in Handlers |-> None]
  /\ source = [h \in Handlers |-> None]
  /\ fetched = [h \in Handlers |-> {}]
  /\ tools = [h \in Handlers |-> {}]
  /\ apc = [o \in Operators |-> "idle"]
  /\ pending = [o \in Operators |-> None]
  /\ lock = {} /\ applies = 0
  /\ trail = [h \in Handlers |-> {}]
  /\ seenC = [h \in Handlers |-> {}] /\ seenS = [h \in Handlers |-> {}]
  /\ raced = [h \in Handlers |-> FALSE] /\ uncleared = {}
  /\ sent = [h \in Handlers |-> FALSE]

(* A request arrives, well formed, and a thread takes it up.  From here on   *)
(* the history variables collect every table that is live meanwhile.         *)
Accept(h, q) ==
  /\ pc[h] = "idle"
  /\ Goto(h, IF q.method \in Probes THEN "probe" ELSE "authenticate")
  /\ req' = [req EXCEPT ![h] = q]
  /\ seenC' = [seenC EXCEPT ![h] = {clients}]
  /\ seenS' = [seenS EXCEPT ![h] = {servers}]
  /\ UNCHANGED <<registry, buckets, cache, locals, apply, trail, raced, sent>>

(* The answer is out: the thread and everything it held are gone.            *)
Close(h) ==
  /\ pc[h] = "replied"
  /\ pc' = [pc EXCEPT ![h] = "idle"]
  /\ req' = [req EXCEPT ![h] = None]
  /\ reply' = [reply EXCEPT ![h] = "none"]
  /\ limit' = [limit EXCEPT ![h] = NoRpm]
  /\ todo' = [todo EXCEPT ![h] = {}]
  /\ cur' = [cur EXCEPT ![h] = None]
  /\ srv' = [srv EXCEPT ![h] = None]
  /\ source' = [source EXCEPT ![h] = None]
  /\ fetched' = [fetched EXCEPT ![h] = {}]
  /\ tools' = [tools EXCEPT ![h] = {}]
  /\ trail' = [trail EXCEPT ![h] = {}]
  /\ seenC' = [seenC EXCEPT ![h] = {}]
  /\ seenS' = [seenS EXCEPT ![h] = {}]
  /\ raced' = [raced EXCEPT ![h] = FALSE]
  /\ sent' = [sent EXCEPT ![h] = FALSE]
  /\ UNCHANGED <<registry, buckets, cache, apply>>

-----------------------------------------------------------------------------
(* Authentication, and the two probe endpoints that stop there or one step   *)
(* later.                                                                    *)

(* The limiter the unauthenticated probes share; its choice is TokenBucket's. *)
ProbeLimit(h) ==
  /\ pc[h] = "probe"
  /\ Goto(h, "authenticate") \/ Answer(h, "http_429")
  /\ UNCHANGED <<registry, buckets, cache, req, locals, apply, trail, history, raced, sent>>

Authenticated(q) == AuthenticateClient(clients, q.client_id, q.token).allowed

(* Mutant: only denials are recorded.                                        *)
AuthenticateRecords_DenialsOnly(h) ==
  IF Authenticated(req[h]) THEN UNCHANGED trail ELSE Audit(h, "client_auth", FALSE)

(* /mcp refuses an absent id or token before daemon.authenticate runs, and   *)
(* so without an audit record; the probes pass whatever they were given.     *)
Incomplete(q) == q.method \notin Probes /\ (q.client_id = NoId \/ q.token = NoToken)

AuthenticateRecords(h) ==
  IF Incomplete(req[h]) THEN UNCHANGED trail
  ELSE Audit(h, "client_auth", Authenticated(req[h]))

(* The tokens are compared. Of strings that are not ASCII, compare_digest     *)
(* raises TypeError before anything is recorded.                             *)
Compared(q) ==
  /\ q.client_id \in DOMAIN clients
  /\ clients[q.client_id].token # NoToken /\ q.token # NoToken

Authenticate(h) ==
  /\ pc[h] = "authenticate"
  /\ \/ ~Incomplete(req[h]) /\ AuditRaises(h)
     \/ Compared(req[h]) /\ Answer(h, "dropped") /\ UNCHANGED trail
     \/ /\ AuthenticateRecords(h)
        /\ IF ~Authenticated(req[h]) THEN Answer(h, "unauthorized")
           ELSE \/ req[h].method = "auth-check" /\ Answer(h, "ok")
                \/ req[h].method = "server-check" /\ Goto(h, "authorize")
                \/ req[h].method \notin Probes /\ Goto(h, "client_rpm")
  /\ UNCHANGED <<registry, buckets, cache, req, locals, apply, history, raced, sent>>

-----------------------------------------------------------------------------
(* check_rate_limit: the client's own limit, then the global one, then the   *)
(* bucket, three reads of shared state with nothing held between them.       *)

(* Where do_POST goes once the request is not rate limited.                  *)
Dispatch(h) ==
  LET method == req[h].method IN
  \/ method = "initialize" /\ Answer(h, "result")
  \/ method = "tools/list" /\ Goto(h, "list_client")
  \/ method = "tools/call" /\ req[h].name = NoName /\ Answer(h, "bad_name")
  \/ method = "tools/call" /\ req[h].name # NoName /\ Goto(h, "authorize")
  \/ method = "other" /\ Answer(h, "method_not_found")

ReadClientRpm(h) ==
  LET id == req[h].client_id IN
  /\ pc[h] = "client_rpm"
  /\ IF id \notin DOMAIN clients THEN Dispatch(h) /\ UNCHANGED limit
     ELSE /\ limit' = [limit EXCEPT ![h] = clients[id].rate_limit_rpm]
          /\ Goto(h, IF clients[id].rate_limit_rpm = NoRpm THEN "global_rpm" ELSE "bucket")
  /\ raced' = [raced EXCEPT ![h] = FALSE]
  /\ UNCHANGED <<registry, buckets, cache, req, todo, cur, srv, source, fetched, tools,
                 apply, trail, history, sent>>

(* Mutant: a missing limit is not noticed.                                   *)
ReadGlobalRpm_NoneUnchecked(h) ==
  /\ pc[h] = "global_rpm"
  /\ limit' = [limit EXCEPT ![h] = rpm]
  /\ Goto(h, "bucket")
  /\ UNCHANGED <<registry, buckets, cache, req, todo, cur, srv, source, fetched, tools,
                 apply, trail, history, raced, sent>>

ReadGlobalRpm(h) ==
  /\ pc[h] = "global_rpm"
  /\ limit' = [limit EXCEPT ![h] = rpm]
  /\ IF rpm = NoRpm THEN Dispatch(h) ELSE Goto(h, "bucket")
  /\ UNCHANGED <<registry, buckets, cache, req, todo, cur, srv, source, fetched, tools,
                 apply, trail, history, raced, sent>>

(* Mutant: the test for an existing bucket is left out (or out of the lock). *)
MakeBucket_Always(id, h) == buckets' = Put(buckets, id, [rpm |-> limit[h], raced |-> raced[h]])

MakeBucket(id, h) ==
  buckets' = IF id \in DOMAIN buckets THEN buckets
             ELSE Put(buckets, id, [rpm |-> limit[h], raced |-> raced[h]])

(* The bucket is looked up, made if there is none, under _rate_limiters_lock; *)
(* its own allow() then says yes or no.                                       *)
TakeToken(h) ==
  /\ pc[h] = "bucket"
  /\ MakeBucket(req[h].client_id, h)
  /\ \/ Dispatch(h) /\ UNCHANGED trail
     \/ Answer(h, "rate_limited") /\ Audit(h, "rate_limited", FALSE)
     \/ AuditRaises(h)
  /\ UNCHANGED <<registry, cache, req, locals, apply, history, raced, sent>>

-----------------------------------------------------------------------------
(* tools/call, and the server-check probe: daemon.authorize, the server's    *)
(* entry, its tool policy, the call.                                         *)

(* Mutant: any known client may use any server.                              *)
Authorized_AnyServer(q) == q.client_id \in DOMAIN clients

(* Mutant: a server must have its entry to be authorised.                    *)
Authorized_ServerKnown(q) ==
  /\ q.client_id \in DOMAIN clients /\ q.name.server \in DOMAIN servers
  /\ AuthorizeServer(clients[q.client_id], q.name.server).allowed

Authorized(q) ==
  /\ q.client_id \in DOMAIN clients
  /\ AuthorizeServer(clients[q.client_id], q.name.server).allowed

Authorize(h) ==
  /\ pc[h] = "authorize"
  /\ \/ AuditRaises(h)
     \/ /\ Audit(h, "server_auth", Authorized(req[h]))
        /\ IF ~Authorized(req[h]) THEN Answer(h, "server_not_allowed")
           ELSE IF req[h].method \in Probes THEN Answer(h, "ok") ELSE Goto(h, "route")
  /\ UNCHANGED <<registry, buckets, cache, req, locals, apply, history, raced, sent>>

ToolAllowed(server, tool) == AuthorizeTool(server.tool_policy, tool).allowed

Route(h) ==
  LET name == req[h].name IN
  /\ pc[h] = "route"
  /\ IF name.server \notin DOMAIN servers
     THEN Answer(h, "unknown_server") /\ UNCHANGED <<srv, trail>>
     ELSE /\ srv' = [srv EXCEPT ![h] = servers[name.server]]
          /\ IF ToolAllowed(servers[name.server], name.tool)
             THEN Goto(h, "forward") /\ UNCHANGED trail
             ELSE \/ Answer(h, "tool_denied") /\ Audit(h, "tool_authz", FALSE)
                  \/ AuditRaises(h)
  /\ UNCHANGED <<registry, buckets, cache, req, limit, todo, cur, source, fetched, tools,
                 apply, history, raced, sent>>

(* The exchange reads no shared state, and may never end (see Awaiting).      *)
(* McpProtocolError and HttpMcpError become an answer, any other exception   *)
(* (the command is not found, the body is not JSON) drops the connection.    *)
Forward(h) ==
  /\ pc[h] = "forward"
  /\ IF srv[h].transport = "other" THEN Answer(h, "unsupported_transport") /\ UNCHANGED sent
     ELSE /\ sent' = [sent EXCEPT ![h] = TRUE]
          /\ \E outcome \in {"result", "tool_call_failed", "dropped"} : Answer(h, outcome)
  /\ UNCHANGED <<registry, buckets, cache, req, locals, apply, trail, history, raced>>

-----------------------------------------------------------------------------
(* tools/list: the client's servers one after the other, each through        *)
(* _collect_tools_for_server and the tool policy.                            *)

(* allow_servers is a list, and one that repeats a server is gone through as   *)
(* it stands; here a server is listed once.                                   *)
ListClient(h) ==
  LET id == req[h].client_id IN
  /\ pc[h] = "list_client"
  /\ IF id \notin DOMAIN clients THEN Answer(h, "unauthorized") /\ UNCHANGED todo
     ELSE todo' = [todo EXCEPT ![h] = clients[id].allow_servers] /\ Goto(h, "list_next")
  /\ UNCHANGED <<registry, buckets, cache, req, limit, cur, srv, source, fetched, tools,
                 apply, trail, history, raced, sent>>

(* Mutant: a server that is listed is not crossed off.                       *)
ListServer_Again(h, s) ==
  /\ pc[h] = "list_next" /\ s \in todo[h] /\ s \in DOMAIN servers
  /\ cur' = [cur EXCEPT ![h] = s] /\ srv' = [srv EXCEPT ![h] = servers[s]]
  /\ Goto(h, "collect")
  /\ UNCHANGED <<registry, buckets, cache, req, limit, todo, source, fetched, tools,
                 apply, trail, history, raced, sent>>

ListServer(h, s) ==
  /\ pc[h] = "list_next" /\ s \in todo[h]
  /\ todo' = [todo EXCEPT ![h] = @ \ {s}]
  /\ IF s \notin DOMAIN servers THEN Goto(h, "list_next") /\ UNCHANGED <<cur, srv>>
     ELSE /\ cur' = [cur EXCEPT ![h] = s]
          /\ srv' = [srv EXCEPT ![h] = servers[s]]
          /\ Goto(h, "collect")
  /\ UNCHANGED <<registry, buckets, cache, req, limit, source, fetched, tools,
                 apply, trail, history, raced, sent>>

ListDone(h) ==
  /\ pc[h] = "list_next" /\ todo[h] = {}
  /\ Answer(h, "tools")
  /\ UNCHANGED <<registry, buckets, cache, req, locals, apply, trail, history, raced, sent>>

(* _collect_tools_for_server reads the server's entry a second time.         *)
Collect(h) ==
  /\ pc[h] = "collect"
  /\ IF cur[h] \notin DOMAIN servers THEN Goto(h, "list_next") /\ UNCHANGED source
     ELSE source' = [source EXCEPT ![h] = servers[cur[h]]] /\ Goto(h, "cache")
  /\ raced' = [raced EXCEPT ![h] = FALSE]
  /\ UNCHANGED <<registry, buckets, cache, req, limit, todo, cur, srv, fetched, tools,
                 apply, trail, history, sent>>

(* Mutant: the tool policy is left to tools/call.                            *)
AppendPermitted_Unfiltered(h, list) ==
  tools' = [tools EXCEPT ![h] = @ \cup {<<cur[h], t>> : t \in list}]

(* What of a server's list goes into the answer, under the policy of the     *)
(* entry ListServer read.                                                    *)
AppendPermitted(h, list) ==
  tools' = [tools EXCEPT ![h] = @ \cup {<<cur[h], t>> : t \in {u \in list : ToolAllowed(srv[h], u)}}]

(* A list in which something is not an object raises AttributeError through   *)
(* do_POST, cached or not.                                                   *)
Show(h, list) ==
  \/ AppendPermitted(h, list) /\ Goto(h, "list_next")
  \/ Answer(h, "dropped") /\ UNCHANGED tools

CacheHit(h) ==
  /\ pc[h] = "cache" /\ cur[h] \in DOMAIN cache
  /\ Show(h, cache[cur[h]].tools)
  /\ UNCHANGED <<registry, buckets, cache, req, limit, todo, cur, srv, source, fetched,
                 apply, trail, history, raced, sent>>

(* No entry, or one older than the 30 s, which get_cached_tools drops.  Time *)
(* is left out: an entry may be found too old whenever it is looked up.      *)
CacheMiss(h) ==
  /\ pc[h] = "cache"
  /\ cache' = Drop(cache, cur[h])
  /\ Goto(h, "fetch")
  /\ UNCHANGED <<registry, buckets, req, locals, apply, trail, history, raced, sent>>

(* The list, or an answer without one (an error object, say), which          *)
(* .get("result", {}).get("tools", []) turns into the empty list.            *)
FetchSucceeds(h) ==
  /\ pc[h] = "fetch" /\ source[h].transport # "other"
  /\ \E list \in {Catalog[source[h].upstream], {}} : fetched' = [fetched EXCEPT ![h] = list]
  /\ Goto(h, "store")
  /\ UNCHANGED <<registry, buckets, cache, req, limit, todo, cur, srv, source, tools,
                 apply, trail, history, raced, sent>>

(* A caught exception, or a transport that is neither: [] and nothing cached. *)
FetchFails(h) ==
  /\ pc[h] = "fetch"
  /\ Goto(h, "list_next")
  /\ UNCHANGED <<registry, buckets, cache, req, locals, apply, trail, history, raced, sent>>

(* Over http only HttpMcpError is caught: a body that is not JSON raises      *)
(* ValueError through do_POST and the client gets no answer at all.           *)
FetchRaises(h) ==
  /\ pc[h] = "fetch" /\ source[h].transport = "http"
  /\ Answer(h, "dropped")
  /\ UNCHANGED <<registry, buckets, cache, req, locals, apply, trail, history, raced, sent>>

CacheStore(h) ==
  /\ pc[h] = "store"
  /\ cache' = Put(cache, cur[h], [tools |-> fetched[h], from |-> source[h].upstream,
                                  raced |-> raced[h]])
  /\ Show(h, fetched[h])
  /\ UNCHANGED <<registry, buckets, req, limit, todo, cur, srv, source, fetched,
                 apply, trail, history, raced, sent>>

HandlerStep(h) ==
  \/ Close(h) \/ ProbeLimit(h) \/ Authenticate(h)
  \/ ReadClientRpm(h) \/ ReadGlobalRpm(h) \/ TakeToken(h)
  \/ Authorize(h) \/ Route(h) \/ Forward(h)
  \/ ListClient(h) \/ (\E s \in ServerIds : ListServer(h, s)) \/ ListDone(h)
  \/ Collect(h) \/ CacheHit(h) \/ CacheMiss(h)
  \/ FetchSucceeds(h) \/ FetchFails(h) \/ FetchRaises(h) \/ CacheStore(h)

-----------------------------------------------------------------------------
(* POST /registry/apply, from the moment the new file is written and loaded. *)
(* An apply that is refused or fails before that changes nothing here.       *)

ApplyStep(o, from, to) ==
  /\ apc[o] = from
  /\ apc' = [apc EXCEPT ![o] = to]

(* The steps between a read of the registry and the use of what was read.    *)
Reading == {"global_rpm", "bucket", "cache", "fetch", "store"}
RacedBySwap == [h \in Handlers |-> raced[h] \/ pc[h] \in Reading]

unchangedByApply == <<pc, req, reply, locals, trail, sent>>

(* Mutant: no test whether the lock is held.                                 *)
TakeWriteLock_Anyway(o) == lock' = lock \cup {o}

(* apply_patch takes the write lock without waiting: a second operator is    *)
(* turned away (409) while it is held.                                       *)
TakeWriteLock(o) == lock = {} /\ lock' = {o}

BeginApply(o, cfg) ==
  /\ ApplyStep(o, "idle", "clients")
  /\ TakeWriteLock(o)
  /\ applies < MaxApplies /\ applies' = applies + 1
  /\ pending' = [pending EXCEPT ![o] = cfg]
  /\ UNCHANGED <<registry, buckets, cache, uncleared, unchangedByApply, history, raced>>

(* load_registry raised: the live registry stays as it is, and apply_patch   *)
(* still reports the patch as applied.                                       *)
ReloadFails(o) ==
  /\ ApplyStep(o, "clients", "release")
  /\ UNCHANGED <<registry, buckets, cache, pending, lock, applies, uncleared, unchangedByApply, history, raced>>

SwapClients(o) ==
  /\ ApplyStep(o, "clients", "servers")
  /\ clients' = pending[o].clients
  /\ seenC' = [h \in Handlers |-> IF pc[h] = "idle" THEN seenC[h] ELSE seenC[h] \cup {clients'}]
  /\ raced' = RacedBySwap
  /\ UNCHANGED <<servers, rpm, buckets, cache, pending, lock, applies, uncleared, unchangedByApply, seenS>>

SwapServers(o) ==
  /\ ApplyStep(o, "servers", "rpm")
  /\ servers' = pending[o].servers
  /\ seenS' = [h \in Handlers |-> IF pc[h] = "idle" THEN seenS[h] ELSE seenS[h] \cup {servers'}]
  /\ raced' = RacedBySwap
  /\ UNCHANGED <<clients, rpm, buckets, cache, pending, lock, applies, uncleared, unchangedByApply, seenC>>

SwapRpm(o) ==
  /\ ApplyStep(o, "rpm", "release")
  /\ rpm' = pending[o].rpm
  /\ raced' = RacedBySwap
  /\ UNCHANGED <<clients, servers, buckets, cache, pending, lock, applies, uncleared, unchangedByApply, history>>

(* The audit record of the apply cannot be written: the lock is given back    *)
(* (finally), the exception leaves do_POST and nothing is cleared.           *)
ApplyRaises(o) ==
  /\ LogBreaks /\ ApplyStep(o, "release", "idle")
  /\ lock' = lock \ {o}
  /\ pending' = [pending EXCEPT ![o] = None]
  /\ uncleared' = {"limiters", "cache"}
  /\ UNCHANGED <<registry, buckets, cache, applies, unchangedByApply, history, raced>>

ReleaseLock(o) ==
  /\ ApplyStep(o, "release", "limiters")
  /\ lock' = lock \ {o}
  /\ UNCHANGED <<registry, buckets, cache, pending, applies, uncleared, unchangedByApply, history, raced>>

(* Mutant: the limiters outlive the apply.                                   *)
ClearLimiters_Forgotten(o) ==
  /\ ApplyStep(o, "limiters", "cache")
  /\ UNCHANGED <<registry, buckets, cache, pending, lock, applies, uncleared, unchangedByApply, history, raced>>

(* Back in do_POST, outside the write lock.                                  *)
ClearLimiters(o) ==
  /\ ApplyStep(o, "limiters", "cache")
  /\ buckets' = Empty /\ uncleared' = uncleared \ {"limiters"}
  /\ UNCHANGED <<registry, cache, pending, lock, applies, unchangedByApply, history, raced>>

(* Mutant: the cache outlives the apply.                                     *)
InvalidateCache_Forgotten(o) ==
  /\ ApplyStep(o, "cache", "idle")
  /\ pending' = [pending EXCEPT ![o] = None]
  /\ UNCHANGED <<registry, buckets, cache, lock, applies, uncleared, unchangedByApply, history, raced>>

InvalidateCache(o) ==
  /\ ApplyStep(o, "cache", "idle")
  /\ cache' = Empty /\ uncleared' = uncleared \ {"cache"}
  /\ pending' = [pending EXCEPT ![o] = None]
  /\ UNCHANGED <<registry, buckets, lock, applies, unchangedByApply, history, raced>>

OperatorStep(o) ==
  \/ ReloadFails(o) \/ SwapClients(o) \/ SwapServers(o) \/ SwapRpm(o)
  \/ ReleaseLock(o) \/ ApplyRaises(o) \/ ClearLimiters(o) \/ InvalidateCache(o)

Next ==
  \/ \E h \in Handlers, q \in Incoming : Accept(h, q)
  \/ \E h \in Handlers : HandlerStep(h)
  \/ \E o \in Operators, cfg \in Configs : BeginApply(o, cfg)
  \/ \E o \in Operators : OperatorStep(o)

(* The thread is in an exchange with an upstream server, of which not every    *)
(* wait has a timeout: a large message to a child that reads nothing (the      *)
(* write of stdio_mcp.py:136), a body that drips in (http_mcp.py:44).           *)
Awaiting(h) ==
  \/ pc[h] = "forward" /\ srv[h].transport # "other"
  \/ pc[h] = "fetch" /\ source[h].transport # "other"

(* A running thread is scheduled again and holds no lock across a wait; but it  *)
(* is owed no upstream's answer, nor that its client takes the one it sends.   *)
(* Nobody owes the daemon a request, and of an apply nothing is expected: it   *)
(* may stop halfway.                                                         *)
Fairness == \A h \in Handlers : WF_vars(HandlerStep(h) /\ pc[h] # "replied" /\ ~Awaiting(h))

Spec == Init /\ [][Next]_vars /\ Fairness

-----------------------------------------------------------------------------
(* Properties.                                                              *)

Steps == {"idle", "probe", "authenticate", "client_rpm", "global_rpm", "bucket", "authorize",
          "route", "forward", "list_client", "list_next", "collect", "cache", "fetch",
          "store", "replied"}
Replies == {"none", "http_429", "unauthorized", "ok", "result", "bad_name", "method_not_found",
            "rate_limited", "server_not_allowed", "unknown_server", "tool_denied",
            "unsupported_transport", "tool_call_failed", "dropped", "tools"}
ApplySteps == {"idle", "clients", "servers", "rpm", "release", "limiters", "cache"}
AuditEvents == {"client_auth", "server_auth", "rate_limited", "tool_authz"} \X BOOLEAN

Bucket == [rpm : Rpms, raced : BOOLEAN]
CacheEntry == [tools : SUBSET Tools, from : Upstreams, raced : BOOLEAN]

SharedTypeOK ==
  /\ clients \in ClientTables /\ servers \in ServerTables /\ rpm \in GlobalRpms
  /\ DOMAIN buckets \subseteq ClientIds /\ \A c \in DOMAIN buckets : buckets[c] \in Bucket
  /\ DOMAIN cache \subseteq ServerIds /\ \A s \in DOMAIN cache : cache[s] \in CacheEntry

ThreadTypeOK ==
  /\ pc \in [Handlers -> Steps] /\ reply \in [Handlers -> Replies]
  /\ req \in [Handlers -> Request \cup {None}]
  /\ limit \in [Handlers -> Rpms \cup {NoRpm}]
  /\ todo \in [Handlers -> SUBSET ServerIds]
  /\ cur \in [Handlers -> ServerIds \cup {None}]
  /\ srv \in [Handlers -> ServerConfig \cup {None}]
  /\ source \in [Handlers -> ServerConfig \cup {None}]
  /\ fetched \in [Handlers -> SUBSET Tools]
  /\ tools \in [Handlers -> SUBSET (ServerIds \X Tools)]

(* A step that uses a local of its thread is reached with that local set.    *)
LocalsSet ==
  \A h \in Handlers :
    /\ pc[h] # "idle" => req[h] \in Request
    /\ pc[h] \in {"global_rpm", "bucket"} => req[h].client_id \in ClientIds
    /\ pc[h] = "bucket" => limit[h] \in Rpms
    /\ pc[h] \in {"forward", "collect", "cache", "fetch", "store"} => srv[h] \in ServerConfig
    /\ pc[h] \in {"collect", "cache", "fetch", "store"} => cur[h] \in ServerIds
    /\ pc[h] \in {"cache", "fetch", "store"} => source[h] \in ServerConfig

ApplyTypeOK ==
  /\ apc \in [Operators -> ApplySteps]
  /\ pending \in [Operators -> Configs \cup {None}]
  /\ \A o \in Operators : apc[o] # "idle" => pending[o] \in Configs
  /\ lock \subseteq Operators /\ applies \in Nat

HistoryTypeOK ==
  /\ trail \in [Handlers -> SUBSET AuditEvents]
  /\ seenC \in [Handlers -> SUBSET ClientTables] /\ seenS \in [Handlers -> SUBSET ServerTables]
  /\ uncleared \subseteq {"limiters", "cache"}
  /\ raced \in [Handlers -> BOOLEAN] /\ sent \in [Handlers -> BOOLEAN]

(* Every variable keeps its type; in particular no bucket is ever made       *)
(* without a limit (daemon.py:134-139) and no thread uses a None it read.    *)
TypeOK == SharedTypeOK /\ ThreadTypeOK /\ LocalsSet /\ ApplyTypeOK /\ HistoryTypeOK

(* What a request asks for is granted by client tables that were live while  *)
(* it was handled: its token by one, the server by one.                      *)
TokenWasValid(h) == \E t \in seenC[h] : HoldsToken(t, req[h].client_id, req[h].token)

ServerWasAllowed(h, s) ==
  \E t \in seenC[h] : req[h].client_id \in DOMAIN t /\ s \in t[req[h].client_id].allow_servers

ToolWasPermitted(h, s, tool) ==
  \E t \in seenS[h] : s \in DOMAIN t /\ Permits(t[s].tool_policy, tool)

(* A tools/call reaches an upstream server only if, since the request        *)
(* arrived, the registry has held its token, has allowed it the server, and  *)
(* has permitted the tool on that server; and what it is sent to is that     *)
(* very entry (daemon.py:596-716).  So a request that arrives after an apply *)
(* has swapped is judged by the new tables alone, whatever was revoked.      *)
CallAuthorised ==
  \A h \in Handlers : sent[h] =>
    /\ TokenWasValid(h)
    /\ ServerWasAllowed(h, req[h].name.server)
    /\ \E t \in seenS[h] : /\ req[h].name.server \in DOMAIN t
                           /\ t[req[h].name.server] = srv[h]
                           /\ Permits(srv[h].tool_policy, req[h].name.tool)

(* tools/list, which asks neither authorize() nor the audit log and may read *)
(* its tools from the cache, shows no tool that a tools/call judged by the   *)
(* same tables would refuse (daemon.py:622-653).                             *)
ListingAuthorised ==
  \A h \in Handlers : \A entry \in tools[h] :
    /\ TokenWasValid(h)
    /\ ServerWasAllowed(h, entry[1])
    /\ ToolWasPermitted(h, entry[1], entry[2])

(* The other way round: a refusal has its cause in a table that was live      *)
(* while the request was handled. Whoever holds the client's token under      *)
(* every such table is not turned away, whatever reload is halfway, and the   *)
(* same goes for the server, for its entry and for the tool                  *)
(* (daemon.py:151-187, 596-629, 662-685).                                    *)
RequestRefusedForCause ==
  \A h \in Handlers :
    LET id == req[h].client_id  server == req[h].name.server IN
    /\ reply[h] = "unauthorized" => \E t \in seenC[h] : ~HoldsToken(t, id, req[h].token)
    /\ reply[h] = "server_not_allowed" =>
         \E t \in seenC[h] : ~(id \in DOMAIN t /\ server \in t[id].allow_servers)
    /\ reply[h] = "unknown_server" => \E t \in seenS[h] : server \notin DOMAIN t
    /\ reply[h] = "tool_denied" =>
         \E t \in seenS[h] : server \in DOMAIN t /\ ~Permits(t[server].tool_policy, req[h].name.tool)

(* The records a request leaves on its way, and those it ends with when it   *)
(* is refused.                                                               *)
TokenGranted  == {<<"client_auth", TRUE>>}
ServerGranted == TokenGranted \cup {<<"server_auth", TRUE>>}
RateRefused   == TokenGranted \cup {<<"rate_limited", FALSE>>}
ServerRefused == TokenGranted \cup {<<"server_auth", FALSE>>}
ToolRefused   == ServerGranted \cup {<<"tool_authz", FALSE>>}

(* The log tells what was decided: a forwarded call has left its two grants  *)
(* and no refusal, and the refusals the MCP endpoint audits are in it with   *)
(* the grants that came before them (daemon.py:151-187, 601-611, 673-685).   *)
AuditTrail ==
  \A h \in Handlers :
    /\ sent[h] => trail[h] = ServerGranted
    /\ reply[h] = "rate_limited" => trail[h] = RateRefused
    /\ reply[h] = "server_not_allowed" => trail[h] = ServerRefused
    /\ reply[h] = "tool_denied" => trail[h] = ToolRefused

Whole(cfg) == clients = cfg.clients /\ servers = cfg.servers /\ rpm = cfg.rpm

(* Whenever no apply holds the write lock the live registry is one of the    *)
(* registries that were loaded, whole: two applies never mix (the swap of    *)
(* management.py:316-319 stays inside the lock taken at 239).                *)
NotTorn ==
  lock = {} => \E cfg \in Configs : Whole(cfg)

(* The registry in force, as the operators may think of it: an apply that is *)
(* halfway through its assignments has already put its own in force.         *)
Swapping == {o \in Operators : apc[o] \in {"servers", "rpm"}}
InForce ==
  IF Swapping = {} THEN [clients |-> clients, servers |-> servers, rpm |-> rpm]
  ELSE pending[CHOOSE o \in Swapping : TRUE]

Reload == INSTANCE LiveRegistry WITH
  Loadable <- Configs, Appliers <- Operators, live <- InForce, holder <- lock,
  replaced <- \E o \in Operators : apc[o] \in {"servers", "rpm", "release"}

(* Reloads are atomic for whoever takes the write lock: the assignments of   *)
(* one apply, which requests may see halfway, are one replacement of a whole  *)
(* registry by a whole one, made under the lock, once for each time it is     *)
(* taken (management.py:239, 316-319, 350).                                  *)
ReloadsAreAtomic == Reload!LiveSpec

(* An apply that has swapped the servers and has yet to clear the cache.     *)
InvalidationDue == \E o \in Operators : apc[o] \in {"rpm", "release", "limiters", "cache"}

(* A cached list comes from where the live entry points, unless an apply is  *)
(* about to clear it, broke off before it did, or swapped servers while the  *)
(* list was being fetched (daemon.py:290-334, 565).                          *)
StaleCacheOnlyByRace ==
  \A s \in DOMAIN cache :
    \/ cache[s].raced \/ InvalidationDue \/ "cache" \in uncleared
    \/ s \in DOMAIN servers /\ servers[s].upstream = cache[s].from

(* An apply that has swapped the clients and has yet to clear the limiters.  *)
ClearingDue == \E o \in Operators : apc[o] \in {"servers", "rpm", "release", "limiters"}

(* A bucket counts at its client's current limit, unless an apply is about   *)
(* to clear it, broke off before it did, or swapped between                  *)
(* check_rate_limit's read of the limit and its making the bucket            *)
(* (daemon.py:128-140, 563-564).                                             *)
StaleBucketOnlyByRace ==
  \A c \in DOMAIN buckets :
    \/ buckets[c].raced \/ ClearingDue \/ "limiters" \in uncleared
    \/ c \in DOMAIN clients /\ buckets[c].rpm = EffectiveRpm(c)

(* A client's bucket is never replaced by a full one but through an apply:   *)
(* first requests that race for it share the one that was made first         *)
(* (daemon.py:136-139).                                                      *)
BucketsKept ==
  [][buckets' = Empty \/ \A c \in DOMAIN buckets : c \in DOMAIN buckets' /\ buckets'[c] = buckets[c]]_vars

(* Every request comes to its answer, or to a dropped connection, unless its   *)
(* thread ends up waiting for an upstream server for good: no handler waits    *)
(* for another, nor for an apply, which may never go on, and an upstream that  *)
(* hangs holds up the requests sent to it and no others (daemon.py:588-716).    *)
RequestsEnd ==
  \A h \in Handlers : (pc[h] # "idle" ~> pc[h] = "replied") \/ <>[]Awaiting(h)

(* How many steps of its own a request has left at most: those of its place   *)
(* in the code and, while it lists tools, five for each server to come.      *)
StepsLeft(h) ==
  LET Place(early, late) ==
        CASE pc[h] = "probe"        -> early + 9
          [] pc[h] = "authenticate" -> early + 8
          [] pc[h] = "client_rpm"   -> early + 7
          [] pc[h] = "global_rpm"   -> early + 6
          [] pc[h] = "bucket"       -> early + 5
          [] pc[h] = "list_client"  -> early + 3
          [] pc[h] = "collect"      -> late + 6
          [] pc[h] = "cache"        -> late + 5
          [] pc[h] = "fetch"        -> late + 4
          [] pc[h] = "store"        -> late + 3
          [] pc[h] = "list_next"    -> late + 2
          [] pc[h] = "authorize"    -> 4
          [] pc[h] = "route"        -> 3
          [] pc[h] = "forward"      -> 2
          [] pc[h] = "replied"      -> 1
          [] pc[h] = "idle"         -> 0
  IN Place(5 * Cardinality(ServerIds), 5 * Cardinality(todo[h]))

(* No request goes round in circles: each step of its thread uses up one of   *)
(* those left, and nothing that other threads or a reload do adds to them.   *)
(* With N servers, each listed once, none takes more than 5 N + 9, whatever   *)
(* the registry comes to say meanwhile (daemon.py:588-716).                   *)
WorkRunsOut ==
  [][\A h \in Handlers : pc[h] # "idle" =>
       IF HandlerStep(h) THEN StepsLeft(h)' < StepsLeft(h) ELSE StepsLeft(h)' = StepsLeft(h)]_vars

-----------------------------------------------------------------------------
(* Inductive strengthenings of the invariants above, one per argument.       *)

Judging == {"idle", "probe", "authenticate"}           \* no grant yet
Collecting == {"collect", "cache", "fetch", "store"}   \* a server's tools are being got

EntryWasRead(h, s) == \E t \in seenS[h] : s \in DOMAIN t /\ t[s] = srv[h]

(* Every grant a thread acts on came from a table it has seen live.          *)
GrantHeld(h) ==
  /\ pc[h] # "idle" => clients \in seenC[h] /\ servers \in seenS[h]
  /\ pc[h] \in Judging => ~sent[h] /\ tools[h] = {}
  /\ pc[h] \notin Judging \cup {"replied"} => TokenWasValid(h)
  /\ sent[h] => pc[h] = "replied"
  /\ pc[h] \in {"route", "forward"} => ServerWasAllowed(h, req[h].name.server)
  /\ pc[h] = "forward" =>
       EntryWasRead(h, req[h].name.server) /\ Permits(srv[h].tool_policy, req[h].name.tool)
  /\ pc[h] \in Collecting \cup {"list_next"} => \A s \in todo[h] : ServerWasAllowed(h, s)
  /\ pc[h] \in Collecting => ServerWasAllowed(h, cur[h]) /\ EntryWasRead(h, cur[h])

GrantsHeld == \A h \in Handlers : GrantHeld(h)

(* The audit records a thread has written are those of the steps it passed.  *)
TrailByStep ==
  \A h \in Handlers :
    /\ pc[h] \in Judging => trail[h] = {}
    /\ pc[h] \in {"client_rpm", "global_rpm", "bucket", "authorize"} => trail[h] = TokenGranted
    /\ pc[h] \in {"route", "forward"} => trail[h] = ServerGranted
    /\ pc[h] # "replied" => reply[h] = "none" /\ ~sent[h]

(* The write lock, and how far its holder has got with the swap.             *)
SwapOrder ==
  /\ \A o \in Operators : o \in lock <=> apc[o] \in {"clients", "servers", "rpm", "release"}
  /\ \A o, p \in lock : o = p
  /\ (\A o \in Operators : apc[o] \notin {"servers", "rpm"}) => \E cfg \in Configs : Whole(cfg)
  /\ \A o \in Operators :
       /\ apc[o] \in {"servers", "rpm"} => clients = pending[o].clients
       /\ apc[o] = "rpm" => servers = pending[o].servers

(* What a thread has read and not yet used is what the live registry says,   *)
(* unless a swap has come between.                                           *)
ReadsFresh ==
  \A h \in Handlers : ~raced[h] =>
    /\ pc[h] = "global_rpm" => /\ req[h].client_id \in DOMAIN clients
                               /\ clients[req[h].client_id].rate_limit_rpm = NoRpm
    /\ pc[h] = "bucket" => /\ req[h].client_id \in DOMAIN clients
                           /\ limit[h] = EffectiveRpm(req[h].client_id)
    /\ pc[h] \in {"cache", "fetch", "store"} => /\ cur[h] \in DOMAIN servers
                                                /\ source[h] = servers[cur[h]]

-----------------------------------------------------------------------------
(* What the documents say and the code does not do.                          *)

(* docs/management_api.md:418 "Authentication and authorization decisions    *)
(* made during the swap window are still consistent within a single          *)
(* request": one client table grants both the token and the server.          *)
OneTablePerCall ==
  \A h \in Handlers : sent[h] =>
    \E t \in seenC[h] : /\ HoldsToken(t, req[h].client_id, req[h].token)
                        /\ req[h].name.server \in t[req[h].client_id].allow_servers
=============================================================================
