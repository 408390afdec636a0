---------------------------- MODULE GatewaySafety ---------------------------
(***************************************************************************)
(* Proofs of the safety properties of module Gateway: what a request is       *)
(* granted, and what a reload leaves behind.                                  *)
(***************************************************************************)
EXTENDS GatewayProofs, FiniteSetTheorems

(* A step that changes nothing of a thread's own leaves its grants alone.     *)
LEMMA GrantUntouched ==
  ASSUME NEW g \in Handlers, GrantHeld(g),
         pc'[g] = pc[g], cur'[g] = cur[g], srv'[g] = srv[g], todo'[g] = todo[g],
         req'[g] = req[g], sent'[g] = sent[g], tools'[g] = tools[g],
         seenC'[g] = seenC[g], seenS'[g] = seenS[g], clients' = clients, servers' = servers
  PROVE  GrantHeld(g)'
BY DEF GrantHeld, TokenWasValid, ServerWasAllowed, EntryWasRead

(* Crossing a server off the list, and taking it up when it has an entry.     *)
LEMMA GrantListed ==
  ASSUME TypeOK, NEW h \in Handlers, NEW s \in ServerIds, GrantHeld(h), ListServer(h, s)
  PROVE  GrantHeld(h)'
<1>1. /\ UNCHANGED <<clients, servers, seenC, seenS, req, sent, tools>>
      /\ pc[h] = "list_next" /\ s \in todo[h] /\ todo'[h] = todo[h] \ {s}
  BY DEF ListServer, TypeOK, ThreadTypeOK, registry, history
<1>2. /\ clients \in seenC[h] /\ servers \in seenS[h] /\ ~sent[h] /\ TokenWasValid(h)
      /\ \A r \in todo[h] : ServerWasAllowed(h, r)
  BY <1>1 DEF GrantHeld, Judging, Collecting
<1>3. CASE s \notin DOMAIN servers
  <2>1. pc'[h] = "list_next"
    BY <1>3 DEF ListServer, Goto, TypeOK, ThreadTypeOK
  <2> QED BY <1>1, <1>2, <2>1
          DEF GrantHeld, Judging, Collecting, TokenWasValid, ServerWasAllowed
<1>4. CASE s \in DOMAIN servers
  <2>1. pc'[h] = "collect" /\ cur'[h] = s /\ srv'[h] = servers[s]
    BY <1>4 DEF ListServer, Goto, TypeOK, ThreadTypeOK
  <2>2. EntryWasRead(h, cur[h])'
    BY <1>1, <1>2, <1>4, <2>1 DEF EntryWasRead
  <2> QED BY <1>1, <1>2, <2>1, <2>2
          DEF GrantHeld, Judging, Collecting, TokenWasValid, ServerWasAllowed
<1> QED BY <1>3, <1>4

(* So does the whole step, the other threads being untouched by it.           *)
LEMMA GrantsListed ==
  ASSUME TypeOK, GrantsHeld, NEW h \in Handlers, NEW s \in ServerIds, ListServer(h, s)
  PROVE  GrantsHeld'
<1>1. \A g \in Handlers : GrantHeld(g)
  BY DEF GrantsHeld
<1>2. \A g \in Handlers : g # h => /\ pc'[g] = pc[g] /\ cur'[g] = cur[g]
                                   /\ srv'[g] = srv[g] /\ todo'[g] = todo[g]
  BY DEF ListServer, Goto, TypeOK, ThreadTypeOK
<1>3. UNCHANGED <<clients, servers, seenC, seenS, req, sent, tools>>
  BY DEF ListServer, registry, history
<1>4. \A g \in Handlers : g # h => GrantHeld(g)'
  BY <1>1, <1>2, <1>3, GrantUntouched
<1>5. GrantHeld(h)'
  BY <1>1, GrantListed
<1> QED BY <1>4, <1>5 DEF GrantsHeld

(* Every step keeps the grants a thread acts on: a table once seen stays in  *)
(* seenC or seenS until the request is over, so what it granted stays        *)
(* granted.                                                                  *)
LEMMA GrantsStep == TypeOK /\ TypeOK' /\ GrantsHeld /\ [Next]_vars => GrantsHeld'
<1> SUFFICES ASSUME TypeOK, TypeOK', GrantsHeld, [Next]_vars PROVE GrantsHeld'
  OBVIOUS
<1> USE DEF TypeOK, ThreadTypeOK, HistoryTypeOK, GrantsHeld, GrantHeld, Judging, Collecting, TokenWasValid, ServerWasAllowed, EntryWasRead,
        registry, locals, apply, history, Goto, Answer, AuditRaises
<1>1. ASSUME NEW h \in Handlers, NEW q \in Incoming, Accept(h, q) PROVE GrantsHeld'
  BY <1>1 DEF Accept, Probes
<1>2. ASSUME NEW h \in Handlers, Close(h) PROVE GrantsHeld'
  BY <1>2 DEF Close
<1>3. ASSUME NEW h \in Handlers, ProbeLimit(h) PROVE GrantsHeld'
  BY <1>3 DEF ProbeLimit
<1>4. ASSUME NEW h \in Handlers, Authenticate(h) PROVE GrantsHeld'
  <2>1. Authenticated(req[h]) => TokenWasValid(h)
    BY <1>4, AuthenticateMeaning DEF Authenticate, Authenticated
  <2>2. \/ pc'[h] = "replied"
        \/ Authenticated(req[h]) /\ pc'[h] \in {"authorize", "client_rpm"}
    BY <1>4 DEF Authenticate
  <2>3. \A g \in Handlers : g # h => pc'[g] = pc[g]
    BY <1>4 DEF Authenticate
  <2> QED BY <1>4, <2>1, <2>2, <2>3 DEF Authenticate
<1>5. ASSUME NEW h \in Handlers, ReadClientRpm(h) PROVE GrantsHeld'
  BY <1>5 DEF ReadClientRpm, Dispatch
<1>6. ASSUME NEW h \in Handlers, ReadGlobalRpm(h) PROVE GrantsHeld'
  BY <1>6 DEF ReadGlobalRpm, Dispatch
<1>7. ASSUME NEW h \in Handlers, TakeToken(h) PROVE GrantsHeld'
  <2>1. pc'[h] \in {"list_client", "authorize", "replied"}
    BY <1>7 DEF TakeToken, Dispatch
  <2>2. \A g \in Handlers : g # h => pc'[g] = pc[g]
    BY <1>7 DEF TakeToken, Dispatch
  <2> QED BY <1>7, <2>1, <2>2 DEF TakeToken
<1>8. ASSUME NEW h \in Handlers, Authorize(h) PROVE GrantsHeld'
  <2>1. Authorized(req[h]) => ServerWasAllowed(h, req[h].name.server)
    BY <1>8, AuthorizeServerMeaning DEF Authorize, Authorized
  <2>2. \/ pc'[h] = "replied"
        \/ Authorized(req[h]) /\ pc'[h] = "route"
    BY <1>8 DEF Authorize
  <2>3. \A g \in Handlers : g # h => pc'[g] = pc[g]
    BY <1>8 DEF Authorize
  <2> QED BY <1>8, <2>1, <2>2, <2>3 DEF Authorize
<1>9. ASSUME NEW h \in Handlers, Route(h) PROVE GrantsHeld'
  <2> DEFINE name == req[h].name
  <2>1. CASE pc'[h] = "replied"
    <3>1. \A g \in Handlers : g # h => pc'[g] = pc[g]
      <4>1. pc' = [pc EXCEPT ![h] = "replied"] \/ pc' = [pc EXCEPT ![h] = "forward"]
        BY <1>9 DEF Route
      <4> QED BY <4>1
    <3>2. \A g \in Handlers : g # h => srv'[g] = srv[g]
      <4>1. srv' = srv \/ srv' = [srv EXCEPT ![h] = servers[name.server]]
        BY <1>9 DEF Route
      <4> QED BY <4>1
    <3> QED BY <1>9, <2>1, <3>1, <3>2 DEF Route
  <2>2. CASE pc'[h] # "replied"
    <3>1. /\ name.server \in DOMAIN servers /\ srv' = [srv EXCEPT ![h] = servers[name.server]]
          /\ ToolAllowed(servers[name.server], name.tool)
          /\ pc' = [pc EXCEPT ![h] = "forward"]
      BY <1>9, <2>2 DEF Route
    <3>2. Permits(srv'[h].tool_policy, name.tool)
      BY <3>1, AuthorizeToolMeaning DEF ToolAllowed
    <3>3. /\ srv'[h] = servers[name.server] /\ servers \in seenS[h] /\ seenS' = seenS
          /\ req' = req
      BY <1>9, <3>1 DEF Route
    <3> QED BY <1>9, <3>1, <3>2, <3>3 DEF Route
  <2> QED BY <2>1, <2>2
<1>10. ASSUME NEW h \in Handlers, Forward(h) PROVE GrantsHeld'
  BY <1>10 DEF Forward
<1>11. ASSUME NEW h \in Handlers, ListClient(h) PROVE GrantsHeld'
  BY <1>11 DEF ListClient
<1>12. ASSUME NEW h \in Handlers, ListDone(h) PROVE GrantsHeld'
  BY <1>12 DEF ListDone
<1>13. ASSUME NEW h \in Handlers, Collect(h) PROVE GrantsHeld'
  BY <1>13 DEF Collect
<1>14. ASSUME NEW h \in Handlers, CacheHit(h) PROVE GrantsHeld'
  BY <1>14 DEF CacheHit, Show, AppendPermitted
<1>15. ASSUME NEW h \in Handlers, CacheMiss(h) PROVE GrantsHeld'
  BY <1>15 DEF CacheMiss
<1>16. ASSUME NEW h \in Handlers, FetchSucceeds(h) PROVE GrantsHeld'
  BY <1>16 DEF FetchSucceeds
<1>17. ASSUME NEW h \in Handlers, FetchFails(h) PROVE GrantsHeld'
  BY <1>17 DEF FetchFails
<1>18. ASSUME NEW h \in Handlers, FetchRaises(h) PROVE GrantsHeld'
  BY <1>18 DEF FetchRaises
<1>19. ASSUME NEW h \in Handlers, CacheStore(h) PROVE GrantsHeld'
  BY <1>19 DEF CacheStore, Show, AppendPermitted
<1>20. ASSUME NEW h \in Handlers, NEW s \in ServerIds, ListServer(h, s) PROVE GrantsHeld'
  BY <1>20, GrantsListed
<1>21. ASSUME NEW o \in Operators, NEW cfg \in Configs, BeginApply(o, cfg) PROVE GrantsHeld'
  BY <1>21 DEF BeginApply, TakeWriteLock, ApplyStep, unchangedByApply
<1>22. ASSUME NEW o \in Operators, ReloadFails(o) PROVE GrantsHeld'
  BY <1>22 DEF ReloadFails, ApplyStep, unchangedByApply
<1>23. ASSUME NEW o \in Operators, SwapClients(o) PROVE GrantsHeld'
  BY <1>23 DEF SwapClients, ApplyStep, unchangedByApply
<1>24. ASSUME NEW o \in Operators, SwapServers(o) PROVE GrantsHeld'
  BY <1>24 DEF SwapServers, ApplyStep, unchangedByApply
<1>25. ASSUME NEW o \in Operators, SwapRpm(o) PROVE GrantsHeld'
  BY <1>25 DEF SwapRpm, ApplyStep, unchangedByApply
<1>26. ASSUME NEW o \in Operators, ReleaseLock(o) PROVE GrantsHeld'
  BY <1>26 DEF ReleaseLock, ApplyStep, unchangedByApply
<1>27. ASSUME NEW o \in Operators, ClearLimiters(o) PROVE GrantsHeld'
  BY <1>27 DEF ClearLimiters, ApplyStep, unchangedByApply
<1>28. ASSUME NEW o \in Operators, InvalidateCache(o) PROVE GrantsHeld'
  BY <1>28 DEF InvalidateCache, ApplyStep, unchangedByApply
<1>29. ASSUME NEW o \in Operators, ApplyRaises(o) PROVE GrantsHeld'
  BY <1>29 DEF ApplyRaises, ApplyStep, unchangedByApply
<1>30. CASE UNCHANGED vars
  BY <1>30 DEF vars
<1> QED
  BY <1>1, <1>2, <1>3, <1>4, <1>5, <1>6, <1>7, <1>8, <1>9, <1>10, <1>11, <1>12, <1>13, <1>14, <1>15, <1>16, <1>17, <1>18, <1>19, <1>20, <1>21, <1>22, <1>23, <1>24, <1>25, <1>26, <1>27, <1>28, <1>29, <1>30 DEF Next, HandlerStep, OperatorStep

(* A call is sent only by Forward, and there GrantsHeld says what            *)
(* CallAuthorised asks of it (daemon.py:655-716).                            *)
LEMMA CallStep == TypeOK /\ TypeOK' /\ GrantsHeld /\ CallAuthorised /\ [Next]_vars => CallAuthorised'
<1> SUFFICES ASSUME TypeOK, TypeOK', GrantsHeld, CallAuthorised, [Next]_vars PROVE CallAuthorised'
  OBVIOUS
<1> USE DEF TypeOK, ThreadTypeOK, HistoryTypeOK, GrantsHeld, GrantHeld, Judging, Collecting,
        registry, locals, apply, history, Goto, Answer, AuditRaises, CallAuthorised, TokenWasValid,
        ServerWasAllowed, EntryWasRead
<1>1. ASSUME NEW h \in Handlers, NEW q \in Incoming, Accept(h, q) PROVE CallAuthorised'
  BY <1>1 DEF Accept
<1>2. ASSUME NEW h \in Handlers, Close(h) PROVE CallAuthorised'
  BY <1>2 DEF Close
<1>3. ASSUME NEW h \in Handlers, ProbeLimit(h) PROVE CallAuthorised'
  BY <1>3 DEF ProbeLimit
<1>4. ASSUME NEW h \in Handlers, Authenticate(h) PROVE CallAuthorised'
  BY <1>4 DEF Authenticate
<1>5. ASSUME NEW h \in Handlers, ReadClientRpm(h) PROVE CallAuthorised'
  BY <1>5 DEF ReadClientRpm, Dispatch
<1>6. ASSUME NEW h \in Handlers, ReadGlobalRpm(h) PROVE CallAuthorised'
  BY <1>6 DEF ReadGlobalRpm, Dispatch
<1>7. ASSUME NEW h \in Handlers, TakeToken(h) PROVE CallAuthorised'
  BY <1>7 DEF TakeToken, Dispatch
<1>8. ASSUME NEW h \in Handlers, Authorize(h) PROVE CallAuthorised'
  BY <1>8 DEF Authorize
<1>9. ASSUME NEW h \in Handlers, Route(h) PROVE CallAuthorised'
  <2>1. sent' = sent /\ req' = req /\ seenC' = seenC /\ seenS' = seenS /\ ~sent[h]
    BY <1>9 DEF Route
  <2>2. srv' = srv \/ srv' = [srv EXCEPT ![h] = servers[req[h].name.server]]
    BY <1>9 DEF Route
  <2>3. \A g \in Handlers : g # h => srv'[g] = srv[g]
    BY <2>2
  <2> QED BY <2>1, <2>3
<1>10. ASSUME NEW h \in Handlers, Forward(h) PROVE CallAuthorised'
  BY <1>10 DEF Forward
<1>11. ASSUME NEW h \in Handlers, ListClient(h) PROVE CallAuthorised'
  BY <1>11 DEF ListClient
<1>12. ASSUME NEW h \in Handlers, ListDone(h) PROVE CallAuthorised'
  BY <1>12 DEF ListDone
<1>13. ASSUME NEW h \in Handlers, Collect(h) PROVE CallAuthorised'
  BY <1>13 DEF Collect
<1>14. ASSUME NEW h \in Handlers, CacheHit(h) PROVE CallAuthorised'
  BY <1>14 DEF CacheHit, Show
<1>15. ASSUME NEW h \in Handlers, CacheMiss(h) PROVE CallAuthorised'
  BY <1>15 DEF CacheMiss
<1>16. ASSUME NEW h \in Handlers, FetchSucceeds(h) PROVE CallAuthorised'
  BY <1>16 DEF FetchSucceeds
<1>17. ASSUME NEW h \in Handlers, FetchFails(h) PROVE CallAuthorised'
  BY <1>17 DEF FetchFails
<1>18. ASSUME NEW h \in Handlers, FetchRaises(h) PROVE CallAuthorised'
  BY <1>18 DEF FetchRaises
<1>19. ASSUME NEW h \in Handlers, CacheStore(h) PROVE CallAuthorised'
  BY <1>19 DEF CacheStore, Show
<1>20. ASSUME NEW h \in Handlers, NEW s \in ServerIds, ListServer(h, s) PROVE CallAuthorised'
  BY <1>20 DEF ListServer
<1>21. ASSUME NEW o \in Operators, NEW cfg \in Configs, BeginApply(o, cfg) PROVE CallAuthorised'
  BY <1>21 DEF BeginApply, TakeWriteLock, ApplyStep, unchangedByApply
<1>22. ASSUME NEW o \in Operators, ReloadFails(o) PROVE CallAuthorised'
  BY <1>22 DEF ReloadFails, ApplyStep, unchangedByApply
<1>23. ASSUME NEW o \in Operators, SwapClients(o) PROVE CallAuthorised'
  BY <1>23 DEF SwapClients, ApplyStep, unchangedByApply
<1>24. ASSUME NEW o \in Operators, SwapServers(o) PROVE CallAuthorised'
  BY <1>24 DEF SwapServers, ApplyStep, unchangedByApply
<1>25. ASSUME NEW o \in Operators, SwapRpm(o) PROVE CallAuthorised'
  BY <1>25 DEF SwapRpm, ApplyStep, unchangedByApply
<1>26. ASSUME NEW o \in Operators, ReleaseLock(o) PROVE CallAuthorised'
  BY <1>26 DEF ReleaseLock, ApplyStep, unchangedByApply
<1>27. ASSUME NEW o \in Operators, ClearLimiters(o) PROVE CallAuthorised'
  BY <1>27 DEF ClearLimiters, ApplyStep, unchangedByApply
<1>28. ASSUME NEW o \in Operators, InvalidateCache(o) PROVE CallAuthorised'
  BY <1>28 DEF InvalidateCache, ApplyStep, unchangedByApply
<1>29. ASSUME NEW o \in Operators, ApplyRaises(o) PROVE CallAuthorised'
  BY <1>29 DEF ApplyRaises, ApplyStep, unchangedByApply
<1>30. CASE UNCHANGED vars
  BY <1>30 DEF vars
<1> QED
  BY <1>1, <1>2, <1>3, <1>4, <1>5, <1>6, <1>7, <1>8, <1>9, <1>10, <1>11, <1>12, <1>13, <1>14, <1>15, <1>16, <1>17, <1>18, <1>19, <1>20, <1>21, <1>22, <1>23, <1>24, <1>25, <1>26, <1>27, <1>28, <1>29, <1>30 DEF Next, HandlerStep, OperatorStep

(* What a collected server adds to the list is permitted like the rest.      *)
LEMMA AppendKeepsListing ==
  ASSUME TypeOK, GrantsHeld, ListingAuthorised, NEW h \in Handlers, NEW list,
         pc[h] \in Collecting, AppendPermitted(h, list),
         req' = req, seenC' = seenC, seenS' = seenS
  PROVE  ListingAuthorised'
<1>1. /\ tools \in [Handlers -> SUBSET (ServerIds \X Tools)]
      /\ \A g \in Handlers : g # h => tools'[g] = tools[g]
      /\ tools'[h] = tools[h] \cup {<<cur[h], t>> : t \in {u \in list : ToolAllowed(srv[h], u)}}
  BY DEF TypeOK, ThreadTypeOK, AppendPermitted
<1>2. TokenWasValid(h) /\ ServerWasAllowed(h, cur[h]) /\ EntryWasRead(h, cur[h])
  BY DEF GrantsHeld, GrantHeld, Collecting, Judging
<1>3. \A u \in list : ToolAllowed(srv[h], u) => ToolWasPermitted(h, cur[h], u)
  BY <1>2, AuthorizeToolMeaning DEF EntryWasRead, ToolAllowed, ToolWasPermitted
<1>4. ASSUME NEW g \in Handlers, NEW entry \in tools'[g]
      PROVE  TokenWasValid(g) /\ ServerWasAllowed(g, entry[1]) /\ ToolWasPermitted(g, entry[1], entry[2])
  <2>1. CASE entry \in tools[g]
    BY <2>1 DEF ListingAuthorised
  <2>2. CASE entry \notin tools[g]
    <3>1. g = h
      BY <1>1, <2>2
    <3>2. PICK t \in list : entry = <<cur[h], t>> /\ ToolAllowed(srv[h], t)
      BY <1>1, <2>2, <3>1
    <3> QED BY <3>1, <3>2, <1>2, <1>3
  <2> QED BY <2>1, <2>2
<1> QED BY <1>4 DEF ListingAuthorised, TokenWasValid, ServerWasAllowed, ToolWasPermitted

(* Tools enter the answer only through AppendPermitted, under the policy of  *)
(* an entry the thread has seen live (daemon.py:622-653).                    *)
LEMMA ListingStep == TypeOK /\ TypeOK' /\ GrantsHeld /\ ListingAuthorised /\ [Next]_vars => ListingAuthorised'
<1> SUFFICES ASSUME TypeOK, TypeOK', GrantsHeld, ListingAuthorised, [Next]_vars PROVE ListingAuthorised'
  OBVIOUS
<1> USE DEF TypeOK, ThreadTypeOK, HistoryTypeOK, GrantsHeld, GrantHeld, Judging, Collecting,
        registry, locals, apply, history, Goto, Answer, AuditRaises, ListingAuthorised, TokenWasValid,
        ServerWasAllowed, ToolWasPermitted, EntryWasRead
<1>1. ASSUME NEW h \in Handlers, NEW q \in Incoming, Accept(h, q) PROVE ListingAuthorised'
  BY <1>1 DEF Accept
<1>2. ASSUME NEW h \in Handlers, Close(h) PROVE ListingAuthorised'
  BY <1>2 DEF Close
<1>3. ASSUME NEW h \in Handlers, ProbeLimit(h) PROVE ListingAuthorised'
  BY <1>3 DEF ProbeLimit
<1>4. ASSUME NEW h \in Handlers, Authenticate(h) PROVE ListingAuthorised'
  BY <1>4 DEF Authenticate
<1>5. ASSUME NEW h \in Handlers, ReadClientRpm(h) PROVE ListingAuthorised'
  BY <1>5 DEF ReadClientRpm, Dispatch
<1>6. ASSUME NEW h \in Handlers, ReadGlobalRpm(h) PROVE ListingAuthorised'
  BY <1>6 DEF ReadGlobalRpm, Dispatch
<1>7. ASSUME NEW h \in Handlers, TakeToken(h) PROVE ListingAuthorised'
  BY <1>7 DEF TakeToken, Dispatch
<1>8. ASSUME NEW h \in Handlers, Authorize(h) PROVE ListingAuthorised'
  BY <1>8 DEF Authorize
<1>9. ASSUME NEW h \in Handlers, Route(h) PROVE ListingAuthorised'
  BY <1>9 DEF Route
<1>10. ASSUME NEW h \in Handlers, Forward(h) PROVE ListingAuthorised'
  BY <1>10 DEF Forward
<1>11. ASSUME NEW h \in Handlers, ListClient(h) PROVE ListingAuthorised'
  BY <1>11 DEF ListClient
<1>12. ASSUME NEW h \in Handlers, ListDone(h) PROVE ListingAuthorised'
  BY <1>12 DEF ListDone
<1>13. ASSUME NEW h \in Handlers, Collect(h) PROVE ListingAuthorised'
  BY <1>13 DEF Collect
<1>14. ASSUME NEW h \in Handlers, CacheHit(h) PROVE ListingAuthorised'
  <2>1. /\ pc[h] \in Collecting
        /\ AppendPermitted(h, cache[cur[h]].tools) \/ tools' = tools
    BY <1>14 DEF CacheHit, Show
  <2>2. req' = req /\ seenC' = seenC /\ seenS' = seenS
    BY <1>14 DEF CacheHit, Show
  <2>3. CASE tools' = tools
    BY <2>2, <2>3
  <2> QED BY <2>1, <2>2, <2>3, AppendKeepsListing
<1>15. ASSUME NEW h \in Handlers, CacheMiss(h) PROVE ListingAuthorised'
  BY <1>15 DEF CacheMiss
<1>16. ASSUME NEW h \in Handlers, FetchSucceeds(h) PROVE ListingAuthorised'
  BY <1>16 DEF FetchSucceeds
<1>17. ASSUME NEW h \in Handlers, FetchFails(h) PROVE ListingAuthorised'
  BY <1>17 DEF FetchFails
<1>18. ASSUME NEW h \in Handlers, FetchRaises(h) PROVE ListingAuthorised'
  BY <1>18 DEF FetchRaises
<1>19. ASSUME NEW h \in Handlers, CacheStore(h) PROVE ListingAuthorised'
  <2>1. /\ pc[h] \in Collecting
        /\ AppendPermitted(h, fetched[h]) \/ tools' = tools
    BY <1>19 DEF CacheStore, Show
  <2>2. req' = req /\ seenC' = seenC /\ seenS' = seenS
    BY <1>19 DEF CacheStore, Show
  <2>3. CASE tools' = tools
    BY <2>2, <2>3
  <2> QED BY <2>1, <2>2, <2>3, AppendKeepsListing
<1>20. ASSUME NEW h \in Handlers, NEW s \in ServerIds, ListServer(h, s) PROVE ListingAuthorised'
  BY <1>20 DEF ListServer
<1>21. ASSUME NEW o \in Operators, NEW cfg \in Configs, BeginApply(o, cfg) PROVE ListingAuthorised'
  BY <1>21 DEF BeginApply, TakeWriteLock, ApplyStep, unchangedByApply
<1>22. ASSUME NEW o \in Operators, ReloadFails(o) PROVE ListingAuthorised'
  BY <1>22 DEF ReloadFails, ApplyStep, unchangedByApply
<1>23. ASSUME NEW o \in Operators, SwapClients(o) PROVE ListingAuthorised'
  BY <1>23 DEF SwapClients, ApplyStep, unchangedByApply
<1>24. ASSUME NEW o \in Operators, SwapServers(o) PROVE ListingAuthorised'
  BY <1>24 DEF SwapServers, ApplyStep, unchangedByApply
<1>25. ASSUME NEW o \in Operators, SwapRpm(o) PROVE ListingAuthorised'
  BY <1>25 DEF SwapRpm, ApplyStep, unchangedByApply
<1>26. ASSUME NEW o \in Operators, ReleaseLock(o) PROVE ListingAuthorised'
  BY <1>26 DEF ReleaseLock, ApplyStep, unchangedByApply
<1>27. ASSUME NEW o \in Operators, ClearLimiters(o) PROVE ListingAuthorised'
  BY <1>27 DEF ClearLimiters, ApplyStep, unchangedByApply
<1>28. ASSUME NEW o \in Operators, InvalidateCache(o) PROVE ListingAuthorised'
  BY <1>28 DEF InvalidateCache, ApplyStep, unchangedByApply
<1>29. ASSUME NEW o \in Operators, ApplyRaises(o) PROVE ListingAuthorised'
  BY <1>29 DEF ApplyRaises, ApplyStep, unchangedByApply
<1>30. CASE UNCHANGED vars
  BY <1>30 DEF vars
<1> QED
  BY <1>1, <1>2, <1>3, <1>4, <1>5, <1>6, <1>7, <1>8, <1>9, <1>10, <1>11, <1>12, <1>13, <1>14, <1>15, <1>16, <1>17, <1>18, <1>19, <1>20, <1>21, <1>22, <1>23, <1>24, <1>25, <1>26, <1>27, <1>28, <1>29, <1>30 DEF Next, HandlerStep, OperatorStep

-----------------------------------------------------------------------------
(* The audit trail.                                                         *)

(* _audit adds one record to its thread's trail and touches no other's.      *)
LEMMA AuditAdds ==
  ASSUME TypeOK, NEW h \in Handlers, NEW event, NEW allowed \in BOOLEAN, Audit(h, event, allowed)
  PROVE  /\ trail'[h] = trail[h] \cup {<<event, allowed>>}
         /\ \A g \in Handlers : g # h => trail'[g] = trail[g]
BY DEF TypeOK, HistoryTypeOK, Audit

(* What TrailByStep and AuditTrail say of one handler.                       *)
TrailOf(h) ==
  /\ pc[h] \in Judging => trail[h] = {}
  /\ pc[h] \in {"client_rpm", "global_rpm", "bucket", "authorize"} => trail[h] = TokenGranted
  /\ pc[h] \in {"route", "forward"} => trail[h] = ServerGranted
  /\ pc[h] # "replied" => reply[h] = "none" /\ ~sent[h]
  /\ sent[h] => trail[h] = ServerGranted
  /\ reply[h] = "rate_limited" => trail[h] = RateRefused
  /\ reply[h] = "server_not_allowed" => trail[h] = ServerRefused
  /\ reply[h] = "tool_denied" => trail[h] = ToolRefused

(* The invariant and its strengthening speak of each handler by itself.      *)
LEMMA TrailOfAll == TrailByStep /\ AuditTrail <=> \A h \in Handlers : TrailOf(h)
BY DEF TrailByStep, AuditTrail, TrailOf

(* A step of one handler leaves the others' trails alone.                    *)
SameTrail(g) ==
  pc'[g] = pc[g] /\ trail'[g] = trail[g] /\ reply'[g] = reply[g] /\ sent'[g] = sent[g]

(* So a step of one handler needs looking at for that handler alone.         *)
LEMMA TrailByHandler ==
  ASSUME \A g \in Handlers : TrailOf(g), NEW h \in Handlers, TrailOf(h)',
         \A g \in Handlers : g # h => SameTrail(g)
  PROVE  \A g \in Handlers : TrailOf(g)'
BY DEF TrailOf, SameTrail

(* Every step leaves the records that the place it leads to requires         *)
(* (daemon.py:151-187, 601-611, 673-685).                                    *)
LEMMA TrailStep == TypeOK /\ TypeOK' /\ (\A g \in Handlers : TrailOf(g)) /\ [Next]_vars => (\A g \in Handlers : TrailOf(g)')
<1> SUFFICES ASSUME TypeOK, TypeOK', (\A g \in Handlers : TrailOf(g)), [Next]_vars PROVE (\A g \in Handlers : TrailOf(g)')
  OBVIOUS
<1> USE DEF TypeOK, ThreadTypeOK, HistoryTypeOK, registry, locals, apply, history, Goto, Answer, AuditRaises
<1>1. ASSUME NEW h \in Handlers, NEW q \in Incoming, Accept(h, q) PROVE (\A g \in Handlers : TrailOf(g)')
  <2>1. \A g \in Handlers : g # h => SameTrail(g)
    BY <1>1 DEF Accept, SameTrail, Probes
  <2>2. TrailOf(h)'
    BY <1>1 DEF Accept, TrailOf, Judging, Probes
  <2> QED BY <2>1, <2>2, TrailByHandler
<1>2. ASSUME NEW h \in Handlers, Close(h) PROVE (\A g \in Handlers : TrailOf(g)')
  <2>1. \A g \in Handlers : g # h => SameTrail(g)
    BY <1>2 DEF Close, SameTrail
  <2>2. TrailOf(h)'
    BY <1>2 DEF Close, TrailOf, Judging
  <2> QED BY <2>1, <2>2, TrailByHandler
<1>3. ASSUME NEW h \in Handlers, ProbeLimit(h) PROVE (\A g \in Handlers : TrailOf(g)')
  <2>1. \A g \in Handlers : g # h => SameTrail(g)
    BY <1>3 DEF ProbeLimit, SameTrail
  <2>2. TrailOf(h)'
    BY <1>3 DEF ProbeLimit, TrailOf, Judging
  <2> QED BY <2>1, <2>2, TrailByHandler
<1>4. ASSUME NEW h \in Handlers, Authenticate(h) PROVE (\A g \in Handlers : TrailOf(g)')
  <2>1. \A g \in Handlers : g # h => SameTrail(g)
    BY <1>4, AuditAdds, GrantsBoolean DEF Authenticate, SameTrail, AuthenticateRecords
  <2>2. ASSUME Answer(h, "dropped") /\ UNCHANGED trail PROVE TrailOf(h)'
    BY <1>4, <2>2 DEF Authenticate, TrailOf, Judging
  <2>3. ASSUME ~(Answer(h, "dropped") /\ UNCHANGED trail) PROVE TrailOf(h)'
    <3>1. Authenticated(req[h]) => req[h].client_id # NoId /\ req[h].token # NoToken
      BY <1>4, AuthenticateMeaning, LiveTablesTyped, GatewayAssumption
         DEF Authenticated, HoldsToken, TypeOK
    <3>2. Authenticated(req[h]) => trail'[h] = TokenGranted
      <4>0. Audit(h, "client_auth", Authenticated(req[h]))
              => trail'[h] = trail[h] \cup {<<"client_auth", Authenticated(req[h])>>}
        BY AuditAdds, GrantsBoolean
      <4> SUFFICES ASSUME Authenticated(req[h]) PROVE trail'[h] = TokenGranted
        OBVIOUS
      <4>1. Authenticated(req[h]) = TRUE
        BY GrantsBoolean
      <4>2. Audit(h, "client_auth", Authenticated(req[h]))
        BY <1>4, <2>3, <3>1 DEF Authenticate, AuthenticateRecords, Incomplete
      <4>3. trail'[h] = trail[h] \cup {<<"client_auth", Authenticated(req[h])>>}
        BY <4>0, <4>2
      <4>4. trail[h] = {}
        BY <1>4 DEF Authenticate, TrailOf, Judging
      <4> QED BY <4>1, <4>3, <4>4 DEF TokenGranted
    <3>3. \/ ~Authenticated(req[h]) /\ pc'[h] = "replied" /\ reply'[h] = "unauthorized"
          \/ Authenticated(req[h]) /\ pc'[h] = "replied" /\ reply'[h] = "ok"
          \/ Authenticated(req[h]) /\ pc'[h] \in {"authorize", "client_rpm"} /\ reply'[h] = reply[h]
      BY <1>4, <2>3 DEF Authenticate
    <3>4. sent' = sent /\ pc[h] = "authenticate" /\ reply[h] = "none" /\ ~sent[h]
      BY <1>4 DEF Authenticate, TrailOf
    <3> QED BY <3>2, <3>3, <3>4 DEF TrailOf, Judging
  <2> QED BY <2>1, <2>2, <2>3, TrailByHandler
<1>5. ASSUME NEW h \in Handlers, ReadClientRpm(h) PROVE (\A g \in Handlers : TrailOf(g)')
  <2>1. \A g \in Handlers : g # h => SameTrail(g)
    BY <1>5 DEF ReadClientRpm, SameTrail, Dispatch
  <2>2. TrailOf(h)'
    BY <1>5 DEF ReadClientRpm, TrailOf, Judging, Dispatch
  <2> QED BY <2>1, <2>2, TrailByHandler
<1>6. ASSUME NEW h \in Handlers, ReadGlobalRpm(h) PROVE (\A g \in Handlers : TrailOf(g)')
  <2>1. \A g \in Handlers : g # h => SameTrail(g)
    BY <1>6 DEF ReadGlobalRpm, SameTrail, Dispatch
  <2>2. TrailOf(h)'
    BY <1>6 DEF ReadGlobalRpm, TrailOf, Judging, Dispatch
  <2> QED BY <2>1, <2>2, TrailByHandler
<1>7. ASSUME NEW h \in Handlers, TakeToken(h) PROVE (\A g \in Handlers : TrailOf(g)')
  <2>1. \A g \in Handlers : g # h => SameTrail(g)
    BY <1>7, AuditAdds DEF TakeToken, SameTrail, Dispatch
  <2>2. TrailOf(h)'
    <3>1. CASE Dispatch(h) /\ UNCHANGED trail
      BY <1>7, <3>1 DEF TakeToken, Dispatch, TrailOf, Judging
    <3>2. CASE Answer(h, "rate_limited") /\ Audit(h, "rate_limited", FALSE)
      <4>1. trail'[h] = trail[h] \cup {<<"rate_limited", FALSE>>}
        BY <3>2, AuditAdds
      <4>2. trail'[h] = RateRefused
        BY <1>7, <4>1 DEF TakeToken, TrailOf, RateRefused
      <4> QED BY <1>7, <3>2, <4>2 DEF TakeToken, TrailOf, Judging
    <3>3. CASE AuditRaises(h)
      BY <1>7, <3>3 DEF TakeToken, TrailOf, Judging
    <3> QED BY <1>7, <3>1, <3>2, <3>3 DEF TakeToken
  <2> QED BY <2>1, <2>2, TrailByHandler
<1>8. ASSUME NEW h \in Handlers, Authorize(h) PROVE (\A g \in Handlers : TrailOf(g)')
  <2>1. \A g \in Handlers : g # h => SameTrail(g)
    BY <1>8, AuditAdds, GrantsBoolean DEF Authorize, SameTrail
  <2>2. ASSUME AuditRaises(h) PROVE TrailOf(h)'
    BY <1>8, <2>2 DEF Authorize, TrailOf, Judging
  <2>3. ASSUME ~AuditRaises(h) PROVE TrailOf(h)'
    <3>0. sent' = sent /\ pc[h] = "authorize" /\ reply[h] = "none" /\ ~sent[h]
      BY <1>8 DEF Authorize, TrailOf
    <3>1. trail'[h] = trail[h] \cup {<<"server_auth", Authorized(req[h])>>}
      BY <1>8, <2>3, AuditAdds, GrantsBoolean DEF Authorize
    <3>2. CASE Authorized(req[h])
      <4>1. Authorized(req[h]) = TRUE
        BY <3>2, GrantsBoolean
      <4>2. trail'[h] = ServerGranted
        BY <1>8, <3>1, <4>1 DEF Authorize, TrailOf, ServerGranted
      <4>3. \/ pc'[h] = "replied" /\ reply'[h] = "ok"
            \/ pc'[h] = "route" /\ reply' = reply
        BY <1>8, <2>3, <3>2 DEF Authorize
      <4> QED BY <3>0, <4>2, <4>3 DEF TrailOf, Judging
    <3>3. CASE ~Authorized(req[h])
      <4>1. Authorized(req[h]) = FALSE
        BY <3>3, GrantsBoolean
      <4>2. trail'[h] = ServerRefused
        BY <1>8, <3>1, <4>1 DEF Authorize, TrailOf, ServerRefused
      <4>3. pc'[h] = "replied" /\ reply'[h] = "server_not_allowed"
        BY <1>8, <2>3, <3>3 DEF Authorize
      <4> QED BY <3>0, <4>2, <4>3 DEF TrailOf, Judging
    <3> QED BY <3>2, <3>3
  <2> QED BY <2>1, <2>2, <2>3, TrailByHandler
<1>9. ASSUME NEW h \in Handlers, Route(h) PROVE (\A g \in Handlers : TrailOf(g)')
  <2>1. \A g \in Handlers : g # h => SameTrail(g)
    <3>1. \A g \in Handlers : g # h => pc'[g] = pc[g] /\ reply'[g] = reply[g] /\ sent'[g] = sent[g]
      <4>1. /\ pc' = [pc EXCEPT ![h] = "replied"] \/ pc' = [pc EXCEPT ![h] = "forward"]
            /\ sent' = sent
        BY <1>9 DEF Route
      <4>2. \/ reply' = reply
            \/ \E what \in {"unknown_server", "tool_denied", "dropped"} :
                 reply' = [reply EXCEPT ![h] = what]
        BY <1>9 DEF Route
      <4> QED BY <4>1, <4>2
    <3>2. \A g \in Handlers : g # h => trail'[g] = trail[g]
      BY <1>9, AuditAdds DEF Route
    <3> QED BY <3>1, <3>2 DEF SameTrail
  <2>2. TrailOf(h)'
    <3>1. CASE \/ pc'[h] = "replied" /\ reply'[h] = "unknown_server" /\ UNCHANGED trail
               \/ pc'[h] = "forward" /\ reply'[h] = reply[h] /\ UNCHANGED trail
      BY <1>9, <3>1 DEF Route, TrailOf, Judging
    <3>2. CASE Answer(h, "tool_denied") /\ Audit(h, "tool_authz", FALSE)
      <4>1. trail'[h] = trail[h] \cup {<<"tool_authz", FALSE>>}
        BY <3>2, AuditAdds
      <4>2. trail'[h] = ToolRefused
        BY <1>9, <4>1 DEF Route, TrailOf, ToolRefused
      <4> QED BY <1>9, <3>2, <4>2 DEF Route, TrailOf, Judging
    <3>3. CASE AuditRaises(h)
      <4>1. pc'[h] = "replied" /\ reply'[h] = "dropped" /\ trail' = trail
        BY <3>3
      <4>2. sent' = sent /\ ~sent[h]
        BY <1>9 DEF Route, TrailOf
      <4> QED BY <4>1, <4>2 DEF TrailOf, Judging
    <3>4. CASE req[h].name.server \in DOMAIN servers
               /\ ~ToolAllowed(servers[req[h].name.server], req[h].name.tool)
      BY <1>9, <3>2, <3>3, <3>4 DEF Route
    <3>5. CASE ~(req[h].name.server \in DOMAIN servers
                 /\ ~ToolAllowed(servers[req[h].name.server], req[h].name.tool))
      <4>1. \/ pc'[h] = "replied" /\ reply'[h] = "unknown_server" /\ UNCHANGED trail
            \/ pc'[h] = "forward" /\ reply'[h] = reply[h] /\ UNCHANGED trail
        <5>1. CASE req[h].name.server \notin DOMAIN servers
          BY <1>9, <5>1 DEF Route
        <5>2. CASE req[h].name.server \in DOMAIN servers
          BY <1>9, <3>5, <5>2 DEF Route
        <5> QED BY <5>1, <5>2
      <4> QED BY <3>1, <4>1
    <3> QED BY <3>4, <3>5
  <2> QED BY <2>1, <2>2, TrailByHandler
<1>10. ASSUME NEW h \in Handlers, Forward(h) PROVE (\A g \in Handlers : TrailOf(g)')
  <2>1. \A g \in Handlers : g # h => SameTrail(g)
    BY <1>10 DEF Forward, SameTrail
  <2>2. TrailOf(h)'
    BY <1>10 DEF Forward, TrailOf, Judging
  <2> QED BY <2>1, <2>2, TrailByHandler
<1>11. ASSUME NEW h \in Handlers, ListClient(h) PROVE (\A g \in Handlers : TrailOf(g)')
  <2>1. \A g \in Handlers : g # h => SameTrail(g)
    BY <1>11 DEF ListClient, SameTrail
  <2>2. TrailOf(h)'
    BY <1>11 DEF ListClient, TrailOf, Judging
  <2> QED BY <2>1, <2>2, TrailByHandler
<1>12. ASSUME NEW h \in Handlers, ListDone(h) PROVE (\A g \in Handlers : TrailOf(g)')
  <2>1. \A g \in Handlers : g # h => SameTrail(g)
    BY <1>12 DEF ListDone, SameTrail
  <2>2. TrailOf(h)'
    BY <1>12 DEF ListDone, TrailOf, Judging
  <2> QED BY <2>1, <2>2, TrailByHandler
<1>13. ASSUME NEW h \in Handlers, Collect(h) PROVE (\A g \in Handlers : TrailOf(g)')
  <2>1. \A g \in Handlers : g # h => SameTrail(g)
    BY <1>13 DEF Collect, SameTrail
  <2>2. TrailOf(h)'
    BY <1>13 DEF Collect, TrailOf, Judging
  <2> QED BY <2>1, <2>2, TrailByHandler
<1>14. ASSUME NEW h \in Handlers, CacheHit(h) PROVE (\A g \in Handlers : TrailOf(g)')
  <2>1. \A g \in Handlers : g # h => SameTrail(g)
    BY <1>14 DEF CacheHit, Show, SameTrail
  <2>2. TrailOf(h)'
    BY <1>14 DEF CacheHit, Show, TrailOf, Judging
  <2> QED BY <2>1, <2>2, TrailByHandler
<1>15. ASSUME NEW h \in Handlers, CacheMiss(h) PROVE (\A g \in Handlers : TrailOf(g)')
  <2>1. \A g \in Handlers : g # h => SameTrail(g)
    BY <1>15 DEF CacheMiss, SameTrail
  <2>2. TrailOf(h)'
    BY <1>15 DEF CacheMiss, TrailOf, Judging
  <2> QED BY <2>1, <2>2, TrailByHandler
<1>16. ASSUME NEW h \in Handlers, FetchSucceeds(h) PROVE (\A g \in Handlers : TrailOf(g)')
  <2>1. \A g \in Handlers : g # h => SameTrail(g)
    BY <1>16 DEF FetchSucceeds, SameTrail
  <2>2. TrailOf(h)'
    BY <1>16 DEF FetchSucceeds, TrailOf, Judging
  <2> QED BY <2>1, <2>2, TrailByHandler
<1>17. ASSUME NEW h \in Handlers, FetchFails(h) PROVE (\A g \in Handlers : TrailOf(g)')
  <2>1. \A g \in Handlers : g # h => SameTrail(g)
    BY <1>17 DEF FetchFails, SameTrail
  <2>2. TrailOf(h)'
    BY <1>17 DEF FetchFails, TrailOf, Judging
  <2> QED BY <2>1, <2>2, TrailByHandler
<1>18. ASSUME NEW h \in Handlers, FetchRaises(h) PROVE (\A g \in Handlers : TrailOf(g)')
  <2>1. \A g \in Handlers : g # h => SameTrail(g)
    BY <1>18 DEF FetchRaises, SameTrail
  <2>2. TrailOf(h)'
    BY <1>18 DEF FetchRaises, TrailOf, Judging
  <2> QED BY <2>1, <2>2, TrailByHandler
<1>19. ASSUME NEW h \in Handlers, CacheStore(h) PROVE (\A g \in Handlers : TrailOf(g)')
  <2>1. \A g \in Handlers : g # h => SameTrail(g)
    BY <1>19 DEF CacheStore, Show, SameTrail
  <2>2. TrailOf(h)'
    BY <1>19 DEF CacheStore, Show, TrailOf, Judging
  <2> QED BY <2>1, <2>2, TrailByHandler
<1>20. ASSUME NEW h \in Handlers, NEW s \in ServerIds, ListServer(h, s) PROVE (\A g \in Handlers : TrailOf(g)')
  <2>1. \A g \in Handlers : g # h => SameTrail(g)
    BY <1>20 DEF ListServer, SameTrail
  <2>2. TrailOf(h)'
    BY <1>20 DEF ListServer, TrailOf, Judging
  <2> QED BY <2>1, <2>2, TrailByHandler
<1>21. ASSUME NEW o \in Operators, NEW cfg \in Configs, BeginApply(o, cfg) PROVE (\A g \in Handlers : TrailOf(g)')
  BY <1>21 DEF BeginApply, TakeWriteLock, ApplyStep, unchangedByApply, TrailOf
<1>22. ASSUME NEW o \in Operators, ReloadFails(o) PROVE (\A g \in Handlers : TrailOf(g)')
  BY <1>22 DEF ReloadFails, ApplyStep, unchangedByApply, TrailOf
<1>23. ASSUME NEW o \in Operators, SwapClients(o) PROVE (\A g \in Handlers : TrailOf(g)')
  BY <1>23 DEF SwapClients, ApplyStep, unchangedByApply, TrailOf
<1>24. ASSUME NEW o \in Operators, SwapServers(o) PROVE (\A g \in Handlers : TrailOf(g)')
  BY <1>24 DEF SwapServers, ApplyStep, unchangedByApply, TrailOf
<1>25. ASSUME NEW o \in Operators, SwapRpm(o) PROVE (\A g \in Handlers : TrailOf(g)')
  BY <1>25 DEF SwapRpm, ApplyStep, unchangedByApply, TrailOf
<1>26. ASSUME NEW o \in Operators, ReleaseLock(o) PROVE (\A g \in Handlers : TrailOf(g)')
  BY <1>26 DEF ReleaseLock, ApplyStep, unchangedByApply, TrailOf
<1>27. ASSUME NEW o \in Operators, ClearLimiters(o) PROVE (\A g \in Handlers : TrailOf(g)')
  BY <1>27 DEF ClearLimiters, ApplyStep, unchangedByApply, TrailOf
<1>28. ASSUME NEW o \in Operators, InvalidateCache(o) PROVE (\A g \in Handlers : TrailOf(g)')
  BY <1>28 DEF InvalidateCache, ApplyStep, unchangedByApply, TrailOf
<1>29. ASSUME NEW o \in Operators, ApplyRaises(o) PROVE (\A g \in Handlers : TrailOf(g)')
  BY <1>29 DEF ApplyRaises, ApplyStep, unchangedByApply, TrailOf
<1>30. CASE UNCHANGED vars
  BY <1>30 DEF vars, TrailOf
<1> QED
  BY <1>1, <1>2, <1>3, <1>4, <1>5, <1>6, <1>7, <1>8, <1>9, <1>10, <1>11, <1>12, <1>13, <1>14, <1>15, <1>16, <1>17, <1>18, <1>19, <1>20, <1>21, <1>22, <1>23, <1>24, <1>25, <1>26, <1>27, <1>28, <1>29, <1>30 DEF Next, HandlerStep, OperatorStep

-----------------------------------------------------------------------------
(* Refusals.                                                                *)

Refusals == {"unauthorized", "server_not_allowed", "unknown_server", "tool_denied"}

(* What RequestRefusedForCause says of one handler, with what tells when it  *)
(* has no answer yet.                                                        *)
RefusedWithCause(h) ==
  LET id == req[h].client_id  server == req[h].name.server IN
  /\ pc[h] # "replied" => reply[h] = "none"
  /\ reply[h] = "unauthorized" => \E t \in seenC[h] : ~HoldsToken(t, id, req[h].token)
  /\ reply[h] = "server_not_allowed" =>
       \E t \in seenC[h] : ~(id \in DOMAIN t /\ server \in t[id].allow_servers)
  /\ reply[h] = "unknown_server" => \E t \in seenS[h] : server \notin DOMAIN t
  /\ reply[h] = "tool_denied" =>
       \E t \in seenS[h] : server \in DOMAIN t /\ ~Permits(t[server].tool_policy, req[h].name.tool)

(* A thread whose answer stands keeps its cause, tables being only added to   *)
(* what it has seen; one without a refusal needs none.                       *)
AnswerStands(g) ==
  /\ pc'[g] # "replied" => reply'[g] = "none"
  /\ \/ reply'[g] \notin Refusals
     \/ /\ reply'[g] = reply[g] /\ req'[g] = req[g]
        /\ seenC[g] \subseteq seenC'[g] /\ seenS[g] \subseteq seenS'[g]

LEMMA CauseStands ==
  ASSUME NEW g \in Handlers, RefusedWithCause(g), AnswerStands(g)
  PROVE  RefusedWithCause(g)'
BY DEF RefusedWithCause, AnswerStands, Refusals

(* The four steps that refuse; under every other the answers stand.          *)
RefusingStep(h) == Authenticate(h) \/ ListClient(h) \/ Authorize(h) \/ Route(h)

LEMMA AnswersStand ==
  ASSUME TypeOK, \A g \in Handlers : RefusedWithCause(g), [Next]_vars, NEW g \in Handlers
  PROVE  AnswerStands(g) \/ RefusingStep(g)
<1> USE DEF TypeOK, ThreadTypeOK, HistoryTypeOK, registry, locals, apply, history, Goto, Answer,
        AuditRaises, AnswerStands, RefusedWithCause, Refusals
<1>1. ASSUME NEW h \in Handlers, NEW q \in Incoming, Accept(h, q) PROVE AnswerStands(g)
  BY <1>1 DEF Accept
<1>2. ASSUME NEW h \in Handlers, Close(h) PROVE AnswerStands(g)
  BY <1>2 DEF Close
<1>3. ASSUME NEW h \in Handlers, RefusingStep(h), h # g PROVE AnswerStands(g)
  BY <1>3 DEF RefusingStep, Authenticate, ListClient, Authorize, Route
<1>4. ASSUME NEW h \in Handlers, ProbeLimit(h) \/ Forward(h) \/ ListDone(h) PROVE AnswerStands(g)
  BY <1>4 DEF ProbeLimit, Forward, ListDone
<1>5. ASSUME NEW h \in Handlers, ReadClientRpm(h) \/ ReadGlobalRpm(h) \/ TakeToken(h)
      PROVE  AnswerStands(g)
  <2>1. UNCHANGED <<req, seenC, seenS>> /\ pc[h] # "replied"
    BY <1>5 DEF ReadClientRpm, ReadGlobalRpm, TakeToken
  <2>2. Dispatch(h) \/ Goto(h, "bucket") \/ Goto(h, "global_rpm")
        \/ Answer(h, "rate_limited") \/ Answer(h, "dropped")
    BY <1>5 DEF ReadClientRpm, ReadGlobalRpm, TakeToken
  <2>3. \/ UNCHANGED reply /\ \E d \in Steps : d # "replied" /\ pc' = [pc EXCEPT ![h] = d]
        \/ /\ pc' = [pc EXCEPT ![h] = "replied"]
           /\ \E r \in Replies \ Refusals : reply' = [reply EXCEPT ![h] = r]
    BY <2>2 DEF Dispatch, Steps, Replies
  <2> QED BY <2>1, <2>3
<1>6. ASSUME NEW h \in Handlers, NEW s \in ServerIds, ListServer(h, s) PROVE AnswerStands(g)
  BY <1>6 DEF ListServer
<1>7. ASSUME NEW h \in Handlers, Collect(h) \/ CacheHit(h) \/ CacheMiss(h) \/ CacheStore(h)
      PROVE  AnswerStands(g)
  BY <1>7 DEF Collect, CacheHit, Show, CacheMiss, CacheStore
<1>8. ASSUME NEW h \in Handlers, FetchSucceeds(h) \/ FetchFails(h) \/ FetchRaises(h)
      PROVE  AnswerStands(g)
  BY <1>8 DEF FetchSucceeds, FetchFails, FetchRaises
<1>9. ASSUME NEW o \in Operators, (\E cfg \in Configs : BeginApply(o, cfg)) \/ OperatorStep(o)
      PROVE  AnswerStands(g)
  BY <1>9 DEF BeginApply, OperatorStep, ReloadFails, SwapClients, SwapServers, SwapRpm, ReleaseLock,
              ApplyRaises, ClearLimiters, InvalidateCache, unchangedByApply
<1>10. CASE UNCHANGED vars
  BY <1>10 DEF vars
<1> QED
  BY <1>1, <1>2, <1>3, <1>4, <1>5, <1>6, <1>7, <1>8, <1>9, <1>10
     DEF Next, HandlerStep, RefusingStep

(* Each of the four refuses by the table that is live, which GrantHeld says   *)
(* its thread has seen.                                                      *)
LEMMA RefusingSteps ==
  ASSUME TypeOK, GrantsHeld, NEW h \in Handlers, RefusedWithCause(h), RefusingStep(h)
  PROVE  RefusedWithCause(h)'
<1>1. /\ pc[h] \in {"authenticate", "list_client", "authorize", "route"} /\ reply[h] = "none"
      /\ UNCHANGED <<seenC, seenS, req, clients, servers>>
  BY DEF RefusingStep, Authenticate, ListClient, Authorize, Route, RefusedWithCause, registry, history
<1>2. clients \in seenC[h] /\ servers \in seenS[h]
  BY <1>1 DEF GrantsHeld, GrantHeld
<1> USE DEF TypeOK, ThreadTypeOK, Goto, Answer, AuditRaises, RefusedWithCause
<1>3. CASE Authenticate(h)
  <2>1. ~Authenticated(req[h]) => ~HoldsToken(clients, req[h].client_id, req[h].token)
    BY AuthenticateMeaning DEF Authenticated
  <2> QED BY <1>1, <1>2, <1>3, <2>1 DEF Authenticate
<1>4. CASE ListClient(h)
  <2>1. reply'[h] = "unauthorized" => ~HoldsToken(clients, req[h].client_id, req[h].token)
    BY <1>1, <1>4 DEF ListClient, HoldsToken
  <2> QED BY <1>1, <1>2, <1>4, <2>1 DEF ListClient
<1>5. CASE Authorize(h)
  <2>1. ~Authorized(req[h]) =>
          ~(/\ req[h].client_id \in DOMAIN clients
            /\ req[h].name.server \in clients[req[h].client_id].allow_servers)
    BY AuthorizeServerMeaning DEF Authorized
  <2> QED BY <1>1, <1>2, <1>5, <2>1 DEF Authorize
<1>6. CASE Route(h)
  <2>1. ~ToolAllowed(servers[req[h].name.server], req[h].name.tool) =>
          ~Permits(servers[req[h].name.server].tool_policy, req[h].name.tool)
    BY AuthorizeToolMeaning DEF ToolAllowed
  <2> QED BY <1>1, <1>2, <1>6, <2>1 DEF Route
<1> QED BY <1>3, <1>4, <1>5, <1>6 DEF RefusingStep

(* Every step keeps the causes.                                              *)
LEMMA CausesStep ==
  ASSUME TypeOK, GrantsHeld, \A g \in Handlers : RefusedWithCause(g), [Next]_vars
  PROVE  \A g \in Handlers : RefusedWithCause(g)'
BY AnswersStand, CauseStands, RefusingSteps

-----------------------------------------------------------------------------
(* The theorems.                                                            *)

(* No thread has been granted, has sent or has recorded anything to begin    *)
(* with.                                                                     *)
LEMMA InitSafe == Init => GrantsHeld /\ CallAuthorised /\ ListingAuthorised
                          /\ \A h \in Handlers : TrailOf(h)
BY DEF Init, GrantsHeld, GrantHeld, CallAuthorised, ListingAuthorised, TrailOf, Judging, Collecting

(* No interleaving of requests and applies lets a tools/call reach an        *)
(* upstream that the registry has not allowed it since the request arrived   *)
(* (daemon.py:570-716, 151-187; management.py:316-319).                      *)
THEOREM CallsAreAuthorised == Spec => []CallAuthorised
<1>1. Init => TypeOK /\ GrantsHeld /\ CallAuthorised
  BY InitTyped, InitSafe
<1>2. TypeOK /\ GrantsHeld /\ CallAuthorised /\ [Next]_vars
      => (TypeOK /\ GrantsHeld /\ CallAuthorised)'
  BY NextTyped, GrantsStep, CallStep
<1> QED BY <1>1, <1>2, PTL DEF Spec

(* No interleaving, and no stale cache entry, puts a tool into a tools/list  *)
(* answer that the registry has not permitted since the request arrived      *)
(* (daemon.py:622-653, 290-334).                                             *)
THEOREM ListingsAreAuthorised == Spec => []ListingAuthorised
<1>1. Init => TypeOK /\ GrantsHeld /\ ListingAuthorised
  BY InitTyped, InitSafe
<1>2. TypeOK /\ GrantsHeld /\ ListingAuthorised /\ [Next]_vars
      => (TypeOK /\ GrantsHeld /\ ListingAuthorised)'
  BY NextTyped, GrantsStep, ListingStep
<1> QED BY <1>1, <1>2, PTL DEF Spec

(* The audit records of a request are always those of the decisions taken    *)
(* on it so far (daemon.py:151-187, 601-611, 673-685).                       *)
THEOREM AuditTrailKept == Spec => []AuditTrail
<1>1. Init => TypeOK /\ \A h \in Handlers : TrailOf(h)
  BY InitTyped, InitSafe
<1>2. TypeOK /\ (\A h \in Handlers : TrailOf(h)) /\ [Next]_vars
      => (TypeOK /\ \A h \in Handlers : TrailOf(h))'
  BY NextTyped, TrailStep
<1>3. (\A h \in Handlers : TrailOf(h)) => AuditTrail
  BY TrailOfAll
<1> QED BY <1>1, <1>2, <1>3, PTL DEF Spec

(* Whatever the interleaving of requests and applies, none of the four        *)
(* refusals is given to a request that every table live meanwhile would have  *)
(* let through (daemon.py:151-187, 596-629, 662-685).                         *)
THEOREM RequestsAreRefusedForCause == Spec => []RequestRefusedForCause
<1> DEFINE Causes == \A g \in Handlers : RefusedWithCause(g)
<1>1. Init => TypeOK /\ GrantsHeld /\ Causes
  BY InitTyped, InitSafe DEF Init, RefusedWithCause
<1>2. TypeOK /\ GrantsHeld /\ Causes /\ [Next]_vars => (TypeOK /\ GrantsHeld /\ Causes)'
  BY NextTyped, GrantsStep, CausesStep
<1>3. Causes => RequestRefusedForCause
  BY DEF RefusedWithCause, RequestRefusedForCause
<1> QED BY <1>1, <1>2, <1>3, PTL DEF Spec

-----------------------------------------------------------------------------
(* The hot reload: what an apply leaves of the live registry, the rate limiters *)
(* and the tools cache.                                                      *)

(* Only the holder of the write lock assigns to the live registry, and it    *)
(* gives the lock back after the last assignment (management.py:239-350).    *)
LEMMA SwapStep == TypeOK /\ TypeOK' /\ SwapOrder /\ [Next]_vars => SwapOrder'
<1> SUFFICES ASSUME TypeOK, TypeOK', SwapOrder, [Next]_vars PROVE SwapOrder'
  OBVIOUS
<1> USE DEF TypeOK, ApplyTypeOK, registry, locals, apply, history, Goto, Answer, AuditRaises, SwapOrder, Whole, ApplySteps
<1>1. ASSUME NEW h \in Handlers, NEW q \in Incoming, Accept(h, q) PROVE SwapOrder'
  BY <1>1 DEF Accept
<1>2. ASSUME NEW h \in Handlers, Close(h) PROVE SwapOrder'
  BY <1>2 DEF Close
<1>3. ASSUME NEW h \in Handlers, ProbeLimit(h) PROVE SwapOrder'
  BY <1>3 DEF ProbeLimit
<1>4. ASSUME NEW h \in Handlers, Authenticate(h) PROVE SwapOrder'
  BY <1>4 DEF Authenticate
<1>5. ASSUME NEW h \in Handlers, ReadClientRpm(h) PROVE SwapOrder'
  BY <1>5 DEF ReadClientRpm, Dispatch
<1>6. ASSUME NEW h \in Handlers, ReadGlobalRpm(h) PROVE SwapOrder'
  BY <1>6 DEF ReadGlobalRpm, Dispatch
<1>7. ASSUME NEW h \in Handlers, TakeToken(h) PROVE SwapOrder'
  BY <1>7 DEF TakeToken, Dispatch
<1>8. ASSUME NEW h \in Handlers, Authorize(h) PROVE SwapOrder'
  BY <1>8 DEF Authorize
<1>9. ASSUME NEW h \in Handlers, Route(h) PROVE SwapOrder'
  BY <1>9 DEF Route
<1>10. ASSUME NEW h \in Handlers, Forward(h) PROVE SwapOrder'
  BY <1>10 DEF Forward
<1>11. ASSUME NEW h \in Handlers, ListClient(h) PROVE SwapOrder'
  BY <1>11 DEF ListClient
<1>12. ASSUME NEW h \in Handlers, ListDone(h) PROVE SwapOrder'
  BY <1>12 DEF ListDone
<1>13. ASSUME NEW h \in Handlers, Collect(h) PROVE SwapOrder'
  BY <1>13 DEF Collect
<1>14. ASSUME NEW h \in Handlers, CacheHit(h) PROVE SwapOrder'
  BY <1>14 DEF CacheHit, Show
<1>15. ASSUME NEW h \in Handlers, CacheMiss(h) PROVE SwapOrder'
  BY <1>15 DEF CacheMiss
<1>16. ASSUME NEW h \in Handlers, FetchSucceeds(h) PROVE SwapOrder'
  BY <1>16 DEF FetchSucceeds
<1>17. ASSUME NEW h \in Handlers, FetchFails(h) PROVE SwapOrder'
  BY <1>17 DEF FetchFails
<1>18. ASSUME NEW h \in Handlers, FetchRaises(h) PROVE SwapOrder'
  BY <1>18 DEF FetchRaises
<1>19. ASSUME NEW h \in Handlers, CacheStore(h) PROVE SwapOrder'
  BY <1>19 DEF CacheStore, Show
<1>20. ASSUME NEW h \in Handlers, NEW s \in ServerIds, ListServer(h, s) PROVE SwapOrder'
  BY <1>20 DEF ListServer
<1>21. ASSUME NEW o \in Operators, NEW cfg \in Configs, BeginApply(o, cfg) PROVE SwapOrder'
  BY <1>21 DEF BeginApply, TakeWriteLock, ApplyStep, unchangedByApply
<1>22. ASSUME NEW o \in Operators, ReloadFails(o) PROVE SwapOrder'
  BY <1>22 DEF ReloadFails, ApplyStep, unchangedByApply
<1>23. ASSUME NEW o \in Operators, SwapClients(o) PROVE SwapOrder'
  BY <1>23 DEF SwapClients, ApplyStep, unchangedByApply
<1>24. ASSUME NEW o \in Operators, SwapServers(o) PROVE SwapOrder'
  BY <1>24 DEF SwapServers, ApplyStep, unchangedByApply
<1>25. ASSUME NEW o \in Operators, SwapRpm(o) PROVE SwapOrder'
  BY <1>25 DEF SwapRpm, ApplyStep, unchangedByApply
<1>26. ASSUME NEW o \in Operators, ReleaseLock(o) PROVE SwapOrder'
  BY <1>26 DEF ReleaseLock, ApplyStep, unchangedByApply
<1>27. ASSUME NEW o \in Operators, ClearLimiters(o) PROVE SwapOrder'
  BY <1>27 DEF ClearLimiters, ApplyStep, unchangedByApply
<1>28. ASSUME NEW o \in Operators, InvalidateCache(o) PROVE SwapOrder'
  BY <1>28 DEF InvalidateCache, ApplyStep, unchangedByApply
<1>29. ASSUME NEW o \in Operators, ApplyRaises(o) PROVE SwapOrder'
  BY <1>29 DEF ApplyRaises, ApplyStep, unchangedByApply
<1>30. CASE UNCHANGED vars
  BY <1>30 DEF vars
<1> QED
  BY <1>1, <1>2, <1>3, <1>4, <1>5, <1>6, <1>7, <1>8, <1>9, <1>10, <1>11, <1>12, <1>13, <1>14, <1>15, <1>16, <1>17, <1>18, <1>19, <1>20, <1>21, <1>22, <1>23, <1>24, <1>25, <1>26, <1>27, <1>28, <1>29, <1>30 DEF Next, HandlerStep, OperatorStep

(* A swap marks every thread that has read and not yet used; without the     *)
(* mark what was read is still what the registry says.                       *)
LEMMA ReadsStep == TypeOK /\ TypeOK' /\ ReadsFresh /\ [Next]_vars => ReadsFresh'
<1> SUFFICES ASSUME TypeOK, TypeOK', ReadsFresh, [Next]_vars PROVE ReadsFresh'
  OBVIOUS
<1> USE DEF TypeOK, SharedTypeOK, ThreadTypeOK, HistoryTypeOK, LocalsSet,
        registry, locals, apply, history, Goto, Answer, AuditRaises, ReadsFresh, EffectiveRpm
<1>1. ASSUME NEW h \in Handlers, NEW q \in Incoming, Accept(h, q) PROVE ReadsFresh'
  BY <1>1 DEF Accept
<1>2. ASSUME NEW h \in Handlers, Close(h) PROVE ReadsFresh'
  BY <1>2 DEF Close
<1>3. ASSUME NEW h \in Handlers, ProbeLimit(h) PROVE ReadsFresh'
  BY <1>3 DEF ProbeLimit
<1>4. ASSUME NEW h \in Handlers, Authenticate(h) PROVE ReadsFresh'
  BY <1>4 DEF Authenticate
<1>5. ASSUME NEW h \in Handlers, ReadClientRpm(h) PROVE ReadsFresh'
  BY <1>5 DEF ReadClientRpm, Dispatch
<1>6. ASSUME NEW h \in Handlers, ReadGlobalRpm(h) PROVE ReadsFresh'
  BY <1>6 DEF ReadGlobalRpm, Dispatch
<1>7. ASSUME NEW h \in Handlers, TakeToken(h) PROVE ReadsFresh'
  <2>1. UNCHANGED <<raced, limit, cur, source, req, clients, servers, rpm>>
    BY <1>7 DEF TakeToken
  <2>2. \/ pc' = [pc EXCEPT ![h] = "replied"]
        \/ pc' = [pc EXCEPT ![h] = "list_client"] \/ pc' = [pc EXCEPT ![h] = "authorize"]
    BY <1>7 DEF TakeToken, Dispatch
  <2> QED BY <2>1, <2>2
<1>8. ASSUME NEW h \in Handlers, Authorize(h) PROVE ReadsFresh'
  BY <1>8 DEF Authorize
<1>9. ASSUME NEW h \in Handlers, Route(h) PROVE ReadsFresh'
  <2>1. /\ raced' = raced /\ limit' = limit /\ cur' = cur /\ source' = source /\ req' = req
        /\ clients' = clients /\ servers' = servers /\ rpm' = rpm
    BY <1>9 DEF Route
  <2>2. pc' = [pc EXCEPT ![h] = "replied"] \/ pc' = [pc EXCEPT ![h] = "forward"]
    BY <1>9 DEF Route
  <2> QED BY <2>1, <2>2
<1>10. ASSUME NEW h \in Handlers, Forward(h) PROVE ReadsFresh'
  BY <1>10 DEF Forward
<1>11. ASSUME NEW h \in Handlers, ListClient(h) PROVE ReadsFresh'
  BY <1>11 DEF ListClient
<1>12. ASSUME NEW h \in Handlers, ListDone(h) PROVE ReadsFresh'
  BY <1>12 DEF ListDone
<1>13. ASSUME NEW h \in Handlers, Collect(h) PROVE ReadsFresh'
  BY <1>13 DEF Collect
<1>14. ASSUME NEW h \in Handlers, CacheHit(h) PROVE ReadsFresh'
  BY <1>14 DEF CacheHit, Show
<1>15. ASSUME NEW h \in Handlers, CacheMiss(h) PROVE ReadsFresh'
  BY <1>15 DEF CacheMiss
<1>16. ASSUME NEW h \in Handlers, FetchSucceeds(h) PROVE ReadsFresh'
  BY <1>16 DEF FetchSucceeds
<1>17. ASSUME NEW h \in Handlers, FetchFails(h) PROVE ReadsFresh'
  BY <1>17 DEF FetchFails
<1>18. ASSUME NEW h \in Handlers, FetchRaises(h) PROVE ReadsFresh'
  BY <1>18 DEF FetchRaises
<1>19. ASSUME NEW h \in Handlers, CacheStore(h) PROVE ReadsFresh'
  BY <1>19 DEF CacheStore, Show
<1>20. ASSUME NEW h \in Handlers, NEW s \in ServerIds, ListServer(h, s) PROVE ReadsFresh'
  BY <1>20 DEF ListServer
<1>21. ASSUME NEW o \in Operators, NEW cfg \in Configs, BeginApply(o, cfg) PROVE ReadsFresh'
  BY <1>21 DEF BeginApply, TakeWriteLock, ApplyStep, unchangedByApply
<1>22. ASSUME NEW o \in Operators, ReloadFails(o) PROVE ReadsFresh'
  BY <1>22 DEF ReloadFails, ApplyStep, unchangedByApply
<1>23. ASSUME NEW o \in Operators, SwapClients(o) PROVE ReadsFresh'
  BY <1>23 DEF SwapClients, ApplyStep, unchangedByApply, RacedBySwap, Reading
<1>24. ASSUME NEW o \in Operators, SwapServers(o) PROVE ReadsFresh'
  BY <1>24 DEF SwapServers, ApplyStep, unchangedByApply, RacedBySwap, Reading
<1>25. ASSUME NEW o \in Operators, SwapRpm(o) PROVE ReadsFresh'
  BY <1>25 DEF SwapRpm, ApplyStep, unchangedByApply, RacedBySwap, Reading
<1>26. ASSUME NEW o \in Operators, ReleaseLock(o) PROVE ReadsFresh'
  BY <1>26 DEF ReleaseLock, ApplyStep, unchangedByApply
<1>27. ASSUME NEW o \in Operators, ClearLimiters(o) PROVE ReadsFresh'
  BY <1>27 DEF ClearLimiters, ApplyStep, unchangedByApply
<1>28. ASSUME NEW o \in Operators, InvalidateCache(o) PROVE ReadsFresh'
  BY <1>28 DEF InvalidateCache, ApplyStep, unchangedByApply
<1>29. ASSUME NEW o \in Operators, ApplyRaises(o) PROVE ReadsFresh'
  BY <1>29 DEF ApplyRaises, ApplyStep, unchangedByApply
<1>30. CASE UNCHANGED vars
  BY <1>30 DEF vars
<1> QED
  BY <1>1, <1>2, <1>3, <1>4, <1>5, <1>6, <1>7, <1>8, <1>9, <1>10, <1>11, <1>12, <1>13, <1>14, <1>15, <1>16, <1>17, <1>18, <1>19, <1>20, <1>21, <1>22, <1>23, <1>24, <1>25, <1>26, <1>27, <1>28, <1>29, <1>30 DEF Next, HandlerStep, OperatorStep

(* A stored entry comes from the live server or from a raced fetch, and      *)
(* after SwapServers its clearing is due (daemon.py:290-334, 565).           *)
LEMMA CacheStep == TypeOK /\ TypeOK' /\ ReadsFresh /\ StaleCacheOnlyByRace /\ [Next]_vars => StaleCacheOnlyByRace'
<1> SUFFICES ASSUME TypeOK, TypeOK', ReadsFresh, StaleCacheOnlyByRace, [Next]_vars PROVE StaleCacheOnlyByRace'
  OBVIOUS
<1> USE DEF TypeOK, SharedTypeOK, ThreadTypeOK, HistoryTypeOK, LocalsSet, ApplyTypeOK,
        registry, locals, apply, history, Goto, Answer, AuditRaises, ReadsFresh,
        StaleCacheOnlyByRace, InvalidationDue
<1>1. ASSUME NEW h \in Handlers, NEW q \in Incoming, Accept(h, q) PROVE StaleCacheOnlyByRace'
  BY <1>1 DEF Accept
<1>2. ASSUME NEW h \in Handlers, Close(h) PROVE StaleCacheOnlyByRace'
  BY <1>2 DEF Close
<1>3. ASSUME NEW h \in Handlers, ProbeLimit(h) PROVE StaleCacheOnlyByRace'
  BY <1>3 DEF ProbeLimit
<1>4. ASSUME NEW h \in Handlers, Authenticate(h) PROVE StaleCacheOnlyByRace'
  BY <1>4 DEF Authenticate
<1>5. ASSUME NEW h \in Handlers, ReadClientRpm(h) PROVE StaleCacheOnlyByRace'
  BY <1>5 DEF ReadClientRpm, Dispatch
<1>6. ASSUME NEW h \in Handlers, ReadGlobalRpm(h) PROVE StaleCacheOnlyByRace'
  BY <1>6 DEF ReadGlobalRpm, Dispatch
<1>7. ASSUME NEW h \in Handlers, TakeToken(h) PROVE StaleCacheOnlyByRace'
  BY <1>7 DEF TakeToken, Dispatch
<1>8. ASSUME NEW h \in Handlers, Authorize(h) PROVE StaleCacheOnlyByRace'
  BY <1>8 DEF Authorize
<1>9. ASSUME NEW h \in Handlers, Route(h) PROVE StaleCacheOnlyByRace'
  BY <1>9 DEF Route
<1>10. ASSUME NEW h \in Handlers, Forward(h) PROVE StaleCacheOnlyByRace'
  BY <1>10 DEF Forward
<1>11. ASSUME NEW h \in Handlers, ListClient(h) PROVE StaleCacheOnlyByRace'
  BY <1>11 DEF ListClient
<1>12. ASSUME NEW h \in Handlers, ListDone(h) PROVE StaleCacheOnlyByRace'
  BY <1>12 DEF ListDone
<1>13. ASSUME NEW h \in Handlers, Collect(h) PROVE StaleCacheOnlyByRace'
  BY <1>13 DEF Collect
<1>14. ASSUME NEW h \in Handlers, CacheHit(h) PROVE StaleCacheOnlyByRace'
  BY <1>14 DEF CacheHit, Show
<1>15. ASSUME NEW h \in Handlers, CacheMiss(h) PROVE StaleCacheOnlyByRace'
  BY <1>15 DEF CacheMiss, Drop
<1>16. ASSUME NEW h \in Handlers, FetchSucceeds(h) PROVE StaleCacheOnlyByRace'
  BY <1>16 DEF FetchSucceeds
<1>17. ASSUME NEW h \in Handlers, FetchFails(h) PROVE StaleCacheOnlyByRace'
  BY <1>17 DEF FetchFails
<1>18. ASSUME NEW h \in Handlers, FetchRaises(h) PROVE StaleCacheOnlyByRace'
  BY <1>18 DEF FetchRaises
<1>19. ASSUME NEW h \in Handlers, CacheStore(h) PROVE StaleCacheOnlyByRace'
  BY <1>19 DEF CacheStore, Show, Put
<1>20. ASSUME NEW h \in Handlers, NEW s \in ServerIds, ListServer(h, s) PROVE StaleCacheOnlyByRace'
  BY <1>20 DEF ListServer
<1>21. ASSUME NEW o \in Operators, NEW cfg \in Configs, BeginApply(o, cfg) PROVE StaleCacheOnlyByRace'
  BY <1>21 DEF BeginApply, TakeWriteLock, ApplyStep, unchangedByApply
<1>22. ASSUME NEW o \in Operators, ReloadFails(o) PROVE StaleCacheOnlyByRace'
  BY <1>22 DEF ReloadFails, ApplyStep, unchangedByApply
<1>23. ASSUME NEW o \in Operators, SwapClients(o) PROVE StaleCacheOnlyByRace'
  BY <1>23 DEF SwapClients, ApplyStep, unchangedByApply
<1>24. ASSUME NEW o \in Operators, SwapServers(o) PROVE StaleCacheOnlyByRace'
  BY <1>24 DEF SwapServers, ApplyStep, unchangedByApply
<1>25. ASSUME NEW o \in Operators, SwapRpm(o) PROVE StaleCacheOnlyByRace'
  BY <1>25 DEF SwapRpm, ApplyStep, unchangedByApply
<1>26. ASSUME NEW o \in Operators, ReleaseLock(o) PROVE StaleCacheOnlyByRace'
  BY <1>26 DEF ReleaseLock, ApplyStep, unchangedByApply
<1>27. ASSUME NEW o \in Operators, ClearLimiters(o) PROVE StaleCacheOnlyByRace'
  BY <1>27 DEF ClearLimiters, ApplyStep, unchangedByApply
<1>28. ASSUME NEW o \in Operators, InvalidateCache(o) PROVE StaleCacheOnlyByRace'
  BY <1>28 DEF InvalidateCache, ApplyStep, unchangedByApply, Empty
<1>29. ASSUME NEW o \in Operators, ApplyRaises(o) PROVE StaleCacheOnlyByRace'
  BY <1>29 DEF ApplyRaises, ApplyStep, unchangedByApply
<1>30. CASE UNCHANGED vars
  BY <1>30 DEF vars
<1> QED
  BY <1>1, <1>2, <1>3, <1>4, <1>5, <1>6, <1>7, <1>8, <1>9, <1>10, <1>11, <1>12, <1>13, <1>14, <1>15, <1>16, <1>17, <1>18, <1>19, <1>20, <1>21, <1>22, <1>23, <1>24, <1>25, <1>26, <1>27, <1>28, <1>29, <1>30 DEF Next, HandlerStep, OperatorStep

(* A new bucket has the live limit or was raced, and after SwapClients its   *)
(* clearing is due (daemon.py:128-140, 563-564).                             *)
LEMMA BucketStep == TypeOK /\ TypeOK' /\ ReadsFresh /\ StaleBucketOnlyByRace /\ [Next]_vars => StaleBucketOnlyByRace'
<1> SUFFICES ASSUME TypeOK, TypeOK', ReadsFresh, StaleBucketOnlyByRace, [Next]_vars PROVE StaleBucketOnlyByRace'
  OBVIOUS
<1> USE DEF TypeOK, SharedTypeOK, ThreadTypeOK, HistoryTypeOK, LocalsSet, ApplyTypeOK,
        registry, locals, apply, history, Goto, Answer, AuditRaises, ReadsFresh,
        StaleBucketOnlyByRace, ClearingDue, EffectiveRpm
<1>1. ASSUME NEW h \in Handlers, NEW q \in Incoming, Accept(h, q) PROVE StaleBucketOnlyByRace'
  BY <1>1 DEF Accept
<1>2. ASSUME NEW h \in Handlers, Close(h) PROVE StaleBucketOnlyByRace'
  BY <1>2 DEF Close
<1>3. ASSUME NEW h \in Handlers, ProbeLimit(h) PROVE StaleBucketOnlyByRace'
  BY <1>3 DEF ProbeLimit
<1>4. ASSUME NEW h \in Handlers, Authenticate(h) PROVE StaleBucketOnlyByRace'
  BY <1>4 DEF Authenticate
<1>5. ASSUME NEW h \in Handlers, ReadClientRpm(h) PROVE StaleBucketOnlyByRace'
  BY <1>5 DEF ReadClientRpm, Dispatch
<1>6. ASSUME NEW h \in Handlers, ReadGlobalRpm(h) PROVE StaleBucketOnlyByRace'
  BY <1>6 DEF ReadGlobalRpm, Dispatch
<1>7. ASSUME NEW h \in Handlers, TakeToken(h) PROVE StaleBucketOnlyByRace'
  BY <1>7 DEF TakeToken, MakeBucket, Dispatch, Put
<1>8. ASSUME NEW h \in Handlers, Authorize(h) PROVE StaleBucketOnlyByRace'
  BY <1>8 DEF Authorize
<1>9. ASSUME NEW h \in Handlers, Route(h) PROVE StaleBucketOnlyByRace'
  BY <1>9 DEF Route
<1>10. ASSUME NEW h \in Handlers, Forward(h) PROVE StaleBucketOnlyByRace'
  BY <1>10 DEF Forward
<1>11. ASSUME NEW h \in Handlers, ListClient(h) PROVE StaleBucketOnlyByRace'
  BY <1>11 DEF ListClient
<1>12. ASSUME NEW h \in Handlers, ListDone(h) PROVE StaleBucketOnlyByRace'
  BY <1>12 DEF ListDone
<1>13. ASSUME NEW h \in Handlers, Collect(h) PROVE StaleBucketOnlyByRace'
  BY <1>13 DEF Collect
<1>14. ASSUME NEW h \in Handlers, CacheHit(h) PROVE StaleBucketOnlyByRace'
  BY <1>14 DEF CacheHit, Show
<1>15. ASSUME NEW h \in Handlers, CacheMiss(h) PROVE StaleBucketOnlyByRace'
  BY <1>15 DEF CacheMiss
<1>16. ASSUME NEW h \in Handlers, FetchSucceeds(h) PROVE StaleBucketOnlyByRace'
  BY <1>16 DEF FetchSucceeds
<1>17. ASSUME NEW h \in Handlers, FetchFails(h) PROVE StaleBucketOnlyByRace'
  BY <1>17 DEF FetchFails
<1>18. ASSUME NEW h \in Handlers, FetchRaises(h) PROVE StaleBucketOnlyByRace'
  BY <1>18 DEF FetchRaises
<1>19. ASSUME NEW h \in Handlers, CacheStore(h) PROVE StaleBucketOnlyByRace'
  BY <1>19 DEF CacheStore, Show
<1>20. ASSUME NEW h \in Handlers, NEW s \in ServerIds, ListServer(h, s) PROVE StaleBucketOnlyByRace'
  BY <1>20 DEF ListServer
<1>21. ASSUME NEW o \in Operators, NEW cfg \in Configs, BeginApply(o, cfg) PROVE StaleBucketOnlyByRace'
  BY <1>21 DEF BeginApply, TakeWriteLock, ApplyStep, unchangedByApply
<1>22. ASSUME NEW o \in Operators, ReloadFails(o) PROVE StaleBucketOnlyByRace'
  BY <1>22 DEF ReloadFails, ApplyStep, unchangedByApply
<1>23. ASSUME NEW o \in Operators, SwapClients(o) PROVE StaleBucketOnlyByRace'
  BY <1>23 DEF SwapClients, ApplyStep, unchangedByApply
<1>24. ASSUME NEW o \in Operators, SwapServers(o) PROVE StaleBucketOnlyByRace'
  BY <1>24 DEF SwapServers, ApplyStep, unchangedByApply
<1>25. ASSUME NEW o \in Operators, SwapRpm(o) PROVE StaleBucketOnlyByRace'
  BY <1>25 DEF SwapRpm, ApplyStep, unchangedByApply
<1>26. ASSUME NEW o \in Operators, ReleaseLock(o) PROVE StaleBucketOnlyByRace'
  BY <1>26 DEF ReleaseLock, ApplyStep, unchangedByApply
<1>27. ASSUME NEW o \in Operators, ClearLimiters(o) PROVE StaleBucketOnlyByRace'
  BY <1>27 DEF ClearLimiters, ApplyStep, unchangedByApply, Empty
<1>28. ASSUME NEW o \in Operators, InvalidateCache(o) PROVE StaleBucketOnlyByRace'
  BY <1>28 DEF InvalidateCache, ApplyStep, unchangedByApply
<1>29. ASSUME NEW o \in Operators, ApplyRaises(o) PROVE StaleBucketOnlyByRace'
  BY <1>29 DEF ApplyRaises, ApplyStep, unchangedByApply
<1>30. CASE UNCHANGED vars
  BY <1>30 DEF vars
<1> QED
  BY <1>1, <1>2, <1>3, <1>4, <1>5, <1>6, <1>7, <1>8, <1>9, <1>10, <1>11, <1>12, <1>13, <1>14, <1>15, <1>16, <1>17, <1>18, <1>19, <1>20, <1>21, <1>22, <1>23, <1>24, <1>25, <1>26, <1>27, <1>28, <1>29, <1>30 DEF Next, HandlerStep, OperatorStep

-----------------------------------------------------------------------------
(* The theorems.                                                            *)

(* At the start one registry is live, whole, and nothing is cached.          *)
LEMMA InitReload == Init => /\ SwapOrder /\ ReadsFresh
                            /\ StaleCacheOnlyByRace /\ StaleBucketOnlyByRace
BY DEF Init, SwapOrder, Whole, ReadsFresh, StaleCacheOnlyByRace, StaleBucketOnlyByRace, Empty

(* With any number of operators applying at once, whenever the write lock is *)
(* free the live registry is one that was loaded, not a mixture              *)
(* (management.py:239-350).                                                  *)
THEOREM AppliesDoNotMix == Spec => []NotTorn
<1>1. Init => TypeOK /\ SwapOrder
  BY InitTyped, InitReload
<1>2. TypeOK /\ SwapOrder /\ [Next]_vars => (TypeOK /\ SwapOrder)'
  BY NextTyped, SwapStep
<1>3. SwapOrder => NotTorn
  BY DEF SwapOrder, NotTorn
<1> QED BY <1>1, <1>2, <1>3, PTL DEF Spec

(* At most one apply is halfway, and it holds the lock.                      *)
LEMMA OneSwapping ==
  ASSUME TypeOK, SwapOrder, NEW o \in Operators, apc[o] \in {"clients", "servers", "rpm", "release"}
  PROVE  /\ lock = {o}
         /\ \A p \in Operators : apc[p] \in {"clients", "servers", "rpm", "release"} => p = o
BY DEF TypeOK, ApplyTypeOK, SwapOrder

(* What is in force is whole.                                                *)
LEMMA InForceWhole ==
  ASSUME TypeOK, SwapOrder
  PROVE  InForce \in Configs
<1>1. CASE Swapping = {}
  <2>1. PICK cfg \in Configs : Whole(cfg)
    BY <1>1 DEF SwapOrder, Swapping
  <2>2. cfg = [clients |-> clients, servers |-> servers, rpm |-> rpm]
    BY <2>1, GatewayAssumption DEF Whole, Registry
  <2> QED BY <1>1, <2>2 DEF InForce
<1>2. CASE Swapping # {}
  BY <1>2 DEF InForce, Swapping, TypeOK, ApplyTypeOK
<1> QED BY <1>1, <1>2

(* Nobody but an operator touches what LiveRegistry speaks of.               *)
LEMMA RequestsDoNotReload ==
  ASSUME NEW h \in Handlers, HandlerStep(h) \/ \E q \in Incoming : Accept(h, q)
  PROVE  UNCHANGED <<registry, apply>>
BY DEF HandlerStep, Accept, Close, ProbeLimit, Authenticate, ReadClientRpm, ReadGlobalRpm, TakeToken,
       Authorize, Route, Forward, ListClient, ListServer, ListDone, Collect, CacheHit, Show, CacheMiss,
       FetchSucceeds, FetchFails, FetchRaises, CacheStore

(* Every step is one of LiveRegistry's or changes nothing that it shows: the *)
(* first assignment, or the failing load, replaces the registry.             *)
LEMMA ReloadStep ==
  ASSUME TypeOK, SwapOrder, TypeOK', SwapOrder', [Next]_vars
  PROVE  [Reload!LiveNext]_(Reload!liveVars)
<1> DEFINE replaced == \E o \in Operators : apc[o] \in {"servers", "rpm", "release"}
<1> USE DEF ApplyStep
<1>1. InForce \in Configs /\ InForce' \in Configs
  <2>1. InForce' \in Configs
    <3>1. CASE Swapping' = {}
      <4>1. PICK cfg \in Configs : Whole(cfg)'
        BY <3>1 DEF SwapOrder, Swapping
      <4>2. cfg = [clients |-> clients', servers |-> servers', rpm |-> rpm']
        BY <4>1, GatewayAssumption DEF Whole, Registry
      <4> QED BY <3>1, <4>2 DEF InForce
    <3>2. CASE Swapping' # {}
      BY <3>2 DEF InForce, Swapping, TypeOK, ApplyTypeOK
    <3> QED BY <3>1, <3>2
  <2> QED BY <2>1, InForceWhole
<1>2. ASSUME UNCHANGED <<registry, apply>> PROVE UNCHANGED <<InForce, lock, replaced>>
  BY <1>2 DEF InForce, Swapping, registry, apply
<1>3. ASSUME NEW o \in Operators, NEW cfg \in Configs, BeginApply(o, cfg) PROVE Reload!Take(o)
  <2>1. lock = {} /\ lock' = {o} /\ UNCHANGED registry
    BY <1>3 DEF BeginApply, TakeWriteLock
  <2>2. \A p \in Operators : apc[p] \notin {"clients", "servers", "rpm", "release"}
    BY <2>1 DEF SwapOrder
  <2>3. \A p \in Operators : apc'[p] \notin {"servers", "rpm", "release"}
    BY <1>3, <2>2 DEF BeginApply, TypeOK, ApplyTypeOK
  <2> QED BY <2>1, <2>2, <2>3 DEF Reload!Take, InForce, Swapping, registry
<1>4. ASSUME NEW o \in Operators, ReloadFails(o) \/ SwapClients(o) PROVE Reload!Replace(o)
  <2>1. apc[o] = "clients" /\ apc'[o] \in {"servers", "release"} /\ lock' = lock
    BY <1>4 DEF ReloadFails, SwapClients, TypeOK, ApplyTypeOK
  <2>2. lock = {o} /\ ~replaced
    BY <2>1, OneSwapping
  <2> QED BY <1>1, <2>1, <2>2 DEF Reload!Replace
<1>5. ASSUME NEW o \in Operators, SwapServers(o) \/ SwapRpm(o)
      PROVE  UNCHANGED <<InForce, lock, replaced>>
  <2>1. /\ apc[o] \in {"servers", "rpm"} /\ apc'[o] \in {"rpm", "release"}
        /\ \A p \in Operators : p # o => apc'[p] = apc[p]
        /\ lock' = lock /\ pending' = pending
    BY <1>5 DEF SwapServers, SwapRpm, TypeOK, ApplyTypeOK
  <2>2. \A p \in Operators : apc[p] \in {"clients", "servers", "rpm", "release"} => p = o
    BY <2>1, OneSwapping
  <2>3. InForce = pending[o]
    BY <2>1, <2>2 DEF InForce, Swapping
  <2>4. pending[o] \in Registry
    BY <2>1, GatewayAssumption DEF TypeOK, ApplyTypeOK
  <2>5. CASE SwapServers(o)
    <3>1. apc'[o] = "rpm" /\ Swapping' = {o}
      BY <2>1, <2>2, <2>5 DEF SwapServers, TypeOK, ApplyTypeOK, Swapping
    <3> QED BY <2>1, <2>3, <3>1 DEF InForce
  <2>6. CASE SwapRpm(o)
    <3>1. apc'[o] = "release" /\ Swapping' = {}
      BY <2>1, <2>2, <2>6 DEF SwapRpm, TypeOK, ApplyTypeOK, Swapping
    <3>2. clients' = pending[o].clients /\ servers' = pending[o].servers /\ rpm' = pending[o].rpm
      BY <2>6 DEF SwapRpm, SwapOrder
    <3>3. pending[o] = [clients |-> clients', servers |-> servers', rpm |-> rpm']
      BY <2>4, <3>2 DEF Registry
    <3> QED BY <2>1, <2>3, <3>1, <3>3 DEF InForce
  <2> QED BY <1>5, <2>5, <2>6
<1>6. ASSUME NEW o \in Operators, ReleaseLock(o) \/ ApplyRaises(o) PROVE Reload!Release(o)
  <2>1. /\ apc[o] = "release" /\ apc'[o] \in {"limiters", "idle"}
        /\ \A p \in Operators : p # o => apc'[p] = apc[p]
        /\ lock' = lock \ {o} /\ UNCHANGED registry
    BY <1>6 DEF ReleaseLock, ApplyRaises, TypeOK, ApplyTypeOK
  <2>2. lock = {o} /\ \A p \in Operators : apc[p] \in {"clients", "servers", "rpm", "release"} => p = o
    BY <2>1, OneSwapping
  <2>3. Swapping = {} /\ Swapping' = {} /\ ~replaced'
    BY <2>1, <2>2 DEF Swapping
  <2> QED BY <2>1, <2>2, <2>3 DEF Reload!Release, InForce, registry
<1>7. ASSUME NEW o \in Operators, ClearLimiters(o) \/ InvalidateCache(o)
      PROVE  UNCHANGED <<InForce, lock, replaced>>
  <2>1. /\ apc[o] \in {"limiters", "cache"} /\ apc'[o] \in {"cache", "idle"}
        /\ \A p \in Operators : p # o => apc'[p] = apc[p] /\ pending'[p] = pending[p]
        /\ lock' = lock /\ UNCHANGED registry
    BY <1>7 DEF ClearLimiters, InvalidateCache, TypeOK, ApplyTypeOK
  <2>2. Swapping' = Swapping /\ o \notin Swapping /\ replaced' = replaced
    BY <2>1 DEF Swapping
  <2>3. CASE Swapping = {}
    BY <2>1, <2>2, <2>3 DEF InForce, registry
  <2>4. CASE Swapping # {}
    <3>1. \A p \in Swapping : pending'[p] = pending[p]
      BY <2>1, <2>2 DEF Swapping
    <3>2. (CHOOSE p \in Swapping : TRUE) \in Swapping
      BY <2>4
    <3> QED BY <2>1, <2>2, <2>4, <3>1, <3>2 DEF InForce
  <2> QED BY <2>1, <2>2, <2>3, <2>4
<1>8. UNCHANGED <<InForce, lock, replaced>> => UNCHANGED Reload!liveVars
  BY DEF Reload!liveVars
<1> QED
  <2>1. CASE \E h \in Handlers : HandlerStep(h) \/ \E q \in Incoming : Accept(h, q)
    BY <2>1, RequestsDoNotReload, <1>2, <1>8
  <2>2. CASE UNCHANGED vars
    BY <2>2, <1>2, <1>8 DEF vars
  <2>3. CASE \E o \in Operators : OperatorStep(o) \/ \E cfg \in Configs : BeginApply(o, cfg)
    BY <2>3, <1>3, <1>4, <1>5, <1>6, <1>7, <1>8 DEF OperatorStep, Reload!LiveNext
  <2> QED BY <2>1, <2>2, <2>3 DEF Next

(* With any number of operators and requests, the assignments of each apply   *)
(* are for the others one replacement of the registry, under the write lock   *)
(* (management.py:239, 316-319, 350).                                        *)
THEOREM ReloadsKeepContract == Spec => ReloadsAreAtomic
<1>1. Init => TypeOK /\ SwapOrder
  BY InitTyped, InitReload
<1>2. TypeOK /\ SwapOrder /\ [Next]_vars => (TypeOK /\ SwapOrder)'
  BY NextTyped, SwapStep
<1>3. Init => Reload!LiveInit
  <2>1. Init => InForce \in Configs
    BY <1>1, InForceWhole
  <2> QED BY <2>1 DEF Init, Reload!LiveInit
<1>4. TypeOK /\ SwapOrder /\ TypeOK' /\ SwapOrder' /\ [Next]_vars => [Reload!LiveNext]_(Reload!liveVars)
  BY ReloadStep
<1> QED BY <1>1, <1>2, <1>3, <1>4, PTL DEF Spec, ReloadsAreAtomic, Reload!LiveSpec

(* The only way to a tools cache entry that does not match the live entry,   *)
(* once the cache was cleared, is a swap during the fetch (daemon.py:290-334, *)
(* 563-565).                                                                 *)
THEOREM CacheStaleOnlyByRace == Spec => []StaleCacheOnlyByRace
<1>1. Init => TypeOK /\ ReadsFresh /\ StaleCacheOnlyByRace
  BY InitTyped, InitReload
<1>2. TypeOK /\ ReadsFresh /\ StaleCacheOnlyByRace /\ [Next]_vars
      => (TypeOK /\ ReadsFresh /\ StaleCacheOnlyByRace)'
  BY NextTyped, ReadsStep, CacheStep
<1> QED BY <1>1, <1>2, PTL DEF Spec

(* The only way to a bucket with a limit that is not the client's, once the  *)
(* limiters were cleared, is a swap between reading the limit and making the *)
(* bucket (daemon.py:128-140, 563-564).                                      *)
THEOREM BucketsStaleOnlyByRace == Spec => []StaleBucketOnlyByRace
<1>1. Init => TypeOK /\ ReadsFresh /\ StaleBucketOnlyByRace
  BY InitTyped, InitReload
<1>2. TypeOK /\ ReadsFresh /\ StaleBucketOnlyByRace /\ [Next]_vars
      => (TypeOK /\ ReadsFresh /\ StaleBucketOnlyByRace)'
  BY NextTyped, ReadsStep, BucketStep
<1> QED BY <1>1, <1>2, PTL DEF Spec

(* No request, first or later, replaces a client's bucket (daemon.py:136-139). *)
THEOREM BucketsAreKept == Spec => BucketsKept
<1>1. [Next]_vars => [buckets' = Empty \/ \A c \in DOMAIN buckets :
                         c \in DOMAIN buckets' /\ buckets'[c] = buckets[c]]_vars
  <2> SUFFICES ASSUME Next
      PROVE  buckets' = Empty \/ \A c \in DOMAIN buckets :
                                   c \in DOMAIN buckets' /\ buckets'[c] = buckets[c]
    OBVIOUS
  <2>1. UNCHANGED buckets \/ (\E h \in Handlers : TakeToken(h)) \/ \E o \in Operators : ClearLimiters(o)
    BY DEF Next, HandlerStep, OperatorStep, Accept, Close, ProbeLimit, Authenticate, ReadClientRpm,
           ReadGlobalRpm, Authorize, Route, Forward, ListClient, ListServer, ListDone, Collect,
           CacheHit, Show, CacheMiss, FetchSucceeds, FetchFails, FetchRaises, CacheStore, BeginApply,
           ReloadFails, SwapClients, SwapServers, SwapRpm, ReleaseLock, ApplyRaises, InvalidateCache
  <2> QED BY <2>1 DEF TakeToken, MakeBucket, Put, ClearLimiters
<1> QED BY <1>1, PTL DEF Spec, BucketsKept

-----------------------------------------------------------------------------
(* How long a request can go on.                                             *)

MostSteps == 5 * Cardinality(ServerIds) + 9

(* There are so many servers, and never more of them left than there are;    *)
(* with the one at hand crossed off there is one less.                       *)
LEMMA ServersCounted ==
  /\ Cardinality(ServerIds) \in Nat
  /\ \A S \in SUBSET ServerIds :
       /\ Cardinality(S) \in Nat /\ Cardinality(S) <= Cardinality(ServerIds)
       /\ \A s \in S : Cardinality(S \ {s}) = Cardinality(S) - 1
<1>1. IsFiniteSet(ServerIds)
  BY ServersAssumption
<1>2. ASSUME NEW S \in SUBSET ServerIds
      PROVE  /\ Cardinality(S) \in Nat /\ Cardinality(S) <= Cardinality(ServerIds)
             /\ \A s \in S : Cardinality(S \ {s}) = Cardinality(S) - 1
  <2>1. IsFiniteSet(S) /\ Cardinality(S) <= Cardinality(ServerIds)
    BY <1>1, FS_Subset
  <2> QED BY <2>1, FS_CardinalityType, FS_RemoveElement
<1> QED BY <1>1, <1>2, FS_CardinalityType

(* What StepsLeft says at each place, with n servers and c of them to come.   *)
PlacesCounted(h, n, c) ==
  /\ pc[h] = "probe" => StepsLeft(h) = 5 * n + 9
  /\ pc[h] = "authenticate" => StepsLeft(h) = 5 * n + 8
  /\ pc[h] = "client_rpm" => StepsLeft(h) = 5 * n + 7
  /\ pc[h] = "global_rpm" => StepsLeft(h) = 5 * n + 6
  /\ pc[h] = "bucket" => StepsLeft(h) = 5 * n + 5
  /\ pc[h] = "list_client" => StepsLeft(h) = 5 * n + 3
  /\ pc[h] = "collect" => StepsLeft(h) = 5 * c + 6
  /\ pc[h] = "cache" => StepsLeft(h) = 5 * c + 5
  /\ pc[h] = "fetch" => StepsLeft(h) = 5 * c + 4
  /\ pc[h] = "store" => StepsLeft(h) = 5 * c + 3
  /\ pc[h] = "list_next" => StepsLeft(h) = 5 * c + 2
  /\ pc[h] = "authorize" => StepsLeft(h) = 4
  /\ pc[h] = "route" => StepsLeft(h) = 3
  /\ pc[h] = "forward" => StepsLeft(h) = 2
  /\ pc[h] = "replied" => StepsLeft(h) = 1
  /\ pc[h] = "idle" => StepsLeft(h) = 0

LEMMA StepsAt ==
  ASSUME NEW h \in Handlers
  PROVE  /\ PlacesCounted(h, Cardinality(ServerIds), Cardinality(todo[h]))
         /\ PlacesCounted(h, Cardinality(ServerIds), Cardinality(todo[h]))'
BY SMT DEF StepsLeft, PlacesCounted

(* The steps left are a number, and no place in the code has more of them     *)
(* left than the start of a probe.                                           *)
LEMMA StepsCounted ==
  ASSUME TypeOK, NEW h \in Handlers PROVE StepsLeft(h) \in 0..MostSteps
<1> DEFINE c == Cardinality(todo[h])  n == Cardinality(ServerIds)
<1>1. n \in Nat /\ c \in Nat /\ c <= n /\ MostSteps = 5 * n + 9
  BY ServersCounted DEF TypeOK, ThreadTypeOK, MostSteps
<1>2. PlacesCounted(h, n, c)
  BY StepsAt
<1>3. pc[h] \in Steps
  BY DEF TypeOK, ThreadTypeOK
<1> HIDE DEF c, n
<1> QED BY <1>1, <1>2, <1>3 DEF Steps, PlacesCounted

(* The steps that go on inside one phase of a request.                       *)
Onward(h) ==
  /\ <<pc[h], pc'[h]>> \in
       {<<"probe", "authenticate">>, <<"authenticate", "client_rpm">>,
        <<"authenticate", "authorize">>, <<"client_rpm", "global_rpm">>,
        <<"client_rpm", "bucket">>, <<"global_rpm", "bucket">>,
        <<"authorize", "route">>, <<"route", "forward">>,
        <<"collect", "cache">>, <<"collect", "list_next">>,
        <<"cache", "fetch">>, <<"cache", "list_next">>,
        <<"fetch", "store">>, <<"fetch", "list_next">>, <<"store", "list_next">>}
  /\ todo'[h] = todo[h]

(* From where to where each step of a thread leads, and what it leaves to do. *)
LEMMA StepsLead ==
  ASSUME TypeOK, NEW h \in Handlers, HandlerStep(h)
  PROVE  \/ pc[h] = "replied" /\ pc'[h] = "idle"
         \/ pc[h] \notin {"idle", "replied"} /\ pc'[h] = "replied" /\ todo'[h] = todo[h]
         \/ Onward(h)
         \/ /\ pc[h] \in {"client_rpm", "global_rpm", "bucket"} /\ todo'[h] = todo[h]
            /\ pc'[h] \in {"list_client", "authorize"}
         \/ pc[h] = "list_client" /\ pc'[h] = "list_next"
         \/ /\ pc[h] = "list_next" /\ pc'[h] \in {"list_next", "collect"}
            /\ \E s \in todo[h] : todo'[h] = todo[h] \ {s}
<1> USE DEF TypeOK, ThreadTypeOK, Goto, Answer, AuditRaises, locals, Onward
<1>1. CASE Close(h) \/ ProbeLimit(h) \/ Authenticate(h)
  BY <1>1 DEF Close, ProbeLimit, Authenticate
<1>2. CASE ReadClientRpm(h) \/ ReadGlobalRpm(h) \/ TakeToken(h)
  BY <1>2 DEF ReadClientRpm, ReadGlobalRpm, TakeToken, Dispatch
<1>3. CASE Authorize(h) \/ Route(h) \/ Forward(h)
  BY <1>3 DEF Authorize, Route, Forward
<1>4. CASE ListClient(h) \/ (\E s \in ServerIds : ListServer(h, s)) \/ ListDone(h)
  BY <1>4 DEF ListClient, ListServer, ListDone
<1>5. CASE Collect(h) \/ CacheHit(h) \/ CacheMiss(h)
  BY <1>5 DEF Collect, CacheHit, Show, CacheMiss
<1>6. CASE FetchSucceeds(h) \/ FetchFails(h) \/ FetchRaises(h) \/ CacheStore(h)
  BY <1>6 DEF FetchSucceeds, FetchFails, FetchRaises, CacheStore, Show
<1> QED BY <1>1, <1>2, <1>3, <1>4, <1>5, <1>6 DEF HandlerStep

(* Each of them uses up steps.                                               *)
LEMMA OwnStepsCount ==
  ASSUME TypeOK, TypeOK', NEW h \in Handlers, HandlerStep(h)
  PROVE  StepsLeft(h)' < StepsLeft(h)
<1>1. todo[h] \in SUBSET ServerIds /\ todo'[h] \in SUBSET ServerIds
  BY DEF TypeOK, ThreadTypeOK
<1>2. PICK n \in Nat, c \in Nat, d \in Nat :
           /\ n = Cardinality(ServerIds) /\ c = Cardinality(todo[h]) /\ d = Cardinality(todo'[h])
           /\ c <= n /\ d <= n
           /\ todo'[h] = todo[h] => d = c
           /\ \A s \in todo[h] : todo'[h] = todo[h] \ {s} => d = c - 1
  BY <1>1, ServersCounted
<1>3. PlacesCounted(h, Cardinality(ServerIds), Cardinality(todo[h]))
  BY StepsAt
<1>4. PlacesCounted(h, Cardinality(ServerIds), Cardinality(todo[h]))'
  BY StepsAt
<1>5. CASE pc[h] = "replied" /\ pc'[h] = "idle"
  BY <1>3, <1>4, <1>5 DEF PlacesCounted
<1>6. CASE pc[h] = "list_next" /\ pc'[h] \in {"list_next", "collect"}
           /\ \E s \in todo[h] : todo'[h] = todo[h] \ {s}
  <2>1. d = c - 1
    BY <1>2, <1>6
  <2> QED BY <1>2, <1>3, <1>4, <1>6, <2>1 DEF PlacesCounted
<1>7. CASE pc[h] = "list_client" /\ pc'[h] = "list_next"
  BY <1>2, <1>3, <1>4, <1>7 DEF PlacesCounted
<1>8. CASE /\ pc[h] \in {"client_rpm", "global_rpm", "bucket"} /\ todo'[h] = todo[h]
           /\ pc'[h] \in {"list_client", "authorize"}
  BY <1>2, <1>3, <1>4, <1>8 DEF PlacesCounted
<1>9. CASE pc[h] \notin {"idle", "replied"} /\ pc'[h] = "replied" /\ todo'[h] = todo[h]
  <2>1. pc[h] \in Steps
    BY DEF TypeOK, ThreadTypeOK
  <2> QED BY <1>2, <1>3, <1>4, <1>9, <2>1 DEF PlacesCounted, Steps
<1>10. CASE Onward(h)
  BY <1>2, <1>3, <1>4, <1>10 DEF PlacesCounted, Onward
<1> QED BY <1>5, <1>6, <1>7, <1>8, <1>9, <1>10, StepsLead

(* What anybody else does leaves a request where it is.                      *)
LEMMA OthersDoNotCount ==
  ASSUME TypeOK, NEW h \in Handlers, pc[h] # "idle", [Next]_vars, ~HandlerStep(h)
  PROVE  pc'[h] = pc[h] /\ todo'[h] = todo[h]
<1> USE DEF TypeOK, ThreadTypeOK, Goto, Answer, AuditRaises, locals, apply, unchangedByApply
<1>1. ASSUME NEW g \in Handlers, NEW q \in Incoming, Accept(g, q)
      PROVE  pc'[h] = pc[h] /\ todo'[h] = todo[h]
  BY <1>1 DEF Accept
<1>2. ASSUME NEW g \in Handlers, HandlerStep(g)
      PROVE  pc'[h] = pc[h] /\ todo'[h] = todo[h]
  <2>1. g # h
    BY <1>2
  <2>2. CASE Close(g) \/ ProbeLimit(g) \/ Authenticate(g)
    BY <2>1, <2>2 DEF Close, ProbeLimit, Authenticate
  <2>3. CASE ReadClientRpm(g) \/ ReadGlobalRpm(g) \/ TakeToken(g)
    BY <2>1, <2>3 DEF ReadClientRpm, ReadGlobalRpm, TakeToken, Dispatch
  <2>4. CASE Authorize(g) \/ Route(g) \/ Forward(g)
    BY <2>1, <2>4 DEF Authorize, Route, Forward
  <2>5. CASE ListClient(g) \/ (\E s \in ServerIds : ListServer(g, s)) \/ ListDone(g)
    BY <2>1, <2>5 DEF ListClient, ListServer, ListDone
  <2>6. CASE Collect(g) \/ CacheHit(g) \/ CacheMiss(g)
    BY <2>1, <2>6 DEF Collect, CacheHit, Show, CacheMiss
  <2>7. CASE FetchSucceeds(g) \/ FetchFails(g) \/ FetchRaises(g) \/ CacheStore(g)
    BY <2>1, <2>7 DEF FetchSucceeds, FetchFails, FetchRaises, CacheStore, Show
  <2> QED BY <1>2, <2>2, <2>3, <2>4, <2>5, <2>6, <2>7 DEF HandlerStep
<1>3. ASSUME NEW o \in Operators, OperatorStep(o) \/ \E cfg \in Configs : BeginApply(o, cfg)
      PROVE  pc'[h] = pc[h] /\ todo'[h] = todo[h]
  BY <1>3 DEF OperatorStep, BeginApply, ReloadFails, SwapClients, SwapServers, SwapRpm,
              ReleaseLock, ApplyRaises, ClearLimiters, InvalidateCache
<1>4. CASE UNCHANGED vars
  BY <1>4 DEF vars
<1> QED BY <1>1, <1>2, <1>3, <1>4 DEF Next

(* Whatever the registry comes to say meanwhile and however many requests run *)
(* beside it, no request takes more than 5 N + 9 steps, N being the number of *)
(* servers, and only its own thread's steps count (daemon.py:588-716).  The   *)
(* thread being scheduled, this is why RequestsEnd holds: only an exchange    *)
(* with an upstream server can keep a request from its next step.            *)
THEOREM RequestsRunOut == Spec => WorkRunsOut /\ [](\A h \in Handlers : StepsLeft(h) \in 0..MostSteps)
<1>1. Init => TypeOK
  BY InitTyped
<1>2. TypeOK /\ [Next]_vars => TypeOK'
  BY NextTyped
<1>3. TypeOK => \A h \in Handlers : StepsLeft(h) \in 0..MostSteps
  BY StepsCounted
<1>4. TypeOK /\ TypeOK' /\ [Next]_vars
      => [\A h \in Handlers : pc[h] # "idle" =>
            IF HandlerStep(h) THEN StepsLeft(h)' < StepsLeft(h) ELSE StepsLeft(h)' = StepsLeft(h)]_vars
  <2> SUFFICES ASSUME TypeOK, TypeOK', [Next]_vars, NEW h \in Handlers, pc[h] # "idle"
      PROVE  IF HandlerStep(h) THEN StepsLeft(h)' < StepsLeft(h) ELSE StepsLeft(h)' = StepsLeft(h)
    OBVIOUS
  <2>1. CASE HandlerStep(h)
    BY <2>1, OwnStepsCount
  <2>2. CASE ~HandlerStep(h)
    <3>1. pc'[h] = pc[h] /\ todo'[h] = todo[h]
      BY <2>2, OthersDoNotCount
    <3> QED BY <2>2, <3>1 DEF StepsLeft
  <2> QED BY <2>1, <2>2
<1> QED BY <1>1, <1>2, <1>3, <1>4, PTL DEF Spec, WorkRunsOut
=============================================================================
