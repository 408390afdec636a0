# LMCP in TLA+

LMCP is a gateway between MCP clients and MCP servers: it authenticates a
client by token, decides which servers and tools it may use, forwards its
calls over HTTP or to a child process, writes an audit log, shows the log live
in a browser, and lets an operator change the registry of clients and servers
while it runs. This directory models that program: TLA+ modules translated from
`src/lmcp/*.py` and the management page `src/lmcp/ui.js`, configurations that TLC checks on small instances, and proofs
that TLAPS checks for every value of the constants.

`PROJECT.json` is the index: the components, the runs, for every definition the
lines it stands for, the hazards, the disagreements between code and documents
(findings), and the theorems.

To check: `tlc -config MCGateway_overlap.cfg MCGateway`, and so on for every
run; `tlapm GatewayProofs.tla`, and so on for every module with theorems.

## 1. The system

| Component | Source | State | Operations |
|---|---|---|---|
| Policy | `policy.py` | none | `authenticate_client`, `authorize_server`, `authorize_tool` |
| Gateway | `daemon.py` (`do_POST`, probes, `LmcpDaemon`) | the live `Registry`; `_rate_limiters`; `_tools_cache` | `/mcp`: `initialize`, `tools/list`, `tools/call`; `/auth-check`, `/server-check`; clearing after an apply |
| Token bucket | `daemon.py` `_TokenBucket` | `tokens`, `last_refill` | `allow` |
| Audit, bus, SSE | `audit.py`, `events.py`, `daemon.py` `/events` | log file; `_subscribers`; one queue per stream | `write`, `publish`, `try_subscribe`, `unsubscribe`, the stream's loop |
| Registry store | `management.py`, `config.py` | `registry.yaml`, `registry.yaml.bak`, `_write_lock`, the live `Registry` | `/registry/apply`, `/registry/validate`, start |
| Stdio adapter | `stdio_mcp.py` | child process, two pipes, reader threads | spawn, `initialize`, `tools/list`, `tools/call`, retry, close |
| HTTP adapter | `http_mcp.py` | one connection for each try | `tools/list` with retries, `tools/call` |
| Config | `config.py` | none | `load_registry`, `validate_registry_data`, warnings |
| Web UI | `ui.js`, `ui.html` | mode, fetched registry, staged edits, open dialog | unlock, lock, stage, discard, apply, fetch again |
| View, status, CLI | `management.py`, `daemon.py`, `__main__.py` | none | reading, reporting |

How they interact. Every HTTP request has a thread of its own
(`ThreadingHTTPServer`). All threads share one `Registry` object, whose
attributes `apply_patch` replaces one by one on another thread; no lock covers
the reading. `_rate_limiters`, `_tools_cache`, the audit log, the bus'
subscribers and each bucket have a lock each, held for a single look-up or
update. Writing an audit record calls back every subscriber of the bus on the
writer's own thread. The management endpoints read and write the registry file;
`apply` takes `_write_lock` without waiting, `validate` takes none. An exchange
with a stdio server starts a process, and a thread for each read from it; one
with an http server opens a connection. The page in the browser talks to the
management endpoints: it stages edits against the registry it has fetched, sends
them as one patch, and fetches again after a success.

What is hard about it:

* **Hot reload against running requests.** A request reads the registry up to
  half a dozen times. Grants, the bucket's limit, the server's entry and the
  cached list may each come from a different registry.
* **Check then act.** The limit is read, then a bucket is made; a server's entry
  is read, its tools are fetched, then the list is stored. An apply clears
  buckets and cache in between.
* **Partial failure of an apply.** The file is rewritten in place; backup,
  write, restore, reload and the audit record can each fail, and the process may
  die between any two steps.
* **Slow and vanished subscribers.** Bounded queues, a cap on streams, clients
  that leave without a word.
* **A child that misbehaves.** It may hang, exit, answer late or write unasked;
  an answer is whatever message comes next, and a read that has timed out leaves
  its thread on the pipe.
* **A server that misbehaves.** It may act on a request long after the daemon has
  given up and tried again, drip, or break off. The timeout is that of one wait;
  some of the exceptions that can arise are caught nowhere.
* **A page that is overtaken.** Between any request of the page and its answer
  the operator clicks on, and somebody else may change the registry.

## 2. The modules

| Module | Models | Extends |
|---|---|---|
| `Policy` | the pure decisions of `policy.py` | |
| `Gateway` | request threads, cache, buckets, the reload | `Policy` |
| `TokenBucket` | one `_TokenBucket` | |
| `EventStream` | log, bus and streams | |
| `RegistryData` | registries, patches, merging, validation, torn files | |
| `AtomicRegistry` | what the store promises of the file | `RegistryData` |
| `LiveRegistry` | what an apply promises of the registry in memory | |
| `RegistryStore` | apply, validate, disk errors, crash, restart | `RegistryData` |
| `UpstreamSettings` | the number of retries | |
| `StdioSession` | one exchange with a child process | `UpstreamSettings` |
| `HttpExchange` | one exchange with an http server | `UpstreamSettings` |
| `UpstreamCall` | what the gateway relies on in an exchange | `UpstreamSettings` |
| `Upstream` | the choice between the two adapters | `StdioSession`, instances of `HttpExchange` and `UpstreamCall` |
| `Console` | the management page over the store's promise | `RegistryData` |
| `MC*` | small instances for TLC | the module of that name |
| `*Proofs`, `GatewaySafety` | theorems | the module, `TLAPS` |

### Gateway

State: `clients`, `servers`, `rpm` are the reloadable attributes of the live
registry; `buckets` is `_rate_limiters`, an entry keeping the limit it was made
with; `cache` is `_tools_cache`, an entry keeping which upstream its list came
from. Each handler has a `pc`, its request and the locals that outlive a step:
`limit` (the `rpm` of `check_rate_limit`), `todo` and `cur` (the loop of
`tools/list`), `srv` (`server_cfg`, `server`), `source` (the entry that
`_collect_tools_for_server` reads for itself), `fetched`, `tools`. Each operator
has `apc` and the registry it has loaded.

A step is one access to shared state: `Authenticate` (one read of `clients`),
`ReadClientRpm`, `ReadGlobalRpm`, `TakeToken` (the locked look-up and the
bucket's answer), `Authorize`, `Route`, `Forward`; for listings `ListClient`,
`ListServer`, `Collect`, `CacheHit` / `CacheMiss`, the three outcomes of a
fetch, `CacheStore`. An apply is `BeginApply` (lock taken, file written and
loaded), three swaps, `ReleaseLock`, `ClearLimiters`, `InvalidateCache`; or it
ends early in `ReloadFails` (which still goes on to clear) or `ApplyRaises`
(which does not). `LogBreaks` says whether an append to the audit log may raise:
it then does so at any record, the connection is dropped and no record is left.
Further exceptions that nobody catches drop the connection as well: comparing
tokens that are not ASCII (`Authenticate`), a tool list with something else than
objects in it, fresh or cached (`Show`), and what `Forward` lets through.

History variables record what the properties speak of: the tables live since a
request arrived (`seenC`, `seenS`), its audit records (`trail`), whether a swap
fell between a read and its use (`raced`), whether an apply broke off before
clearing (`uncleared`), whether the call reached an upstream (`sent`).

What makes it correct: a call or a listing gets only what tables live during the
request grant (`CallAuthorised`, `ListingAuthorised`), and is refused only for a
cause in such a table (`RequestRefusedForCause`); the log agrees with the
decisions (`AuditTrail`); for the operators the assignments of an apply are one
replacement of the registry, made under the write lock (`ReloadsAreAtomic`); cache and buckets are
out of date only in the windows that the code cannot close
(`StaleCacheOnlyByRace`, `StaleBucketOnlyByRace`); a bucket is shared and not
replaced (`BucketsKept`); every request ends, even next to an apply that never
goes on, unless its thread waits for an upstream for good (`RequestsEnd`).

`LiveRegistry` is the abstract specification behind that: the registry in force
is one of those loaded, whole, and only the holder of the write lock replaces it,
once while holding it. `Gateway` maps its three attributes to it with `InForce`:
an apply that is halfway has already put its own in force. `RegistryStore`, where
the reload is one of the many steps of an apply, implements it as well
(`RegistryReplacedOnce`), which is what ties the two modules' applies together.

### TokenBucket

Time goes by in ticks, `Minute` of them to the minute; a token is `Minute` units,
which makes `elapsed * (rpm / 60.0)` an integer. `Grant` and `Refuse` are the two
outcomes of `allow`. An observer may at any time start counting grants afresh, so
`WindowBound` speaks of every window.

### EventStream

An event is the index of its record in `log`. A publisher appends (`Record`),
copies the subscribers (`Snapshot`), calls each back (`Deliver`) and is done
(`Published`); in no particular order, as the order of subscribers matters to no
property. A connection subscribes or is turned away (`Connect`), sends headers,
loops over `Skip`, `Write` and `Keepalive`, and unsubscribes. A client may leave
at any moment; the first write after that may still succeed, the next fails.

### RegistryData, AtomicRegistry, RegistryStore

A registry keeps what decides: each client's `allow_servers`, the servers there
are, the management token, and `bound`, the settings that a reload leaves alone
and only a restart puts in force. A file that parses is a draft of a registry
(`Drafts`), in which sections may be missing, all of them if it is `Blank`; one
that does not, or is not there, is `Broken`. `Torn` is what an interrupted write can
leave, drafts with part of the sections included. A patch gives or nulls clients and
servers and may be unsound (a schema or per-entry rule) or malformed. It is merged
into whatever the draft has and only the result is validated (`Passes`), so that a
patch that brings what is missing passes on a damaged or empty file too.

`RegistryStore` takes `apply_patch` apart: `Acquire`, `Read` (read, merge,
validate), `OpenBackup` and `CopyBackup`, `OpenFile`, `WritePart` and `WriteFile`,
`OpenRestore` and `Restore`, `Reload`, `Conclude` (the record, the lock), with a
failing twin for each, `Validate` for the unlocked validation, and `Crash` and
`Restart` at any moment. The reload's four assignments are one step here;
`Gateway` takes the three that requests read one by one. `good` remembers the
registry last written whole, or started from; `damaged` says that a rewrite has come
to nothing since, by a write and a restore that both failed or by the daemon's
death, so that only the backup has it. An apply that gets to `OpenBackup` in that
state is about to overwrite it with whatever its patch completes, and `good` is
`Broken` from there to the next complete write: the code promises nothing for that
while. `notice` remembers whether the caller of an apply that
changed `bound` was told to restart, or was never answered. `RestartRequired`
compares the merged registry with the file, as the code does, and not with what
the daemon runs with; `RestartAnnounced` is what holds all the same.

`AtomicRegistry` is the promise: patches take effect one after the other, each on
what the one before left and only if the result is valid, and what damage a crash
or disk error does is what `Torn` allows of what was being written.
`RegistryStore!AppliesAreAtomic` maps the file to it, hiding the rewrite in
progress behind the backup (`DiskSeen`). `Console!FileIsAtomic` says that the daemon
the page talks to in module `Console` keeps the same promise.

### StdioSession

One exchange, from `Spawn` to `Close`. Pipes are sequences of messages. A reader
whose wait times out becomes an orphan that may `Steal` or `Garble` the next
message. Any message may also come out of the pipe cut short, which ends the exchange
(`Read`). Only `tools/list` is retried, in the same session. `Large` says whether
the arguments of a `tools/call` may exceed what the pipe holds, in which case the
write blocks until the child reads. The child (`Take`, `Notice`, `Exit`) is external.

### HttpExchange, UpstreamCall, Upstream

An exchange over http is a connection and a request (`Connect`), the wait for an
answer, and its end (`Read`, `TimesOut`). `tries` counts timeouts; only
`tools/list` connects again, as only its helper retries. What has come of the
answer is its `status` (the head) and `body` (the rest, once complete). How it
ends: `result`; `failed`, an `HttpMcpError` that the daemon reports; or `raised`,
an exception that nobody catches (a broken connection while reading, a body that
is not JSON or not an object, a timeout in the body of an error), after which the
daemon's client gets no answer. The server (`Act`, `Head`, `Finish`, `Drip`) may
act on any request it was sent, at any time.

`Upstream` puts the two adapters side by side: `transport` says which one works
while the other is at rest. `Ending` is what an exchange comes to for whoever
asked, with the four sets of exceptions that the daemon's four handlers catch;
`Asked` counts the requests. `UpstreamCall` is the contract in these two: within
the retries, for a call once, one ending, no result without a request. That is
why `Gateway` may take an exchange as one step, and `KeepsContract` says that
both adapters implement it.

### Console

`view` is the registry that the page has fetched, `pending` what is staged. A
client stands by its `allow_servers`, a server by its being there. `ToggleCell`
stages a whole list made from the view and unstages one that is back at it;
`RemoveClient` and `RemoveServer` stage removals; `OpenDialog` shows
`HumanDiff(view, pending)`; `Confirm` sends what is staged *by then*, rebuilt
into a patch (`BuildPatch`, where a removal hides other edits of its entry).
`Handle` is the daemon: the step of `AtomicRegistry`, with the registry in memory
beside the file, and an answer that may be lost. `Answered` is what the page makes
of the answer: a success empties `pending` and starts a fetch. `Refetch`, `Unlock` and
`Deliver` are fetches, which arrive whatever the page has become. `OtherApplies`
and `Restart` are the rest of the world.

What the page knows about errors, warnings and the outcome of Validate only
decides which buttons it offers; the model offers them all, always.

`intent` follows the operator's edits and loses them only where the operator
gives them up or where the apply that carried them succeeds; `overlapped` marks
that something was staged while an apply was under way. `shown.current` says
whether the page still has the view a dialog was made from. With these:
`EditsHaveAView`, `EditsLostOnlyInFlight`, `NothingUnshown`.

## 3. The runs

| Run | Properties | Instance | What it shows |
|---|---|---|---|
| `gateway_requests` | `TypeOK` `CallAuthorised` `ListingAuthorised` `RequestRefusedForCause` `AuditTrail` `StaleCacheOnlyByRace` `RequestsEnd` | 1 handler, 1 operator, 3 registries, 15 requests, 1 apply, failing log | decisions and cache across a reload; only a wait for an upstream holds a request up |
| `gateway_overlap` | `StaleBucketOnlyByRace` `BucketsKept` `ReloadsAreAtomic` | 2 handlers, 2 operators, 2 applies, failing log | overlapping applies and requests |
| `token_bucket` | `TypeOK` `WindowBound` `RefusedOnlySoonAfterGrant` | rpm 4, 6 ticks a minute, 15 ticks | the limit in any window |
| `events_slots` | `TypeOK` `Bounded` `SlotsAccounted` `PublisherNeverStuck` `GoneClientFreesSlot` | 1 publisher, 2 connections, cap 1 | the race for the last slot; no one is held up |
| `events_delivery` | `NothingElseLost` `OwnOrder` | 2 publishers, 2 connections, queue of 1 | what is lost and what is not; overtaking |
| `store_applies` | `TypeOK` `Recoverable` `AnswerMatchesDisk` `MemoryFollowsFile` `RefusedForCause` `RestartAnnounced` `AppliesAreAtomic` `LockFreed` | 2 threads, 3 patches (a list; a removal with new settings; a whole registry) | failures, crashes, restarts, also with a patch that completes a damaged file; refinement; the lock is given back |
| `upstream_exchange` | `TypeOK` `OwnAnswer` `HandshakeKept` `SilenceIsReported` `SessionEnds` `NoReaderStays` `HttpEnds` `KeepsContract` | 2 retries, 2 unasked lines, large arguments | both adapters, undisturbed and disturbed; the contract |
| `console` | `TypeOK` `EditsHaveAView` `EditsLostOnlyInFlight` `NothingUnshown` | 1 client, 1 server, 2 edits, 2 applies, 2 fetches, 1 foreign apply | the page overtaken by its own answers and by others |

Four runs are expected to fail: each checks a sentence of a document or comment
that the code does not keep.

| Run | Says | What happens |
|---|---|---|
| `gateway_doc_decisions` | `docs/management_api.md:418`, decisions are consistent within a request | token judged by the old table, server by the new |
| `events_doc_cleanup` | `CHANGELOG.md:195`, cleanup on disconnect | not before the headers are out |
| `store_doc_readers` | `docs/management_api.md:416`, readers see the file fully old or fully new | a validate reads an emptied or half-written file |
| `stdio_doc_cache` | `daemon.py:332`, only successful lists are cached | an error object is cached as an empty list |

Others that the models show by one of their steps, without a run of their own:

* `daemon.py:294`, "Cache is invalidated on config apply", and
  `docs/management_api.md:397`, new buckets get the new limit: both but for the
  races that `StaleCacheOnlyByRace` and `StaleBucketOnlyByRace` name (a list in
  flight is stored, a bucket of the old limit is made, after the clearing).
* `CHANGELOG.md:19`, every tool decision is audited: `Route` writes a record only
  when it denies. `ARCHITECTURE.md:81`, denials are always recorded: not the one
  for a missing id or token (`Incomplete`).
* `daemon.py:93`, 10 requests a minute: a full bucket and its refill, up to 20
  (`WindowBound` is the bound that holds).
* `docs/management_api.md:336`, every attempt is audited: not the one answered 409
  (`Acquire`).
* `SECURITY.md:22`, "Config corruption: atomic backup-then-write", and
  `docs/management_api.md:239-242`: after a write and a restore that both failed, or
  the daemon's death in a write, the backup alone has the good registry. An apply
  whose patch brings what the file lost passes validation (on an empty file, one
  with all three sections), and its backup copies the damaged file over the good one
  (`management.py:106`, `128-158`, `245-264`). If the write that follows fails too, no
  whole registry is left (`OpenBackup` after `RestoreFails` or `Crash`; the case that
  `Recoverable` leaves out as `good = Broken`).
* `ARCHITECTURE.md:135`, invalid configurations fail before the start: `Restart`
  validates nothing.
* `README.md:194`, `tools_call_s`: the write of a large request has no timeout
  (`SendLarge`; the exception in `SessionEnds`).
* `docs/web_ui.md:206`, pending changes are cleared on success: those staged while
  the apply was on its way too, though they were never sent (the exception in
  `EditsLostOnlyInFlight`).
* `docs/web_ui.md:21`, every save shows what will change: against the view. With the
  view out of date a list overwrites what another operator has changed in it and
  the dialog shows nothing of that (the premise `view = disk` of `NothingUnshown`).
  And an answer that was on its way when the page was locked brings the registry,
  and for an unlock management mode, back (`Deliver`).

Why the bounds are enough. The gateway's properties relate one request to the
apply it overlaps; three registries that differ in every respect a step reads
(token, allowed servers, limits, policies, transports, presence of client and
server) and an apply at any point give every mixture of old and new that a
request can meet, and the log may fail at any record. Two operators and two
applies give every overlap of applies, two handlers every race for one bucket.
Handlers meet only in buckets and cache, and what another handler may have left
there is what an earlier request of the same one leaves. A queue of one event and
a cap below the number of connections reach the limits at once; two records let
two publishers overtake each other, or one of them lose its order. In the store
two threads are the one in the lock and the one outside it; it starts from one
registry (`Originals`), and the three patches lead from it to one of every kind that
an apply tells apart: with fewer entries, with other settings, without a token (after
which only a restart on a damaged file lets an operator in again), and back, also
from an empty file. Two retries
distinguish the first, a middle and the last attempt. On the page two staged
edits are a list and a removal of one entry or of two, two applies and two fetches
give answers out of order, and the one foreign apply is the one that makes the
view wrong (it removes the server and with it a right that is staged against). Besides,
every invariant is proved without bounds (section 5). `MaxApplies`, `MaxEvents`,
`MaxNotices`, `MaxTime`, `MaxStaged`, `MaxCalls` and `MaxOthers` bound what would
otherwise grow for ever, `Fetches` the fetches under way; nothing else is cut off.

Deadlock is checked for the gateway, the bucket and the page, where the runs never
stop; the other models stop when their bounded work is done, a daemon may stay
down, and a hung child or silent server may leave nothing to do. Symmetry is used
only in runs without liveness properties, over identifiers that are only compared
with one another.

## 4. Fairness

* Gateway: weak fairness per handler, for its steps other than `Forward` and the
  end of a fetch. Threads are scheduled, and the locks that a step takes are held for
  one step. An exchange with an upstream is owed no end: the write of a large
  message and an http body that drips have no timeout (`stdio_mcp.py:136`,
  `http_mcp.py:44`; the exceptions in `SessionEnds` and `HttpEnds`). `RequestsEnd`
  has that wait, `Awaiting`, as its exception. A request that ends without an
  answer ("dropped") counts as ended. No request is owed to the daemon, of the client
  it is not expected that it takes its answer, and of an apply nothing at all.
* EventStream: weak fairness per publisher, whose callbacks never wait, and for a
  connection only once its client is gone: the wait on the queue ends after 30 s
  and a dead socket's write fails. A client that is up and does not read may block
  a write for ever, so nothing is assumed of it.
* RegistryStore: weak fairness of an apply's own thread; calls on files return or
  raise.
* StdioSession, HttpExchange, Upstream: weak fairness of the daemon's thread, each
  read of which times out (its write does not, and is no step until the child has
  read or is gone), and of the reader threads. None of the child or the server: one
  that sends a byte within every timeout keeps `http_mcp.py:44`
  reading, and `HttpEnds` says so.
* Console: none; its properties are about safety.

Liveness is stated over bounded work. In particular `GoneClientFreesSlot` says
that the slot of a stream whose client is gone is freed once records stop being
written; under unending records of types other than the filter's the loop at
`daemon.py:435-436` never writes and never notices.

## 5. What is proved

For all values of the constants that satisfy the modules' named assumptions:

| Module | Theorems |
|---|---|
| `GatewayProofs` | `Typing` |
| `GatewaySafety` | `CallsAreAuthorised`, `ListingsAreAuthorised`, `RequestsAreRefusedForCause`, `AuditTrailKept`, `AppliesDoNotMix`, `ReloadsKeepContract`, `CacheStaleOnlyByRace`, `BucketsStaleOnlyByRace`, `BucketsAreKept`, `RequestsRunOut` |
| `TokenBucketProofs` | `Typing`, `GrantsAreBounded`, `RefusalsAreShort` |
| `EventStreamProofs` | `Typing`, `SlotsAreAccounted`, `LimitsHold`, `NothingIsLost`, `OrderIsKept`, `PublishingEnds` |
| `RegistryStoreProofs` | `Typing`, `GoodCopyKept`, `AnswersAreTrue`, `MemoryIsFile`, `RefusalsHaveCause`, `RestartsAreAnnounced`, `StoreIsAtomic`, `StoreReloadsKeepContract`, `RetriedApplyIsHarmless`, `AppliesEnd` |
| `StdioSessionProofs` | `Typing`, `AnswerIsOwn`, `HandshakeIsKept`, `ReadersAreBounded` |
| `UpstreamProofs` | `SessionKept`, `HttpTyping`, `SilenceReported`, `CarriedOutAtMostOnce`, `ExchangeKeepsContract`, `ExchangesEnd` |
| `ConsoleProofs` | `Typing`, `EditsAreShown`, `EditsAreKept`, `NothingIsUnshown`, `FileKeepsContract` |

The assumptions are about the constants only: the registries and requests are
well formed, the sentinels differ from the values, numbers are naturals, the sets
of connections and of servers are finite. The arguments:

* **Authorisation.** `CallAuthorised` speaks of the end of a request and is not
  inductive. `GrantsHeld` says what a thread holds at each step: that the live
  tables are among those it has seen, that past authentication its token was
  valid, past authorisation the server allowed, past routing the entry read and
  the tool permitted. Each step adds one of these from the live table, and a swap
  only adds to the tables seen. `Permits` and `HoldsToken` are shown to be what
  the chains of early returns come down to.
* **Refusals.** The same with the signs turned round: `RefusedWithCause` needs no
  more than that the table a refusing step reads is among those seen.
* **Audit trail.** `TrailByStep` fixes the records of every step before the
  answer; `AuditTrail` follows at the answer.
* **Reload.** `SwapOrder`: the lock's holder is the only operator between
  `clients` and `release`, and how far it has got says which attributes are
  already its. With it `NotTorn` is inductive, and `ReloadStep` maps the first
  assignment of an apply to the replacement in `LiveRegistry`, the other two to
  stutters. `RegistryStore` needs for the same its stages only. `ReadsFresh` says that what a
  thread has read and not used is still so unless `raced`: that is why a stale
  entry without the mark cannot be made.
* **Token bucket.** `Budget`: the grants observed and the tokens left come from a
  full bucket and the refills since. `Saved`: no credit since the last grant was
  lost but to the cap.
* **Events.** An event that is due is in flight, queued, delivered, dropped or
  unwanted, and each step moves it from one of these to the next.
* **Store.** For every stage of an apply, what file and backup hold relative to what
  the apply has read (`Stages`); who is outside the lock knows nothing. `Recoverable`
  is inductive next to it: `good` is in the file, in the backup while an apply rewrites
  the file and, once `damaged`, for good, until an apply opens the backup. The
  refinement maps a completed write to `Applied`, a failed restore or a crash
  during a write to `Damaged`, everything else to a stutter.
* **Order of events.** `HandsLatest`: what a thread still holds for a connection
  is its own and later than all of its records the connection has, so that
  handing it over keeps the order; the rest only moves the head of a queue or
  drops it.
* **Restarts.** `RestartAnnounced` is carried through an apply by what the applying
  thread has read: between file and memory `bound` differs only by an apply that
  was announced or whose answer was lost.
* **Stdio.** While undisturbed there are no orphans and no retries, so what is on
  the two pipes is determined by the step the thread is at. `Counted` and
  `Ordered` relate the messages sent so far to the step and the attempt, without
  selecting from the sequence.
* **Contract.** Over http each `Connect` adds one try to `delivered`, and `tries`
  goes up only where the request is retried; over stdio `Counted` does the same.
  No step leaves a session with an ending but the one that ends it.
* **Page.** `SentAsStaged`: until something is staged under way, every apply on
  its way carries exactly what is staged, or nothing is staged; so its success takes
  nothing else with it. `ShownCovers`: a dialog whose view is still the page's
  shows the diff of what it will send; `EffectIsInDiff` is the lemma that this
  diff covers what a merge into that view changes.

* **Retry.** `RetriedApplyIsHarmless` is about the data alone: the merge is
  idempotent, on whole and on damaged files. It is what an operator relies on who sends an apply again because
  its answer was lost.
* **Step bounds.** Behind each liveness property there is a rank: how many steps
  a thread has left at most (`StepsLeft`, `StepsToGo`). That the rank falls with
  each step of that thread and nothing else raises it is an action property
  and proved: `RequestsRunOut` (5 N + 9 for N distinct servers, the loop of `tools/list`
  counting what is still in `todo`), `AppliesEnd` (9), `ExchangesEnd` (5 R + 8
  over stdio, 2 R + 2 over http, R being the retries), `PublishingEnds` (one
  callback for each slot). `ReadersAreBounded` adds that an exchange leaves 2 R + 1
  reader threads at most. What remains of liveness is that a thread which has a
  step left may take it and is scheduled. The run that checks `RequestsEnd` has one
  handler; `RequestsRunOut` holds for any number.

`NotTorn` and `CarriedOutOnce` are proved and in no run: that the registry in force
is whole is part of `ReloadsAreAtomic`, and a request is carried out no more often
than it was sent, which `KeepsContract` bounds. `HttpTypeOK` types the variables
that `HttpExchange` adds and is proved only.
`RegistryReplacedOnce`, `FileIsAtomic`, `ReadersBounded` and the action properties
behind the step bounds (`WorkRunsOut`, `ApplyRunsOut`, `ExchangeRunsOut`,
`PublishingRunsOut`) are in no run either: each holds on the instances of
section 3 and is proved for all.

Only model-checked: the liveness properties (`RequestsEnd`, `PublisherNeverStuck`,
`GoneClientFreesSlot`, `LockFreed`, `SessionEnds`, `NoReaderStays`, `HttpEnds`), as
fairness and `ENABLED` are out of the prover's reach. For `RequestsEnd`, `LockFreed`,
`SessionEnds`, `HttpEnds` and `PublisherNeverStuck` the step bounds are the part of
the argument that is proved.

## 6. What is left out, and why

* Requests that do not parse, are too large or go to an unknown path: answered
  before anything shared is read.
* The 30 s of the cache: `CacheMiss` may find any entry too old.
* What an upstream answers: free, any list or none, or a failure.
* Float rounding in the bucket. A limit of 0, which the schema refuses.
* The order in which a client's servers are listed, and of callbacks; a server that
  a client's list repeats (`daemon.py:630`) is listed once.
* A read of `registry.yaml` that fails although the file is sound (it raises, as
  an unreadable one does), and a failure of the operating system between a rename
  or flush and the disk: a completed write is durable.
* Where an interrupted write is cut. The sections come as `yaml.dump` sorts them,
  clients, lmcp, servers, and a cut falls between two entries, in which order they
  may be; one inside an entry is taken for `Broken` or for a cut next to it. In lmcp
  the last setting may be cut short and become any other. A file written by hand, which
  only a restore writes back, is taken to have the same order.
* The schema and the per-entry rules of validation: one patch kind, `unsound`.
* Of http: redirects, which urllib follows, and the backoff, which only waits.
* Of stdio: descendants of the child that keep its stderr open
  (`stdio_mcp.py:109`). The rest of a message that was read short: it goes with the
  part that was read.
* Of the page: adding a client, rotating a token, limits and tool policies, which
  are staged, shown and sent as lists are; Validate and all messages; the poll of
  `/status`, the event list, rendering.
* The registry view (`build_registry_view`, redaction), status and health, static
  pages and the command line: they read and report, and keep no state.

## 7. Plan

Done, in this order: `Policy` and `Gateway` (the core: authorisation against
reload), `TokenBucket`, `EventStream`, `RegistryData` / `AtomicRegistry` /
`RegistryStore` with the settings that need a restart, `StdioSession`,
`HttpExchange`, `UpstreamCall` and `Upstream`, `Console`, each with runs and proofs.

Left:

1. `StreamLoop`: the loop of `/events` under unending filtered traffic, where the
   code gives no guarantee for a client that is gone (`daemon.py:436`).
2. A composition of `Gateway` with `RegistryStore`, whose loaded registries would
   replace the free choice of `BeginApply`; so far the two share `LiveRegistry`.
3. The refinement of a cache specification by `Gateway`.
4. The per-entry rules of `config.py` as operators, with a limit of 0 among them.
