# A TLA+ verification of the KB Labs gateway

The gateway accepts agents ("hosts") and observer clients over WebSockets,
executes plugin handlers on the hosts on behalf of HTTP clients, and keeps
the hosts, their credentials and their status in a cache with an optional
persistent store. It also serves LLM, platform, telemetry and health routes, and
comes with the client side of remote execution and with a runtime server. This
directory models the parts of it that keep state or run concurrently, checks them with TLC on small instances, and proves the
central ones with TLAPS. `PROJECT.json` holds the machine-readable side: the
runs, the mutants, the source lines of every definition, the hazards, the
findings and the theorems.

The program runs on one event loop. A step of every model is what the code
does from one `await` to the next (a synchronous method or listener is one
step); two steps of two handlers interleave freely. Where a handler awaits the
cache or the store the models take a constant `InlineStorage`:

* `TRUE`: the command is answered within the turn (the in-memory cache, and
  the synchronous SQLite driver, which resolve in microtasks), so no socket
  event, timer or request runs in between;
* `FALSE`: an external cache answers later, and anything may happen meanwhile.

In `AuthTokens` it is a variable, `inlineStorage`, that an initial state fixes, so that
one run covers both.

## Inventory

| Component | State | Operations | What makes it correct |
|---|---|---|---|
| `HostCallDispatcher` (gateway-core/dispatcher.ts) | sockets per namespace and host, capability index, pending calls with timers | registerConnection, removeConnection, call, handleInbound, timer, firstHost, firstHostWithCapability | each call is settled exactly once and leaves nothing behind; the index names connected hosts only |
| Execution contour (execute/) | execution registry with abort signals, the retry loop, the ndjson stream | execute, cancel, client close, host close, retry, delay | an accepted cancel decides the ending; no attempt after an abort; one ending per stream; nothing leaks |
| Observers (clients/) | three maps of the SubscriptionRegistry, socket states | hello, subscribe, unsubscribe, cancel, close, broadcast | the maps agree; no event is missed, repeated or waited for in vain |
| Agent handler (hosts/ws-handler.ts) and status side of `HostRegistry` | handler progress, descriptor (status, connections, capabilities), grace timers, routes | handshake, heartbeat, watchdog, close, grace timer, restart | the status shown is backed by sockets and timers; routes lead to open, served sockets; a lost host goes offline |
| Catalogue side of `HostRegistry`, `SqliteHostStore` | hosts and machine tokens in store and cache, index lists | register, deregister, get, ensureRegistered, status writes, restore | registered hosts stay listed; cache and indexes agree; removed hosts stay removed |
| `AuthService` (gateway-auth) | client records, host index, refresh tokens | register, token, refresh | tokens name a registered client; a token is exchanged once; an interrupted exchange does not shut its agent out |
| Dispatch transport and host resolver (gateway-core), runtime server (gateway-runtime-server) | loop counter and abort timer of a caller, HTTP exchanges, calls and answers in flight, running handlers | resolve, execute, poll on 503, abort; connect, handle a call, answer, lose the socket, stop | a caller gets its own answer or an error, in bounded time; a retry repeats no work |
| Adapter routes (llm/, platform/, telemetry/, handleAdapterCall) | where a handler awaits its adapter, what was written to the peer | refuse, call, stream, count, answer, fail | one status, one ending; a failure is visible, also in the middle of a stream |
| Health and docs caches (server.ts, docs/) | one cached snapshot each, collections under way | hit, miss, probe, fetch, store | what is served is never older than the time to live and one collection |
| Observability collector | active, total and error counters, statistics per route and operation | request and response hooks, observeOperation, buildHealth | the top operations are the top ones, with a domain operation among them |
| `AdaptiveBuffer` | buffered calls | enqueue, flush | nothing enqueues; not modelled |
| Upstream proxy, trace context, configuration | none | one request each | library I/O and constants; not modelled |

How they interact: the execute route asks the dispatcher for a host with the
`execution` capability, registers the execution and calls the host through
the dispatcher; agent messages reach the dispatcher through the agent
handler; the agent handler's close listener removes the route, aborts the
executions of the host and updates the registry; every event written to an
execution's stream is broadcast to its observers, who may cancel it; agents
authenticate with tokens issued by `AuthService` or with machine tokens from
the catalogue. A process that executes remotely resolves a host and posts to
`/internal/dispatch`, which calls the runtime server, an agent like any other,
through the dispatcher. The adapter and health routes share nothing but the caches
and the collector.

What is hard about it: answers, timeouts, cancellations and disconnects that
race each other; several sockets of one host whose handlers interleave;
listeners that are attached after several awaits; read-modify-write of shared
descriptors and lists; restarts between two storage commands; callers that give up
while the gateway goes on; streams that fail after they began with 200; requests that
fill one cache at the same time.

## Modules

| Module | Models |
|---|---|
| `HostRouting` | routing tables of the dispatcher; below `HostCallDispatcher` and `AgentConnection` |
| `HostCallDispatcher` | calls, timers and inbound messages, with `POST /internal/dispatch` as their caller |
| `ExecutionEvents`, `ExecutionStream` | the events, and the abstract specification of what an execution's stream promises |
| `ExecutionContour` | the execute and cancel routes, the retry loop and the registry on top of `HostCallDispatcher`; implements `ExecutionStream` |
| `ExecutionObservers` | observer connections over the executions of `ExecutionStream` |
| `AgentConnection` | the agent handler and the status side of the registry, on top of `HostRouting` |
| `HostCatalog` | presence of hosts and tokens in store, cache and indexes |
| `AuthTokens` | registration, token issue and refresh |
| `RemoteExecution` | host resolver, dispatch transport, `/internal/*` and runtime server, on top of `HostCallDispatcher` |
| `HttpExchange` | what every request handler does with its peer: position, frames written, refusals |
| `AdapterRoutes` | LLM, platform and telemetry routes and `adapter:call`, on top of `HttpExchange` |
| `HealthSnapshots` | the health and documentation caches with a clock, on top of `HttpExchange` |
| `TopOperations` | the choice of the top operations, a pure function of the statistics |
| `HttpServer` | composes the last four with the hooks of the collector |
| `*_proofs` | theorems about the module they extend |
| `MC*` | instances for TLC |

### HostCallDispatcher

`connections`, `capabilityIndex`, `pending`, `timers` and `chunks` are the maps of
the class; `settled` records what a promise was answered with and `issued` the
calls made. `Call`, `InboundChunk`, `InboundResult`, `InboundError` and
`CallTimeout` are the branches of `call`, `handleInbound` and the timer callback.
A message about a call may arrive at any time, repeatedly, and after the host
left, because the dispatcher does not look at the socket a message came
from. The code takes the first host in insertion order; the model takes any
suitable one. An agent's error text is reduced to what `classifyError` makes of
it.

### ExecutionContour and ExecutionStream

`phase` says where the handler of an execution is: `racing` (awaiting
`raceAbort`), `backoff` (awaiting `interruptibleDelay`) or ended. `executions` is
the registry, `aborted` the abort reason, `attempt` the loop counter, `stream` the
events written, `response` the state of the HTTP response and `accepted` the
reasons of cancel requests answered with 200. `AttemptSucceeded`,
`AttemptFailed` and `AttemptRetried` are what follows the settlement of an
attempt, up to the next await; each includes the events it writes and, at the end, the
`finally` block. Between the settlement and that continuation there are only
microtasks; the model allows other steps there, which adds behaviours and
removes none. `HostClosed` is the synchronous part of the agent handler's close
listener that concerns executions; the part that concerns the registry is
`AgentConnection!Closed`.

`ExecutionStream` knows only a status, an abort reason and the stream, with
five actions: refused, opened, a retry, an accepted abort, and the ending that
the abort reason allows. The refinement maps `racing` and `backoff` to "live".

### AgentConnection

`pc` is the place of a socket's handler, one value per await; `wire` is the
socket itself, which may close whenever it likes; `got`, `beat`,
`watchdog` and `graceGot` hold what a handler, a heartbeat, a watchdog tick and a
grace callback read before an await and write back after it. The descriptor keeps
status, connection list and capabilities. The store holds the same
descriptor and is folded into the cache here; `HostCatalog` treats them apart.
`Restart` loses sockets, handlers and timers, and the cache unless it is
external, and then does what `restore` does. `buffer.flush` is an await that
yields nothing, as nothing enqueues calls.

### HostCatalog

Every operation of the registry is a sequence of storage commands, and an
action executes the next command of one request. Only presence is kept: in
the store, the cache, the per-namespace index, the namespace list and the two
token tables. With inline storage a request runs to its end before another
begins, but a restart may fall between any two commands. With a store a
restart of a gateway with in-memory cache starts from the store alone.

### ExecutionObservers

The maps of `SubscriptionRegistry`, the state of each observer's socket and
handler, and two history variables: what an observer was sent for an execution
since it subscribed, and how long the stream was at that moment. Executions
are those of `ExecutionStream`; `RegistryExact` is what justifies reading
"live" as "in the registry".

### AuthTokens

One handler position per request and the three key families of the store.
Signing and verifying are asynchronous and never inline. Each refresh token
is distinct (a random `jti`). The JWT and the cache entry of a token expire
together. `Restart` drops the running requests, wherever they are. A cache in the
gateway's memory (`inlineStorage`) is lost with it, and an external one may survive or
be lost: then client records, secrets and tokens are gone, as `AuthStore` keeps them
nowhere else, and agents have to register anew under new ids. `voided` remembers the
tokens that were held at such a moment; nothing is promised of them. Public keys are
written and never read, and are left out.

`HeldTokensWork` is about all the others, in particular about the token whose exchange
a crash interrupts between the delete of the old entry and the answer: neither
token works then, and what is left to the agent is its secret, which the property requires
to be accepted. A refresh that was answered must have handed out the new token.

### RemoteExecution

Three processes. A caller's `step` is where `resolve` or `execute` is suspended, and
`attempt` its loop variable, up to what line 66 of the transport makes of the `retryOn503`
option (`AttemptsAllowed`: one attempt when the option or its `maxAttempts` is left out, and none
for `maxAttempts: 0`, when `execute` throws at once); each attempt is one exchange in `http` and one call of
the dispatcher, so a request is a pair of caller and attempt. `inbox` and `wire`
are the runtime server's socket in either direction, `running` the handlers it runs;
`executed` is a history variable. `Dispatch` and `DispatchAnswered` are the two
halves of `/internal/dispatch` around its await; `FetchAborted` is the timer or a
network failure, of which the gateway learns nothing. `ConnectionLost` loses what is
in flight and leaves the handlers running, which then answer over the next socket;
`StaleClose` is the close of a socket that was already replaced. The gateway client is
not in the repository: from the way the dispatcher and the runtime server use it, it
sends the value a handler returned as a chunk and then the result, or an error. A
pinned host passes on its registry status, which says nothing of its socket, so
any host may pass.

### HttpExchange, AdapterRoutes, HealthSnapshots, HttpServer

`handler` is the await a request's handler is suspended at, `sent` the frames written to
the peer: a status, the kinds of server-sent events, the end of a response, or a WebSocket
answer. Adapters and the REST API answer, fail or never end. No handler looks at
its peer, so a peer that leaves changes nothing and is not an action. When a platform
stream breaks, the catch block tries to send a second status; that throws in
Fastify, and the response is left open (`threw`).

A refusal is one step, although the middleware awaits the token's lookup
before: no state of these modules is read in between. `HealthSnapshots` counts time in
ticks. `view.since` is the moment a collection began, `served` the
age of what a request was answered with; a cache that fails to read or to write is a
choice. With no upstreams, the default, a snapshot is complete at once. The cache's own
delays are left out: it answers within the turn. Of a
snapshot only the state of `rest` is kept, the one `/ready` looks at. In `HttpServer` the two
hooks of the collector surround every HTTP route (`adapter:call` is not HTTP), and
looks at the adapters and probes are observed as operations. Fastify calls
the response hook when a response is finished, and may never do so when it is not.
`TopOperations` keeps sets where the code keeps arrays: a slice of a sorted list is any
set the sort may put in front, which covers every order among equals.
`OperationMetricsTracker` is a library: it is taken to report all the operations
it has seen.

## Runs

| Run | Bounds | What it shows |
|---|---|---|
| `dispatcher` | 2 hosts, 2 sockets, 2 calls, 2 chunks | every call settles, once, and leaves no entry or timer; the index is clean |
| `contour` | 2 executions, 2 hosts, 2 attempts, 2 reasons | registry, cancel, host loss, attempts, abort, refinement of `ExecutionStream` |
| `contour_ends` | 1 execution, 2 namespaces, 3 attempts, 1 chunk | every execution ends |
| `agent_inline` | 3 sockets of 1 host, restarts | status, routes, timers and going offline, with inline storage |
| `observers` | 3 observers in 2 namespaces, 2 executions, 2 attempts | subscriptions and delivery |
| `auth_tokens` | 5 requests, 2 agents, 2 namespaces, 3 tokens, restarts; either kind of storage | what tokens say, that their holders are not shut out, and rotation with inline storage |
| `host_catalog` | 2 concurrent requests, 3 hosts, 2 namespaces, restarts | store, cache and indexes agree |
| `remote_execution` | 2 callers, complete or not, with `maxAttempts` 2 or 0, an empty option or none, 1 runtime server | own answers, no repeated work, polling, and every execute settles |
| `http_server` | 2 requests of any kind, 1 chunk, 2 events, 2 upstreams, 2 durations, 2 ticks, a report of 2 | answers, visible failures, top operations |
| `health_snapshots` | 3 requests, 2 upstreams, 5 ticks | freshness of what is served |
| `agent_stale_close` | 2 sockets | finding: online without a route |
| `catalog_token_restart` | as `host_catalog` | finding: machine token refused after a restart |

Why the bounds are enough for what they show: two attempts have a retry, a
last attempt and a late answer of the first; two executions on two hosts tell
apart the execution that is cancelled from one that is not; three sockets of
one host give a replaced, a replacing and a late one; three refresh tokens
give a chain of two rotations and a competitor; three requests on a cache give two
that collect at once and a third that reads what the slower one left, and five ticks
are more than a collection, a time to live and another collection; two callers with
two attempts give a retry beside another caller's call on the same socket; a report of
two is full with two routes and has to make room. Symmetry is used only in
runs without liveness properties. `MaxChunks`, `MaxAttempts`,
`MaxEvents` and `MaxTime` are the bounds on counters. The code puts no limit on the attempts that an option may ask
for (both loops default to one attempt, and the execute route's raises the option to
at least one); one, two and three attempts have a first, a last and, with three, one in between.
The number of chunks, unbounded in the code, only matters as none, one or several.
Deadlock checking is off everywhere, because every model comes to rest
when its requests, sockets and calls are used up, and the gateway may
be idle.

Fairness: timers fire unless they are cleared (`setTimeout`), and a handler whose
await was answered continues. Nothing is assumed of agents, clients, networks and
runtime servers, which may stay silent or connected for ever; `RemoteExecution`
assumes only the timers of the calling process and that it reads answers which
arrived.

Every property has a mutant, a plausible bug in one definition, that TLC must
find to violate it; the mutated forms stand before the definitions they replace
and are marked as such.

## Proofs

TLAPS proves, for every choice of the constants within the named assumptions:

* `HostCallDispatcher_proofs`: types, `IndexedHostsConnected`, `PendingExact` and
  `SettledOnce`. The conjunction of the first three is inductive;
  the proof splits a step into its routing half and its call half, and the
  lemmas about the two halves are used again for the contour and for remote execution. `SettledOnce`
  needs `timers = pending`: the timer callback does not check whether the call
  is still pending.
* `ExecutionContour_proofs`: types, `RegistryExact`, `AcceptedCancelWins`,
  `HostLossAborts`, `AttemptsExact`, `AbortOnlyEnds`, and `ImplementsStream`, the
  refinement. The inductive invariant is the dispatcher's together with the
  types and the first four properties, which need each other: `HostLossAborts`
  needs the registry to hold every live execution (`cancelByHost` looks there),
  `AcceptedCancelWins` needs it to hold no other, and the refinement needs the
  attempts counted as `AttemptsExact` says.
* `AgentConnection_proofs`: types, `RoutesAreServed` for either kind of storage, and
  `RoutesAreOpen` under `InlineStorage`. The invariant joins the types,
  `RoutesAreServed` and `HandlersOpen`: with inline storage no socket closes under a
  handler that has not attached its close listener, so every handler from the accepted
  hello on has an open socket. `StatusBacked` is proved with inline storage and a store. Its
  invariant, `StatusInv`, says that one task at a time is between its reading and its writing
  of a descriptor (`OneTask`), that what it read is what the cache holds (`CopiesFresh`), and
  how descriptor, sockets and timer of a host fit together at every await, not only between
  two turns (`Backed`): the connections listed are those `setOnline` announced and
  `setOffline` has not taken back, a host with one has no timer, and a host that is
  reconnecting has a timer, a callback under way or a `setOffline` about to start one.
  Without a store a degraded host survives a restart with an external cache
  (`resetStaleHosts` skips it), and the property fails.
* `RemoteExecution_proofs`: types, `AnswerIsOwn`, `NoWorkRepeated` and
  `PollsUntilExhausted`, for any number of callers and attempts and any `retryOn503` options. The invariant adds to
  the dispatcher's, for each attempt, where it may be (`AttemptPlaced`), what of its
  answer is in flight and what has arrived (`AnswerInFlight`) and what its outcome tells
  about it (`OutcomeTells`), and for each caller that attempts are made in order, each
  after a 503 (`LoopOrdered`). `NoWorkRepeated` then follows: a 503 stands for a call that
  was never sent or that the runtime server itself reported as failed, and neither is
  still in its inbox or running.
* `ExecutionObservers_proofs`: types, `SubscriptionsAgree`, `NoEventMissed` and `EndIsSeen`.
  The invariant adds that an observer joined a stream before its end (`JoinedInTime`) and that
  `execution:done` is the last event of an ended stream (`EndedIsDone`); `EndIsSeen` follows
  from these and `NoEventMissed`, because a non-empty rest of a stream ends like the stream.
* `AuthTokens_proofs`: types, `TokensResolve` and `HeldTokensWork` for either kind of storage,
  `RotatedOnce` with inline storage. The invariant says what a handler knows at each
  await (`HandlersKnow`), that index, records and told secrets fit together and belong to
  client ids that are never used again (`RecordsComplete`), that what a handler or a token
  relies on is still recorded and its agent knows the secret (`EntriesResolve`), and whom a token was signed for
  (`TokensSigned`, `RefreshUsed`). `ClaimedOnce` is the one conjunct that needs inline
  storage: nobody reads a refresh token between another request's read and its delete.
  Both outcomes of a restart are in the proof. When the cache survives, a dropped exchange
  still relies on the record of its agent (`Relies`), which gives `HeldTokensWork` for the
  token it consumed; when it is lost, every token held is void and nothing stored is left
  that could refer to a missing record.
* `HostCatalog_proofs`: types, `RegisteredIsListed` with a store and either kind of storage,
  `CacheIsIndexed` and `DeregisteredIsGone` under `InlineStorage`. A request is a suffix of a
  program of storage commands; the invariant says, for every such suffix, that what will
  still be written is preceded by what it needs, and that what is not preceded by it any more
  is true already (`IndexUnderway`, `RemovalUnderway`), so that no position has to be
  listed. Cache and indexes agree on all hosts but the target of the running request.
* `HttpServer_proofs`: types, `AnsweredOnce`, `FailureIsVisible`, `ServedIsFresh` (for the
  caches alone and in the composition) and `TopOperationsSound`. For the caches the invariant
  bounds the age of a view by the number of probes made, each within its timeout
  (`CollectsInTime`), and the expiry of an entry by its age (`EntriesFresh`). For the answers it
  says what was sent at each position of a handler (`ResponseAt`). `TopOperationsSound` is
  a fact about `MergeTopOperations` alone, proved for any statistics and any limit
  (`MergeIsSound`), with cardinalities of the slices.

Assumptions are those named in the modules: `NoSocket` is no socket, `Undefined`
no host or namespace, the bounds are natural numbers, each socket has an
owner; in `RemoteExecution` the requests are the callers' attempts up to a bound of at least
one, which the options do not exceed, and a payload names the caller it was computed for; in `AuthTokens` "no entry" is no
entry; times to live, timeouts and the length of the report are at least one. The theorems
that need inline storage or a store name that in their `ASSUME`;
`RotatedOnce` has it as its own condition. TLC has checked each
inductive invariant on the instance of the component's run.

Only model-checked: the liveness properties (`EveryCallSettles`,
`EveryExecutionEnds`, `LostHostGoesOffline`, `EveryExecuteSettles`), because fairness and
`ENABLED` are out of the prover's reach, and the two findings with a run, which are violations. Every invariant
and every action property that a passing run checks is a theorem.

## Findings

Two runs show disagreements between the code and what its comments or its
README say (see the table above and `PROJECT.json`). Two more are counterexamples of
checked properties outside the assumption they are checked under: with
`InlineStorage = FALSE` TLC finds `LostHostGoesOffline`, checked alone with two sockets,
violated in `MCAgentInline.cfg` (a close during the handshake is missed) and, without its condition
`inlineStorage`, `RotatedOnce` in `MCAuthTokens.cfg` (one token exchanged twice). Others came up while modelling and
have no run: the degraded host that heartbeats do not bring back, the stale capability index after a reconnect, the array
result of several chunks, the `HOST_UNAVAILABLE` case that cannot happen, the
degraded hosts `resetStaleHosts` skips, the buffering nobody uses, the tier
that a refresh resets, the namespace default the transport does not apply, its
default of one attempt where 30 and polling are documented (`AttemptsAllowed` is the code's; `PollsUntilExhausted`
counts by it), the 503
that is chosen by an error's text, the `pluginRoot` that the execute route does not
send and the runtime server demands, the platform stream that is never ended, and the
meaning of `rejected` in a telemetry answer.

## Not modelled, and why

Upstream proxying is done by a library. The Prometheus text, the
process snapshot and the descriptor of the collector are output that nothing reads back.
`AdaptiveBuffer` is always empty, as nothing enqueues. Trace context and
configuration are parsing and constants. Access tokens are stateless. The
translation of chat messages and tools, of OpenAPI documents and of payloads is data.
Message schemas appear as the guards of the actions. Log records are left
out. With an external cache the status and index properties do not hold
(read-modify-write without a lock), and are stated for inline storage only.

## Plan

1. Done: dispatcher, contour with refinement, agent connection, observers,
   tokens, catalogue; proofs of the first three.
2. Done: remote execution from caller to runtime server; the adapter and
   health routes with the collector; proofs about the former.
3. Done: proofs about observers, tokens, catalogue and HTTP server, and `StatusBacked`.
4. Next to be proved: the safety half of going offline (a host without an open socket is
   offline or has a timer or a task under way that takes it there), and that the steps
   `ExecutionObservers` takes for an execution are steps of `ExecutionStream`, as those of
   `ExecutionContour` are.
5. Left for later: the catalogue without a store and with an external cache; a
   composition of the two halves of the close listener.
