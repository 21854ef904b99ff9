# TLA+ models of the Arion proxy

Arion is a proxy in Rust that is configured like Envoy, from a bootstrap file
or over xDS. This directory holds TLA+ models of its parts, those first whose
correctness depends on the order in which threads, tasks and dropped futures
take their steps, the TLC configurations that check them on small instances,
and TLAPS proofs, for every instance, of most of the safety properties that
the runs check. Paths below are
relative to the repository; `lib/` stands for `arion-lib/src/` and `hcm/` for
`lib/listeners/http_connection_manager/`.

Run a model with `tlc -config <X>.cfg <module>` and a proof with
`tlapm <Name>Proofs.tla`. `PROJECT.json` lists every run, the code lines
behind every definition, the hazards and the findings.

## 1. The system

The process runs several *runtimes* (tokio, one thread or several each,
`arion-proxy/src/runtime.rs`) for traffic and one service runtime. The parts
that carry state and interact:

| Part | State | Operations | Interacts with |
|---|---|---|---|
| xDS delta client (`arion-xds/src/xds/client.rs`) | subscriptions, tracked versions, one outstanding batch | subscribe, receive, ACK/NACK, reconnect | hands batches to the configurator and waits for its answer (20 s) |
| xDS configurator (`arion-proxy/src/xds_configurator.rs`) | none of its own; one task, one update at a time | process_update_event, process_remove_event, process_health_event | clusters map, health manager, secret manager; channels to every runtime |
| Cached watch (`lib/clusters/cached_watch.rs`) | value under an RwLock, version, a copy per thread | update, cached_or_latest | holds the clusters map and the internal registry |
| Clusters map, circuit breakers (`lib/clusters/clusters_manager.rs`, `circuit_breaker.rs`) | clusters by name; atomic counters of requests, retries, connections | add, remove, update; try_increment, decrement | every request, retry and dial; permits dropped anywhere |
| Upstream dialling (`lib/transport/tcp_channel.rs`, `connector.rs`) | the connections counter, the drop function of a stream | connect, call, drop | breaker, pools |
| HTTP/1 and HTTP/2 pools (`lib/transport/http1_pool.rs`, `http2_pool.rs`) | idle senders; connections with a stream count | checkout, release, cleanup | hyper's connection tasks, the end of response bodies |
| Health checking (`lib/clusters/health/`) | a counter per endpoint, a task per endpoint, one channel | check, report, stop, restart | the configurator applies reports and restarts the tasks |
| Listeners (`lib/listeners/listeners_manager.rs`, `listener.rs`) | a handle per listener, the tasks, route tables, TLS contexts, the internal registry | added, removed, secret and route changes | two channels from the configurator, two broadcast channels to the tasks |
| Connection limiter (`lib/listeners/rate_limiter/connection_limit.rs`) | a counter per filter chain, process-wide | check, guard drop, reconfigure | connection tasks of all runtimes |
| Token bucket (`lib/listeners/rate_limiter/token_bucket.rs`) | one atomic timestamp | consume | accept loops and HTTP filters |
| Connections (`lib/listeners/listener.rs`, `filterchain.rs`, `tcp_proxy.rs`, `lib/transport/proxy_protocol.rs`) | gauges and log lines of a connection, bytes read, the codec told and spoken | accept, read a PROXY header, choose a filter chain, proxy, end | connection limiter, TLS contexts, HTTP connection manager |
| HTTP connection manager (`lib/listeners/http_connection_manager.rs`, `http_filters.rs`, `route.rs`) | the routing state, one version at a time; recycled transaction contexts; pending flushes | load, filter, route, answer, filter the response, flush | listener tasks replace the routing state; filters; upstream requests |
| Retry and failover (`lib/transport/http_channel.rs`, `lib/clusters/retry_policy.rs`, `http_upstream.rs`) | attempts, timers, the retry permit | send, time out, retry, back off, fail over | circuit breakers, pools, error classes (`event_error.rs`) |
| External processing (`hcm/ext_proc.rs`, `ext_proc/processing.rs`) | frames in flight, parked and being merged; a timer; one gRPC stream | send and answer headers, body, trailers; fail | an external processor; the body of the message |
| Authentication (`hcm/jwt_authn.rs`, `cors.rs`, `oauth2.rs`) | key sets, decoded tokens, the cookies of a browser | fetch, verify, login, callback, refresh, sign out | identity provider |
| Rate limits (`lib/listeners/rate_limiter/global_rate_limiter.rs`, `hcm/user_rate_limiter.rs`) | a quota and buckets per user, shared by the runtimes | check, ask the service, store a grant, clean | rate limit service |
| WebAssembly (`hcm/wasm.rs`, `wasm/hostcalls.rs`, `arion-wasm-sdk`) | a pool of instances, the state of each, shared variables | hooks, host calls, return to the pool | the plugin, external calls |
| MCP gateway (`hcm/mcp_gateway/`) | tools and dynamic servers, sessions, executions, extension subscriptions | bootstrap, refresh, embed, list, call, execute | xDS, MCP servers, REST backends |
| TLS and secrets (`lib/secrets/`) | secrets by name, contexts built from them, ticket keys | add, update, rebuild in every runtime | listeners, clusters |
| Clusters and balancers (`lib/clusters/load_assignment.rs`, `cluster/`, `balancers/`) | endpoints with health and secret version, balancers | update, health, pick | configurator, requests |
| Tracing, access log, metrics (`arion-tracing`, `lib/access_log.rs`, `arion-format`, `arion-metrics`) | trace contexts, log lines and queues, sharded cells | extract, sample, log, reconfigure, add, reset | every request |
| Configuration (`arion-configuration`) | none | convert a message, field by field | bootstrap, xDS client |
| Start-up (`arion-proxy/src/proxy.rs`) | runtimes, a barrier, channels | start services, register clusters, give listeners | all |

What is hard in it, and what makes each part correct:

* *Two atomics, no lock.* Counters are incremented before or after the
  comparison with a limit, by threads that see different copies of the
  configuration. Correct: counters equal what is held; limits hold, or are
  overshot by a known amount.
* *Dropped futures.* A request can be cancelled at every `.await` (timeouts,
  a client that leaves). Correct: whatever was taken before the `.await` is
  given back exactly once.
* *Several channels between two tasks.* Listener changes, route changes and
  health reports have no common order. Correct: what is acknowledged is
  applied, and the last change wins.
* *Bounded channels and lossy signals.* Reports wait for a place, broadcast
  receivers lag, `notify_waiters` reaches only those that wait. Correct:
  nothing needed is lost and nobody waits for ever.
* *State kept across requests.* Plugin instances, transaction contexts,
  decoded tokens, quotas and cookies outlive the request they were made for.
  Correct: nothing of a request reaches another, and a grant is spent once.
* *Answers from elsewhere.* The management server, the external processor,
  the rate limit service and the MCP servers answer late, wrongly or not at
  all. Correct: what is declared is in force, bodies stay whole, and every
  message is decided on.

`PROJECT.json` lists these hazards one by one, at the line where each bites,
with the properties that would catch it.

## 2. The modules

Each component module declares its parameters as CONSTANTS with a named
ASSUME, has one action per atomic step of the code, and states its properties
at its end. An `MC*.tla` module puts components together for TLC, and
`*Proofs.tla` holds the theorems. Definitions marked "Mutant" are faulty
variants of the definition that follows; replacing it by the variant makes TLC
find a violation, which shows that the property depends on that line of the
code.

### What threads share

**CachedWatch** (`lib/clusters/cached_watch.rs`). `update` is three actions:
`WriteValue` (under the write lock), `BumpVersion`, `ReleaseWriteLock`.
`CachedOrLatest` is the reader: compare versions, try the lock (`TryRead`
fails while a writer has it), copy value and version. `value`, `version`,
`phase` are the shared state, `local` and `seen` the copy of each thread.

**CircuitBreakers** extends CachedWatch with its value a clusters map: for
each cluster no entry, an entry without breaker, or thresholds and the
*generation* of its counters (the update that allocated them; `Arc` identity
in the code). `AddCluster` keeps the generation of the entry it replaces, as
`with_counters` does. `TryIncrement` is one `fetch_add` with the comparison,
`UndoIncrement` the `fetch_sub` of a denied attempt, `AcquireConnection` the
rest of `acquire_http_upstream`, `DropPermit` the drop of a `RequestPermit`
or `RetryCircuitBreakerPermit` on any thread. Counters are words modulo
`Word`. Clusters in `Churned` may be removed or lose their breaker.

**UpstreamConnections** follows a dial through `try_increment_connections`,
the connect, TLS or proxy header, and the drop function of the stream, for
the two paths that do it differently: `TcpDials` (`tcp_channel.rs`) and
`HttpDials` (`connector.rs`). `DropDial` is a dropped future.

**ConnectionLimit**: `LoadActive` and `FetchAdd` are the two atomic halves of
`check`, bound to a thread; `Reconfigure` is the filter chain built anew with
another limit and the same counter.

**TokenBucket**: `Consume` reads the clock, `Load` the timestamp, then
`Grant`, `Deny` or `Retry` per turn of the compare-exchange loop (`Retry`
also when the weak exchange fails spuriously). `from` and `granted` observe
one arbitrary window.

**RateLimits**: the quota of the rate limit service, with its lock, the call
and the two stores of a grant as steps of their own, and the buckets per user
with their insertion and cleaner. The buckets themselves are TokenBucket's.

### What runs behind the requests

**Http2Pool**, **Http1Pool** model one pool of one thread: `CheckoutPooled`
or `PopIdle`, dialling (an `.await`, so other requests run in between), the
response head, the ways a body ends (`OnEndBody`), dropped futures, and the
cleanup task. hyper is external: a connection may close at any time, and an
HTTP/1 connection has one exchange at a time on its wire (`wire`), which is
what `is_ready` tells.

**HealthChecks** holds `HealthStatusCounter` as operators, and the status
defined over whole histories of results that it is compared with, and uses
the counter in the tasks: jitter, check, report (waits for a
place in the channel), interval. `StopCluster`, `NotifyWaiters`, `Joined` and
`StartCheckers` are the configurator inside `restart_cluster` and
`stop_cluster`; meanwhile it applies no report. `ReplaceCluster` stands for
cluster and endpoint updates (statuses as configured), `RotateSecret` for a
secret change (statuses kept), `RemoveCluster` for removals.

**Transactions**: contexts recycled through a pool, the callbacks at the end
of the two bodies, the copies of a request body that retries and failover
hold, and the flush that is queued on the connection and run when it is polled.

### Control plane and other processes

**XdsClient** has the delta client and the configurator's loop: `ServerSend`,
`Work` (the worker's `select!`), `Configure`; a batch is handed over, applied
update by update, and answered or given up after `ACK_TIMEOUT`.
**XdsTracking** is its abstract specification: `Change`, `Declare`, `Forget`.
XdsClient instantiates it with `tracked` for `declared`.

**Startup**: the main thread, the services, the configuration task, and the
proxy runtimes with their bounded channels (`arion-proxy/src/proxy.rs`).

**Listeners**: the configurator's `Push*` actions (one update at a time; a
route change waits for its `Notify` or its timeout), the manager of every
runtime (`Take*`, in any order between its two channels), and the tasks
(`Start`, `ApplyRoute`, `ApplySecret`, `Lagged`, `Dropped` ...). Every
`Added` is a new *generation* of the one listener that is modelled, with a
configuration that says whether it refers to the route, whether it is
internal (registered by name instead of bound to a socket) and whether it can
be built. A task that is aborted may take more steps until it is dropped.

**Clusters**: what updates of clusters, load assignments, health and secrets
leave in the map, and the endpoint a request is given; its second part has the
balancers (`lib/clusters/balancers/`) on small sets of endpoints.

**TlsSecrets**: secrets by name, the contexts built from them and their ticket
keys, the change applied to the map first and read by each runtime later.

**ConfigMessages**, **ConfigHttp**, **ConfigConversion**: for every message
the checks its `TryFrom` makes, in order; the conversion walks them and what a
field holds is chosen when its check is made.

### A request on its way

**Connections**: a downstream connection from accept to its end, with its
gauges, log lines and bytes; the connection limit is compared
(`ApplyConnectionLimit`) and counted (`TakeConnectionGuard`) in two steps, as
`check` does, and the bound on its overshoot is ConnectionLimit's; the reading
of a PROXY header; the choice of a filter chain by the tree against a scan of
all chains.

**HttpPipeline**: one request through the filters of the routing state it
loaded, while the listener replaces the state; its second part has the
routing decisions (virtual host, rewrite, client address).

**ExternalProcessing**: one message through the filter, its worker, the frame
bridge and the gRPC stream.

**UpstreamRequests**: the retry loop and the failover of one request; its
second part has the classes of errors (`lib/event_error.rs`). The iterator of
back-offs is a library's, taken to yield `num_retries + 1` items.

**Tracing**: the trace context in and out, in four formats.

**HttpAuthFilters**: the JWT filter with its key fetcher and cache, CORS, and
the OAuth2 filter over the cookies of one browser.

**WasmFilter**, **WasmHostCalls**: the filter over pooled instances, with
handles that are the message's as long as it is there; the host calls as the
SDK makes them, and the shared variables.

**McpRegistry**, **McpGateway**: the tools with bootstrap, refresh and
embedding, the catalogue, the extension subscriptions; sessions and calls, and
code mode executions.

**AccessLog**, **MetricsShards**: format, lines, queues and sinks; sharded
counters with their caches and resets.

## 3. What the runs check

Seven runs pass. Each of them puts components side by side that have no state
in common: a behaviour chooses one of them (`part`) and moves only that one,
the others stay in their initial states. The states are the union of those of
the components, not their product, so each component is checked as if alone;
the fairness of a component is stated for the behaviours that move it.

| Run | Distinct states | What it shows |
|---|---|---|
| shared_counters | 2,253,238 | copies of the map are never torn and never go back; breaker, limiter and connection counters are exact up to what is named below; no race exceeds a limit by more than is stated; the rate is bounded in every window |
| pools_and_health | 107,205 | streams and exchanges are kept apart, busy connections stay and idle ones leave; reported changes reach the map, which agrees with the checkers; the counters implement the thresholds as defined over the whole history; transactions are flushed once |
| external_services | 560,064 | XdsClient implements XdsTracking and converges to the server's configuration; the external processing filter decides on every message, unless the processor cannot be connected to or a buffered body was sent ahead of the answer to the headers; the runtimes start in order |
| requests | 2,657,516 | no orphan tasks, no missed route change or secret; one routing state per request and its filters in reverse order on the way back; frames in order and whole; retries as the policy asks; decisions as their reference definitions have them |
| traffic_path | 2,858,096 | a message is accepted exactly when all it says is honoured or known to be dropped; connections are accounted on every exit; tickets and certificates survive secret changes; unhealthy endpoints are not served; balancers reach every healthy endpoint |
| mcp_gateway | 2,794,814 | one refresh at a time, one filter per name, calls served by the entry that was checked, bounded sessions, complete records; pages and searches show all that is permitted and nothing else |
| filters | 1,897,786 | nothing that a plugin instance keeps leaks to another transaction; quotas, admissions and logins hold; log lines are complete and in order, metrics are what happened |

Five runs end in a violation, each a disagreement between the code and what
the repository says of it (details and quotes under "findings" in
`PROJECT.json`):

| Run | Scenario |
|---|---|
| circuit_breakers_underflow | a cluster is removed and added again; a request that a thread with an older copy of the map admitted gives its slot back to the fresh counter, which wraps, while the old one keeps the charge |
| health_checks_stop | the stop signal comes while the task is not waiting for it; the configurator joins it for ever |
| listeners_lost_route | a listener is sent and then its route; the manager takes the route first, drops it for want of a subscriber and notifies; the change is accepted and the listener runs without the route |
| external_processing_fail_open | the timer fires while frames are in the merge buffer; with `failure_mode_allow` the message goes on without them |
| metrics_stale_cell | a cached pointer to a cell that a reset has cleared passes the epoch check before the epoch is bumped |

### Deviations that the passing properties account for

Where the code departs from the plain form of a property, the model keeps the
departure and the property names it, so that the run shows that there is no
other one:

* A dial whose future is dropped before its socket is connected keeps its
  connection slot (`lib/transport/connector.rs`, `UnifiedConnector::call`):
  `lost` in `SlotsAccounted`.
* A TCP dial whose TLS handshake or proxy header fails gives its slot back
  twice, by the stream's drop function and by the error path
  (`lib/transport/tcp_channel.rs`): `returnedTwice` in `SlotsAccounted` and
  `LiveWithinLimit`.
* An HTTP/2 `send` that is dropped before its response keeps its stream
  counted, and the cleanup task then keeps the connection
  (`lib/transport/http2_pool.rs`): `abandoned` in `StreamsAccounted` and
  `IdleReaped`.
* `docs/connection-limiter.md` says that "the cap is enforced exactly at the
  process level"; `check` loads, compares and then adds, and the cap can be
  exceeded by one connection per other thread. `OvershootBounded` is that
  bound.
* A listener task whose broadcast receiver lags (more than 16 changes behind)
  ends, and nothing starts it again (`Lagged`); `RoutesAreComplete` and
  `SecretIsCurrent` speak of tasks that serve.
* The scope guard of an internal listener unregisters by name, so the old
  task of a replaced listener can unregister its replacement (`End`);
  `NoDeadRegistration` is what remains true.
* MCP sessions are counted and inserted in two steps (`mcp_gateway/mcp.rs`);
  `SessionOverrun` bounds the excess by the requests that race.
* A buffered body sent ahead of the answer to the headers loses its timer to
  that answer (`ext_proc/processing.rs:638`), and a worker that cannot connect
  to the processor makes a status and does not send it (`ext_proc.rs:1845`):
  in both cases the filter waits for ever. `AlwaysDecided` excepts them
  (`Abandoned`) and shows that there is no third.
* An immediate response to a response takes the parked trailers of the request
  (`ext_proc.rs:1223`, `ParkedByRequest`). The message is replaced, so nobody
  sees them; `BodyIntact` is stated while nothing has failed.
* `on_transaction_complete` runs in a task of its own before `reset_ephemeral`
  (`wasm.rs:753`), with the addresses of a message and a context that are
  gone. The comment at `wasm/hostcalls.rs:56` has them "valid while the filter
  runs"; `set_request` and `set_response` look no further than whether they
  are set. `PointsTo` lets such a write hit nothing of the model or the
  message of another transaction, and `NothingLeaks` says that messages are
  written by their own transaction only of plugins without that hook. Reads
  through the handles are not followed.
* Shares of priorities are rounded separately, and the repository's test has
  them add up to 101 (`balancers/priority.rs:127`); `BalancersKeepPromises`
  allows an error of one for each priority.
* The two stores of a new quota are not one (`global_rate_limiter.rs:144`): in
  between, what is left of the old quota is used under the new time.
  `QuotasKept` counts over all grants, where this makes no difference.
* A new xDS stream does not ask for extension types again (`client.rs`), a
  rejected change may stay in force undeclared, and a load assignment goes
  with its cluster; `Converges` excepts these.
* A request body kept for a replay can lose its callback
  (`body/instrumented_body.rs`); `ForwardedIsFlushed` is stated without replay.
* A TCP connection whose cluster does not resolve has no line of its filter
  chain (`tcp_proxy.rs:122`); `LoggedOnce` asks for at most one.
* One conversion turns an error into an absent value
  (`http_connection_manager/route.rs:1009`); `VerdictIsRight` excepts it.

### Statements that the models refute without a run

These definitions state what a doc or comment says and do not hold in the
models: `CallbackRuns` in Transactions (`lib/body/instrumented_body.rs:41-42`),
`ToolsOfTheirServer` (`docs/mcp/mcp-gateway.md:689`),
`EmbeddingsNotForgotten` (`mcp_gateway/tools.rs:269-271`) and
`RegistrationsKept` (`xds_handler.rs:74-76`) in McpRegistry, `NewestKept` in
AccessLog (`docs/access-log.md:80`), `ConfigGuarantee` in ConfigConversion
(`arion-configuration/src/config/README.md:7`), `TimeoutHonoured` and
`OneVariablePerName` in WasmHostCalls (`arion-wasm-sdk/src/host.rs:148-149`,
`arion-wasm-sdk/README.md:514`) and `SessionUsable` in HttpAuthFilters
(`docs/oauth2.md`). They are kept beside the properties that do hold.

### Bounds

Every bound is a CONSTANT named in its module (`MaxVersion`, `MaxFaults`,
`MaxAbandoned`, `MaxRestarts`, `MaxGenerations` ...). They are chosen so that
the interesting case happens at least twice or with one actor to spare: limits
of one and two with three or more contenders; two threads with copies of
different age and a third version; two connections so that one can expire or
close while the other is used; channel sizes of one or two so that they are
full; thresholds of one and two, with histories of up to seven results that
cross each several times in both directions. `Word` is larger than the number
of permits, so that a wrap around is seen as a value no permits explain. The
broadcast channel has one place for 16 in the code, so that two changes make a
slow task lag. Priorities only index the counters; the run has one, the proof
any number. A body has two frames and the merge buffer room for two; two
logins, two plugin instances for two transactions and a pool of one; three
tools with pages of two; two MCP requests at a limit of one session; a policy
of two retries over three channels with a route timeout of two units. Lifetimes
(keys, tokens, cookies) differ by one from each other, so that each expires
before and after the next. Symmetry is used where the values are not told
apart; the parts of a run share those values.

### Fairness

* CachedWatch: an update runs to its end, and every thread keeps calling
  `cached_or_latest` (it serves requests).
* Http1Pool, Http2Pool: time passes and the cleanup task, a loop with a sleep
  of one second, runs. Nothing is assumed of requests or peers.
* HealthChecks: runnable tasks are run; checks and intervals end, both being
  under a timeout; `select!` picks among its ready branches at random, hence
  both are served. `SendReport` has strong fairness: permits of a full tokio
  channel are handed out first come, first served.
* Transactions: bodies are dropped in the end (their tasks end or are
  aborted), a request is answered, and a connection with a flush pending is
  woken and polled.
* XdsClient: the server sends what it has, the worker serves its `select!` and
  reconnects, the configurator runs.
* ExternalProcessing: a body is read to its end and an armed timer fires.
  Nothing is assumed of the processor.
* Listeners (the violation run only): runnable tasks are run and `select!`
  serves both channels (strong fairness of `TakeRoute`, which the other
  channel may interrupt).

Deadlock is checked in shared_counters. In the other runs the bounded number
of updates, requests or time lets the model stop, as the system does when
nothing more comes.

Atomics are taken as sequentially consistent. Each of them is a single
location updated with read-modify-write operations; the version of the
cached watch is read again under the lock before it is stored.

## 4. What is proved

All theorems hold for every value of the constants that satisfies the
module's ASSUME: any number of threads, requests, connections, updates and
faults, and any limit, threshold and capacity. They are about the
specification of a component; in a run the other components stay in their
initial states, so the run and the theorem speak of the same behaviours.
McpGatewayProofs is about the specification of its run itself.

Every proof has the same shape. An inductive invariant is shown to hold
initially, one lemma per action or group of actions shows that a step keeps
it, and the property follows from it. What the invariants add to the
properties, and why it is needed:

* **SharedCountersProofs**.
  *CachedWatch* (`WatchCopiesCoherent`, `WatchMonotone`): no copy is newer
  than the shared version, and between the bump and the release of the lock
  every copy is strictly older, because nobody can have read under the new
  version.
  *CircuitBreakers* (`BreakerExact`, `BreakerAdmission`): replacements keep
  the counters of a stable cluster, so all copies of the map, however stale,
  agree on them (`KeepsOrigin`), and the decrement of a permit meets the
  counter its increment charged. The proof counts the permits of each counter
  and needs more values in a word than permits, so that adding one never
  wraps.
  *ConnectionLimit* (`LimitExact`, `LimitOvershoot`): the bound on the
  overshoot needs that a thread is inside `check` for one connection at a
  time (`OnePerThread`): between load and add there is no `.await`.
  *TokenBucket* (`BucketRate`, `BucketMonotone`): the rate follows from
  `Paid`: the timestamp has moved from one bucket before the window by at
  least one token's time per grant in it, and it is never ahead of the clock.
  *UpstreamConnections* (`DialSlotsAccounted`): the counter is `Balance`, the
  slots held and lost less those returned twice, modulo the word; the
  threshold holds while nothing was returned twice.
* **PoolsAndHealthProofs**.
  *Http1Pool* (`Http1ExchangesKept`): a request has a connection exactly in
  the stages that use one, idle senders are nobody's, and a sender has one
  holder; without it "nobody else is on the wire" is not kept by a release.
  *Http2Pool* (`PoolStreamsKept`, `PoolBusyConnectionsStay`): a request has a
  stream exactly in the stages between checkout and the end of its body.
  *HealthChecks* (`ChecksMapAgrees`): the last change of an endpoint in the
  channel says what its counter says, and when there is none the map does
  (`ChangesInOrder`); nothing is claimed while checkers are being stopped,
  because the map may be reset before they are gone.
  *The counter* (`StatusIsHistorys`): its two streaks are the lengths of the
  runs of equal results at the end of the history, by induction on the
  history, which is a recursive function of the results.
* **ExternalServicesProofs**.
  *XdsClient implements XdsTracking* (`XdsDeclaresWhatIsInForce`): batches are
  numbered in the order they are handed over; of the batch the worker waits
  for every update is still to do, in force or rejected (`BatchUnderWay`); an
  outcome is known only when nothing is left to do (`OutcomeHolds`). This is
  what rules out that an outcome of a batch given up after `ACK_TIMEOUT` is
  taken for that of the next. With it every step of the client maps to a step
  of XdsTracking or a stutter.
  *Startup* (`StartupStartsInOrder`): the order of the configuration task's
  steps, and that every runtime was given the listeners sent so far or one
  more.
  *ExternalProcessing* (`BodyStaysIntact`): of a message nobody touched, while
  the bridge is open, the chunks that came out, those in flight, those being
  merged and those still to be read are, in this order, the chunks of the body
  (`InPieces`); the body has trailers exactly when they are still to be read,
  being merged, parked or in flight, and then nothing is unread behind them; the
  answers that are owed are those of the headers and of the frames in flight
  (`Pending`); and all has been read, or nothing is in flight of a body the
  processor is not shown (`Progress`). The last part is why the bridge is not
  closed early: a last answer that finds the end of the stream set finds
  nothing unread. Every operator of the bridge and the worker has a lemma that
  says which fields it changes, and merging, flushing and the end of the body
  one that says the chunks are kept.
* **HttpManagerProofs**.
  *Transactions* (`TransactionsStayApart`): which handles and copies exist in
  each stage, how many callbacks the context has counted and which came
  first, and that a queued flush has its context, both bodies and no twin.
  *UpstreamRequests* (`RetriesAsAskedFor`): the loop's counters are the
  lengths and cardinalities of the attempts so far, channels are taken in
  order.
  *Listeners* (`ListenersInStep`): generations on their way have no task yet;
  a task has applied what was broadcast up to where it reads; the newest
  secret is the last one on its way to the manager or what its listener has or
  is about to take.
  *HttpPipeline* (`PipelineOneState`): positions of the filters met rise, of
  those that saw the response fall, and together they are those that let the
  request pass (`Met`); all routes come from the snapshot (`OneTable`).
* **FilterProofs**.
  *RateLimits* (`LimitsNotExceeded`): what was granted covers what was
  admitted, what is left and what tasks have been granted and not stored yet
  (`Owed`, a set with one element per request that a pending grant is good
  for, so that its cardinality adds up).
  *HttpAuthFilters* (`AdmittedWereAuthenticated`): cached tokens were good
  when they were decoded and are not older than the cache keeps them; a login
  under way has its own cookies as it got them (`FlowsHaveCookies`), and what
  a signature covers is of one login (`SignsOneLogin`).
  *WasmFilter* (`InstancesDoNotLeak`): an instance in no transaction's hands
  is as fresh as a new one, whichever way it was left, and instances have one
  holder; without an `on_transaction_complete` no transaction is in the stage
  in which its handles outlive its message.
  *WasmHostCalls* (`SdkKeeps`, `CountsAreKept`): a batch of header mutations
  is compared with the single calls mutation by mutation, by induction on how
  many have been made; an exchange succeeds only on the value that was read,
  so each success is one increment more. With the former these are
  `PluginsKept` (`PluginsAreKept`).
  *MetricsShards* (`GaugesAccounted`): a pointer that was found under the
  epoch of now, whether a cache or an operation under way has it, is the cell
  in the map unless a reset is between emptying the map and moving the epoch;
  no two shards have one cell. That gives each shard its own updates, and a
  gauge is then the transactions plus the subtractions under way; the
  saturating subtraction never saturates before a reset. The cumulative counts
  (`RanksCounted`): the bucket an observation is counted in is the first whose
  bound is not below it, and by induction over the buckets the observations
  counted up to one are those at most its bound.
  *AccessLog* (`LinesStayInOrder`, `LinesComplete`, `LogKept`): a thread's
  lines are all with one logger, in order in its batch, then in its channel,
  and later than what any sink has of that thread, although the loggers share
  stdout; a line that is neither there nor written was counted as dropped.
  The tokens of a format that have been read are those of the parts made of
  them and the literal under way, by induction over the format; an operator is
  filled by the first context that has a value for it and by no later one.
  With the metrics these are `ObservationsKept` (`ObservedIsWhatHappened`).
* **TrafficPathProofs**.
  *TlsSecrets* (`RotationServed`): for every context, in force or still in a
  runtime's channel, and every secret it holds, the last change that it has
  yet to read brings the manager's version, and when there is none it has that
  version (`Reaches`); a version that does not build is exempt, because an
  update that fails ends before the listeners are told. That changes which
  come before the listener itself do not matter, and that a channel holds it
  once, is part of it. The choice of a certificate is proved for all names of
  labels (`ResolvedCovers`).
  *Connections* (`ConnectionsStayAccounted`): a gauge (the counter of the
  connection limit among them, which may exceed the limit as in
  ConnectionLimit) is the cardinality of the connections that count in it,
  stage by stage (`CountsIn`), and what a
  scope guard takes back is what its connection counted; the transactions of a
  connection have taken the bytes up to `txnStart`. It is the accounting part
  of `ConnectionsKept`.
  *Clusters* (`ReportedHealthIsServed`): the items of a priority are the
  endpoints of the configuration at that priority, flattened in order, and
  their count of healthy ones is kept under each report by induction over the
  balancers that have the address; after an update or a new secret the health
  that is carried over is the one reported last (`told`), for addresses that
  occur once. Addresses that occur twice keep the count and no more.
* **Induction** states the two principles that the proofs over data share:
  induction on the natural numbers for a set, and that a function defined by
  recursion up to a bound has the value its definition says. Both are proved
  from the library's theorems for the induction over a well-founded order.
* **McpGatewayProofs** (`GatewayTasksKeepState`): the flag of a dynamic server
  is set exactly while a request other than the bootstrapping one works for
  it, and until the bootstrap is over nobody else goes on; a name is claimed
  exactly while one filter lives; the sessions and the requests about to
  insert one together stay within the bound; an execution makes no host call
  that it does not charge, and has no live call and no record left when it
  reports.

`PROJECT.json` gives the lines behind a definition. A helper whose code lies
inside the lines of the definition that uses it is not listed a second time.

The assumptions are those of the code: a limit or a size is a natural number
and positive where the code divides by it or has a minimum of one, sets of
requests are finite, a word has room for the permits, model values that stand
for "none" are not members of the sets they stand outside of, DNS names have
at least one label, and decoded tokens are kept for at least one unit of time
(`jwt_authn.rs:163`), a host call returns at most a natural number of bytes,
and the operators of a format are finitely many.

Some definitions are written with the proofs in mind. The cleanup of the pools
says that what is kept is kept in its order by way of a bijection between
positions; the updates of a listener's task are one record; the response's way
through the filters is compared position by position; the protocol that is
negotiated is the one at the least position among ours that the client offers.
Where the code's early returns overlap, the model has IF ... ELSE IF: a CASE
whose guards overlap does not say which branch is taken. What is computed over
a sequence is a recursive function of the position where the proof is an
induction: the batch of header mutations, the health of an endpoint through
the balancers, the cumulative counts, the parsing of a format. A collected body
is one frame with the chunks of all of them, without a selection. The bounds of a
histogram are any sorting of those configured, and the bitwise host calls are
the sets of bit positions they combine. None of these changes the transitions.

### What is only model-checked, and why

* All liveness: `EventuallyFresh`, `IdleReaped`, `IdleLeaves`,
  `ChangeReachesMap`, `ForwardedIsFlushed`, `Converges`, `AlwaysDecided`, and
  the two temporal violations. Fairness and ENABLED are out of the proof
  system's reach.
* `VerdictIsRight`: a verdict is compared with the nesting of messages, whose
  depth the proof would need an induction over trees for.
* `DecisionsKept`, `McpAnswersWhole` and `BalancersKeepPromises` compare pure
  operators with reference definitions that sort, search and sum; smooth
  round robin needs an argument about a whole turn of the weights.
* Of `ConnectionsKept` the tree of filter chains, which is compared with a
  scan of all chains, and the PROXY header.

## 5. What is not modelled

RBAC, Cedar policies and direct responses are decisions over one request
without state; where they stand in the pipeline is modelled. The admin
interface reads the configuration. The sandbox embeds an interpreter. The
Envoy protobuf crate is generated. The interner and the header crate are data
structures without a protocol. Left out of the parts that are modelled: name
resolution, the copying of bytes of a tunnel, what a protocol checker sends,
the text of headers and log operators, JSON schema conversion, exporters of
traces and metrics, and cryptography, which is abstracted to what it covers.
See "components" in `PROJECT.json`.

## 6. What comes next

1. The part of `ConnectionsKept` that says a PROXY header is taken off and
   nothing else.
2. The shares of the priorities and the reach of ring hash and Maglev in
   `BalancersKeepPromises`, which need no fairness of a turn.
