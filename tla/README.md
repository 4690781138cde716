# Galaxy Router in TLA+

Galaxy Router is a gateway between clients and the HTTP APIs of several model
providers ("channels"). A client sends a request in one of three protocols; the
router picks candidate channels, translates the request, tries the channels and
their API keys in turn, translates the answer back (a stream event by event) and
books what it cost. One process on the tokio runtime serves all requests; SQLite
keeps configuration and usage, everything else is in memory.

These modules model the state that requests share, the loops each runs over that
state, what is left behind when a request is answered, refused, dropped or panics,
the caches between SQLite and the requests, and what becomes of messages, streams
and errors between two protocols. All paths below are relative to
`src/src/`.

- [The system](#the-system)
- [The modules](#the-modules)
- [The runs](#the-runs)
- [The proofs](#the-proofs)
- [Where code and comments disagree](#where-code-and-comments-disagree)
- [What is left out](#what-is-left-out)
- [Plan](#plan)

## The system

### Components

| Component | State it keeps | Operations | What makes it correct | Modules |
|---|---|---|---|---|
| API key cache and authentication, `api/middleware/mod.rs` | per key: row and age | `get`, `set`, `invalidate`, the query between them | a revoked key stops working within an entry's lifetime; a full cache gives up expired entries only | `KeyCache`, `KeyCacheProofs` |
| Rate limiter, `llm/relay/ratelimit.rs`; budgets, `llm/relay/pipeline/` | per key: window start, requests, tokens; the rows of `usage_logs` | `check_rpm`, `check_tpm`, `record_tokens`, `cleanup`, `check_budget` | windows do not overlap, refused requests do not extend one; limits are passed only by what was under way | `Gate` |
| Request queue, `llm/relay/queue.rs` | permits of a semaphore | `acquire` with a timeout, the permit's drop | no permit is lost or doubled | `Relay`, `RelayProofs` |
| Candidates and scoring, `llm/relay/candidates.rs`, `llm/scheduler/{scoring,runtime}.rs` | per channel: averages of errors, latency, first token, health | build, score, order; the averages after each answer and probe | each channel once, the sticky one first if it can be used, then by priority; none before one that is better in all | `Ranking`, `Selection`, `SelectionProofs` |
| Sticky sessions, `llm/scheduler/sticky.rs` | session: channel, time | `get`, `set`, clean-up, limit | a session keeps its channel while it lives | `Ranking`, `Selection`, `SelectionProofs` |
| Candidate loop, `llm/relay/run.rs`; key loops, `executor/`, `stream_key_loop.rs` | the request's own | try channels and keys in turn, back off once after 503s | ends; one record; permits come back on every path; client and log are told of one failure | `Relay`, `RelayProofs`, `Outcome`, `ErrorPath` |
| Stream task, `stream_executor.rs`, `stream_error.rs` | the request's own, after its handler has returned | read to the end, record, decrement | one record, also after a panic | `Relay`, `RelayProofs` |
| Stream event loop, `stream_loop.rs`, `protocol/sse/` | bytes not yet consumed, what was collected for the log | frame, decode, convert, send | nothing depends on how bytes were cut; one end, one error; whole calls in the log | `SseFraming`, `StreamText`, `StreamDecode`, `StreamLoop` |
| Stream conversion, `protocol/{inbound,outbound}/` | open blocks and items, started calls | events of one protocol from those of another | what a client of a protocol may rely on | `AnthropicConverter`, `ResponsesConverter`, `StreamLoop`, `ClientStream` |
| Conversion of requests and plain answers, `protocol/`, `llm/relay/converter.rs` | none | between three protocols | a conversation survives the round trip | `Dialogue`, `Conversation`, `Transcript` |
| Error classes, `error/proxy.rs` | none | `classify`, `from_relay_outcome` | the client's status and the log's agree | `Outcome`, `ErrorPath`, `ServicesProofs` |
| Circuit breaker, `llm/scheduler/circuit.rs` | per (channel, key): state, failures, last failure, trips | `is_tripped`, `record_*`, `reset_channel`, clean-up | a failing key rests, longer each time, and is tried again | `BreakerOps`, `CircuitBreaker`, `CircuitBreakerProofs` |
| Channel capacity, `llm/scheduler/capacity.rs` | per channel: permits alive | `try_acquire`, the permit's drop | never above the limit, never stuck | `Relay`, `RelayProofs` |
| Channel health, `llm/scheduler/state/` | per channel: failures, blacklist, active requests | `record_*`, counters, clean-up | only server errors blacklist; a blacklist has a reason and ends | `HealthOps`, `Relay` |
| Usage recording, `service/stats/`, `repository/usage_repository/` | rows and recorded texts | save in three queries, delete by age | the budgets see their period; texts never outlive their row | `Relay`, `UsageLog` |
| Scheduler tasks, `llm/relay/scheduler_task.rs` | none | probes, clean-ups, retention | must not undo what requests rely on | actions of the modules whose state they change |
| Proxy cache and routing, `infra/cache.rs`, `service/routing/` | channels, routes, model index | load through, invalidate | what is stale has a known cause | `ProxyCache` |
| Channel, route and backup services | SQLite | create, update, delete, import, reset | each change invalidates what it touches | `ProxyCache`, `KeyCache`, `PluginSwitches` |
| Plugin chain, thinking filter, `llm/plugin/` | switches; letters held back over chunks | `refresh`, filter | the switches are those last saved; no text is lost or cut wrong | `PluginSwitches`, `ThinkFilter`, `FilteredText`, `ServicesProofs` |
| Pricing, `service/pricing/` | table, memory, file | fetch, load, change | memory follows the table | `Pricing` |
| Statistics, discovery, login, channel probe, update check, front end | SQLite | queries and single calls | - | - |

### How they interact

```
 client -> auth middleware -> handle_proxy_request -> proxy_request / proxy_stream
            (API key cache)    check_rpm, check_tpm     queue.acquire
                               check_budget             build_relay_candidates
                                                              |
              +-----------------------------------------------+
              v
   candidate loop --- is_channel_available ---> channel health <--- health probes
        |         --- try_acquire ------------> capacity slots
        v
   key loop --------- is_tripped, record_* ---> circuit breakers <- clean-up task
        |
        v
   one key: increment_active, prepare, send, read, convert, decrement_active
        |                                |
        | plain: save_request_record     | stream: spawned task reads the upstream,
        v                                v         the body feeds the client
   usage_logs, record_tokens        record_stream_completion, record_tokens
```

Every box that is not a loop is shared by all requests and guarded by a lock of its
own (a tokio `RwLock`, a `std::sync::Mutex`, an atomic). Only the proxy cache holds
two of them at once, its channels and then its model index, always in this order. So
what the code promises has to survive any interleaving of whole operations, and of
the two halves of those that let a lock go in the middle.

### What is hard about it

- **Interleaving.** `is_tripped` reads under one lock and writes under another;
  a limit is checked before a request and booked after it; the health of a channel
  is asked for before an attempt and has changed when it ends.
- **Permits that travel.** A stream's queue permit goes from the handler into the
  first attempt and from there into a spawned task; its capacity slot goes into the
  response body. Each can be dropped at every `.await` by a client that leaves.
- **Cleaning up on the wrong path.** Early returns through `?`, panics in a handler
  or in a task, guards that exist on one path and not on the other.
- **Nested loops.** Channels, keys, a second pass after a back-off.
- **Time.** Cooldowns that restart and double, windows that reset lazily, a
  blacklist that ends by itself or is lifted, clean-up tasks that race with all of it.
- **Caches that never expire.** A load that began before a change can fill the cache
  after the change has cleared it, and a change can end between its commit and its
  invalidation. The copies of plugin switches and of prices have the same trouble.
- **Protocols that do not fit.** Three protocols describe the same conversation with
  different shapes; stateful converters open, number and close the blocks of one
  around the deltas of another, over bytes that arrive in any pieces, to a client that
  may leave at any event.
- **Failures that are told twice.** An error is classified, logged, fed back to the
  scheduler, wrapped, and turned into a status for the client, by two
  implementations, one for plain requests and one for streams.

The hazards, each at its line with the properties that watch it, are listed in
`PROJECT.json`.

## The modules

| Module | What it is |
|---|---|
| `BreakerOps` | what an operation of the circuit breaker does to one entry: pure operators |
| `CircuitBreaker`, `CircuitBreakerProofs` | the breaker map under concurrent requests, with its clean-up and time; theorems |
| `HealthOps` | what an operation does to the status of one channel: pure operators |
| `Relay`, `RelayProofs` | the request path from the queue to the record, composed with `BreakerOps` and `HealthOps`; theorems |
| `Outcome`, `ErrorPath` | what a request leaves, and what client and log are told of it; the same loops seen from the errors: classes, statuses |
| `GateLimits`, `Gate`, `GateProofs` | what limits and budgets look at, and how far they can be passed; rate limits and budgets before the relay, booking after it; theorems |
| `Ranking`, `Selection`, `SelectionProofs` | scores, the order of the candidates, which sessions stick; how averages, blacklist, loads and sessions change; theorems |
| `ProxyCache`, `ProxyCacheProofs` | the cache of channels and routes, its loaders, and the services that change and invalidate; theorems |
| `KeyCache`, `KeyCacheProofs` | the cache of clients' keys, requests that ask it, administrators that change keys; theorems |
| `SwitchCopy`, `PluginSwitches` | the switches of the plugins, in the table and in memory; refreshes and changes |
| `Pricing` | prices in the table, in memory and in the file |
| `UsageTables`, `UsageLog` | the tables of records and what budgets read; saving a record in three queries, and the clean-ups |
| `ServicesProofs` | theorems about `PluginSwitches`, `UsageLog`, `ErrorPath`, `Conversation` and `FilteredText` |
| `ThinkFilter`, `SseFraming` | pure operators: the thinking filter chunk by chunk and over a whole text; events cut out of a buffer |
| `FilteredText` | the filter fed with any text in any pieces |
| `StreamText` | that, or the framing fed with any bytes in any pieces |
| `StreamDecode` | an upstream's event as the common delta, and what the log collects of it |
| `AnthropicConverter`, `ResponsesConverter` | the stateful converters to a client's events |
| `StreamLoop`, `StreamLoopProofs` | both event loops around these, with the client that leaves; theorems |
| `ClientStream` | abstract: what a client may rely on when it reads a stream |
| `Dialogue`, `Conversation`, `Transcript` | messages, their calls and results; conversations of several turns through every pair of protocols; what is said in them |
| `MCRelay`, `MCGate`, `MCStreamLoop` | constants for TLC |
| `MCProxyCache` | two kinds of behaviours of `ProxyCache` for TLC |
| `MCScheduler` | `CircuitBreaker` or `Selection` for TLC, one per behaviour |
| `MCServices` | several small systems for TLC, one per behaviour |

### Checking services that share nothing

The services around the relay share no state with each other. `MCServices` has a
variable `focus`, chosen once by the initial state: one service runs, the variables of
the others stay parked. Every behaviour is a whole behaviour of one service, and the
states TLC explores are the sum of those of the services instead of their product. A
property of a service that is an instance is stated under `focus = ...`, and its fairness
holds while the service is in focus.

The eight foci: `keys` (`KeyCache`, which `MCServices` extends), `switches`
(`PluginSwitches`), `pricing`, `usage` (`UsageLog`), `stream` (`StreamText`), `gate`,
`talk` (`Conversation`), `errors` (`ErrorPath`). Five of the services are two modules
each: the state their promises are about, with the promises (`SwitchCopy`, `UsageTables`,
`GateLimits`, `Outcome`, `Dialogue`), and what happens to it. `MCServices` extends the first and has
an instance of the second, so that the invariants it checks are the very definitions the
theorems prove; for the same reason it extends `FilteredText`, the half of `StreamText`
that has theorems. These services are parked in an initial state, the others at `None`.

`MCScheduler` does the same with the two parts of the scheduler: it extends
`CircuitBreaker` and `Ranking`, and has an instance of `Selection`.

`MCProxyCache` extends `ProxyCache` and explores the behaviours of two kinds: changes of
two channels by two administrators, without routes, and changes of two routes and of the
one channel they have by a third. All of them are behaviours of `ProxyCache`; a `focus`
says which kind, so that loaders, channels, administrators, routes and names are
interchangeable (`SYMMETRY Alike`); no liveness is checked in that run.

### BreakerOps and CircuitBreaker

`entries` is the map of `circuit.rs`, `NoEntry` where it has no entry. An entry has
the fields of `CircuitEntry`; `last_failure_time` is kept as the time since
(`age`), which is all that the code ever computes from it. Ages and `trip_count`
saturate (`AgeCap`, `TripCap`).

A request asks for a key (`Admit`, or `SeeCooled` and later `HalfOpen`), is in
flight on it, and reports a success, a failure or nothing. `SeeCooled` and
`HalfOpen` are the two halves of `is_tripped`: the read lock is dropped at
`circuit.rs:101` and the write lock taken after it, and `HalfOpen` acts on whatever
the entry has become. `via` is a history variable that only `SingleProbe` reads.

The module is the breaker's own, with the most general caller: any request may ask
for any key at any time. `Relay` uses the same operators with the real caller.

### HealthOps and Relay

`HealthOps` has the failure counter and blacklist of `ChannelStatus`. `last_failure`
is kept as the time since, saturating at `FailureTTL` ("never" acts like "long
ago"); `blacklist_until` as the time to go.

`Relay` has the state that requests share (`entries`, `health`, `inflight`, `slots`,
`queue`), the locals of each request's handler, and what is left when a stream's
handler has returned (`task`, `body`). A step ends where the code awaits something
that other requests can change:

| Action | Code |
|---|---|
| `EnterQueue`, `QueueTimeout` | `RequestQueue::acquire` |
| `BuildCandidates` | `build_relay_candidates` |
| `CheckChannel`, `TakeSlot`, `OutOfCandidates` | the candidate loops of `RelayRun` and `RelayStreamRun` |
| `Select`, `NoSelection` | `build_selection`, `api_key_attempts` |
| `CheckKey`, `HalfOpenKey` | `is_tripped` in the key loops |
| `SendUpstream`, `PrepareFails` | the first half of `execute_proxy_request` and `execute_proxy_stream` |
| `AnswerKeyError`, `AnswerError`, `AnswerOk`, `FinishOk` | the second half, by the class of the answer |
| `OpenStream` | the hand-over from a stream's handler to its task and body |
| `AllOverloaded`, `KeysExhausted`, `BackOff` | `KeyLoopOutcome`, the back-off after 503s |
| `ReportFailure` | `on_attempt_failed` |
| `Record` | the end of `proxy_request` and `proxy_stream` |
| `StreamEnds`, `RestoreStreamKey`, `RecordStream`, `StreamPanics`, `CloseBody` | the spawned task, `StreamPanicGuard`, the response body |
| `Disconnect`, `AnswerPanics` | the handler's future dropped, or unwound, where it stands |
| `Probe`, `CleanupBlacklists`, `Tick` | the scheduler's tasks, time |

Plain requests and streams run the same actions; where the two implementations
differ (who drops the slot first, who decrements, who holds the queue permit) the
action says so with `r \in Streams`.

What is abstracted:

- The order of candidates is any order of any set of channels: scores, priorities
  and sticky sessions only choose it.
- Requests, events and answers have no content. An answer is a class: a key error
  (with or without 503), a server error, a client error, a success.
- A stream says nothing until it ends; how it ends is a choice of `StreamEnds`.
- `decrement_active_once` and `ActiveRequestGuard` decrement in a task that they
  spawn. The model decrements at once, so `inflight` is never higher there than in
  the program.
- A channel without enabled keys runs one attempt with an empty hint, so the
  sequences of `KeysOf` are never empty. Without a queue in the configuration
  `QueueSize` stands for a number no load reaches.
- A probe reports for the breaker key `"health"` too, which no request asks for.

### Gate

`windows` is the map of `RateLimiter` with `window_start` as an age; `spent` is the
sum `aggregate_cost` would return, by key and period. Each of `Workers` stands for
one of the requests that can be under way at once; when it is finished the next one
takes its place. `recent` is history: what was let through and recorded in each of
the last `Window` ticks. Costs and tokens are small integers; the code's costs are
floating-point, and rounding is not modelled.

A limit of 0 is no limit, and what is not limited is not counted in `spent` and
`recent` (it would grow without an effect). `OverrunUnderWay` of the run is
`TokensBounded` and `SpendingBounded` together.

### ProxyCache

`channelRow` and `routeRow` are the database; `channels`, `index` and `routes` are the
three tables of `infra/cache.rs`. A loader is a request that missed: its steps are
the awaits of `get_channel` (`MissChannel`, `ReadChannel`, `FillChannel`) and
`find_route_by_name` (`MissRoute`, `ReadRoute`, `ReadItems`, `FillRoute`). A change
commits in one step (`CreateChannel` to `ChangeItem`), and `todo` is what its service
does after that, one await after the other: read the row again (`ReadBack`), then
invalidate. If reading fails, or the row is gone, or the client leaves, the rest is
never done (`LoseInvalidation`). `Reset` and the imports have nothing to do
afterwards.

`lost` is history: the things whose entry may differ from the database with no
invalidation to come. A stale fill puts its thing there, a lost invalidation and a reset
what is cached then; a fill that is current and an invalidation take them out.
`StaleIsAccountedFor` then says that there is no fourth way.

What is abstracted:

- A row is whether the channel is enabled and its models; a route's items are the
  channels in them. Names of channels and the other columns are left out.
- `update` and `add_item` look whether the row is there and write in two queries; here
  it is one step. A row deleted between the two leaves items of a route that is gone.
- Reading a route again takes three queries, here one step.
- A backup is imported one channel or one route at a time; the program imports all of
  it in one transaction.

`Relay` takes the configuration as fixed while its requests run: what these modules
say of limits and keys is said for channels that do not change meanwhile.

### Outcome and ErrorPath

The loops of `Relay` again, one request, with what `Relay` abstracts: statuses and the
words by which an error text is recognised. `Wordings` has one text for each way
`classify_upstream` and `sse_stream_error_status` tell texts apart, `HttpErrors` one
status for each way a status is treated. `attempts` is the list from which
`save_request_record` takes the last; `error` is what `from_relay_outcome` sees. Breakers,
blacklists and capacity are choices here: `SkipChannel` and `SkipKey` may happen at any
channel and key. `PrepareFails` is a request that cannot be converted, or a plugin that
aborts. `Outcome` has the part of the state that its promise is about.

### Ranking and Selection

`Ranking` is what is computed from the state for one request, `Selection` how the state
changes. A sort is stated by what it gives: `Listed(S, R)` has the elements of `S` in the
order of `R`, `PlacesOf` the elements of a list at some of its places.

The averages are the code's exponential averages in whole percent and milliseconds,
rounded down; health counts tenths, so a probe adds 2 and takes 3. Scores are compared
as exact fractions over a common denominator. `Items` is the route, ordered by priority
as `list_route_items_for_proxy` returns it. `Candidates(s)` is what
`build_relay_candidates` returns for a session: the session's channel first if it goes
back to it (`GoesBack`: `get_channel` finds it and it has an endpoint that is on), each
other channel once, and those without health last. `usable` are the channels of which
that is true, and `Administer` changes it for those in `Managed`. A channel of the route
that cannot be used is a candidate all the same; the relay finds out. The averages of one list are read at
one time; the code reads each channel's under its own lock. `MaxSamples` bounds the
answers and probes.

### KeyCache

`row` is the table, `entry` the cache with ages up to `TTL`; a request misses, reads the
row and stores it in three steps (`Miss`, `ReadRow`, `Store`) and may rest between the
last two for at most `MaxDelay` ticks. That bound stands for the time a runnable future
waits for the runtime and for the cache's lock; without one no bound on a stale grant
could be stated. A change commits (`Update`, `Delete`) and announces itself later
(`Reread`, `Invalidate`); `Import` and `Reset` announce nothing, `Abandon` is a change cut
short. `off[k]` counts the ticks since `k` was last enabled, and `missed` is history: the
keys whose last change will not be announced. Values of keys are never given twice (they
are random), except by an import.

### PluginSwitches

`stored` is the table of settings, `enabled` and `master` the copy. A refresh reads one switch per query (`ReadSwitch`, in `Order`), then replaces the
switches under the write lock (`StoreSwitches`) and the master switch after it
(`StoreMaster`). `late` of a task is history: the settings that changed after it read
them. `lost` collects settings whose last change no refresh will bring. Requests look at
the master switch without a lock and at the others with one (`CheckMaster`,
`RunPlugins`). What each plugin does to a text is left out, except the thinking filter.

### Pricing

Two tasks fetch the list: `Start`, once, by `main`, and `Timer`. A fetch asks for the list
(`Ask`), and the answer (`Fetch`) may come, fail, or never come: the client has no timeout
(`pricing/model.rs:76`), and the timer waits. Then it writes the file, upserts row by row, reads all rows, and replaces the memory. Writing the file is not
atomic: a process that ends there leaves it `Torn`. An administrator merges a change from
memory, writes the row, and inserts into memory, in three steps. `MaxUpdates` and
`MaxFaults` bound changes, failures and restarts. `Fetch` may bring any list.

### UsageLog

`log` and `payload` are the times of the rows in the two tables. A record is saved by inserting its row, reading `usage.record_content`, and inserting its
texts, which SQLite refuses when the row is gone (a foreign key) and deletes with it.
`CleanLogs` and `CleanPayloads` are the daily jobs; they may run at any time, each with any
of the `Retentions`, because the settings are read anew each time and not checked. (With
negative days SQLite deletes nothing, as if the job did not run.) Time is in
ticks, `TicksPerDay` to a day, `MonthDays` days to a month. The clock is UTC; budgets use
the configured zone, which only shifts the days. `billed` is history, and so are `swept`, the
retentions of the clean-ups of rows so far.

### ThinkFilter, SseFraming, FilteredText and StreamText

Letters are `<`, `t`, `/`, `>` and one other. The tags `<think>` and `</think>` are `<t>` and
`</>`, so that every proper prefix, a near miss and a begun tag before a whole one occur
in texts of six letters.
`process_chunk` is the filter over chunks, `strip_think` over a whole text. Bytes are line
feed, carriage return and one other; `find_sse_boundary` searches as the code does, LF
pairs before CRLF pairs. `FilteredText` feeds the filter with any text, cut anywhere
(`fed` is all it was fed, `passed` all it gave out; both are history); `StreamText` feeds
either the filter or the framing.

### StreamDecode, the converters and StreamLoop

An upstream's event is its kind, the text it carries and the tool call it belongs to;
JSON is left out. `Decode` is `transform_stream_event` of the three upstream protocols;
the common delta has text, reasoning, pieces of tool calls, a finish and usage.
`ConvertAnthropic` and `ConvertResponses` are the two stateful converters, event by event
with the blocks they keep open; the converter to Chat Completions has no state.
`StreamLoop` is `run_conversion_loop` and `run_passthrough_loop`: `HandleEvent` does all the
code does for an event (error, usage, tool calls, filter, conversion), `Deliver` sends the
events one by one, and the client may leave before each. `StreamEnds` and `StreamEndsWith`
are the end, with and without a residual event. A chunk holds one event; `StreamText` has
the framing. Upstreams follow their protocol (`Follows`): a tool call starts before its
arguments come, and nothing new is said after a finish. The finish may be repeated, and
usage of a Chat Completions stream may come any number of times, before it and after it.

What the log has of tool calls depends on the loop. The pass-through of Chat Completions
and Responses collects the pieces by the call's number, in whatever order they come. The
conversion takes a delta with an id for a new call and one without for a piece of the
last (`stream_loop.rs:118-147`). That is right for Anthropic, whose blocks come one after
the other, for Chat Completions that send one call after the other (`OneByOne`), and for
Responses that send each call in one event (`InOnePiece`); `LoggedCallsComplete` covers
these. Pieces of parallel calls of a converted Chat Completions stream are filed with
another call, further pieces of a converted Responses call as calls of their own, and an
Anthropic pass-through logs no calls at all: there the code keeps no such promise, the
property makes no claim, and the section on disagreements says so.

`ClientStream` says what a client of either stateful protocol may rely on, as a state
machine over the events it has received: one start, items numbered as they are opened,
text in the newest item and never in a closed one, nothing but an error after the end.
`ClientPromise` is `ClientStream`'s specification with `seen` for `seen`: that `StreamLoop`
implements it is a property of the run `stream`. Two things a strict client expects are
not promised, because the converters do not do them; `ClientStream` names them, and
`stream_blocks` shows one.

### Dialogue, Conversation and Transcript

A message is its role, its parts, the calls it makes beside its parts and the call it
replies to; a text is the pair of its speaker and its turn. `FromChat`, `FromAnthropic`,
`FromResponses` read a client's notation, `ToChat`, `ToAnthropic`, `ToResponses` write an
upstream's, and `ShownChat`, `ShownAnthropic`, `ShownResponses` an answer for the client. The
client keeps what it is shown and sends all of it with its next turn, as clients do; a
retry (`Send` again) goes to another upstream. What a client may say and how upstreams
answer natively is external.

## The runs

| Run | Instance | Shows |
|---|---|---|
| `scheduler` | the breaker with 2 requests, 1 channel, 2 keys, threshold 2, cooldowns 1 and 2; or the order of 3 channels | `ClosedBelowThreshold`, `CoolingNotForgotten`, `RetripNeverShortens`, `CooldownEnds`; `CandidatesInOrder`: each channel once, the session's first if it can be used, then by priority, none before one that is better or equal in every measure and better in one; `SessionsKept`: the table within its limit, no session forgotten early |
| `relay` | a plain request and a stream, 1 channel with 1 slot and 2 keys, queue of 2 | `SlotsAccounted`, `QueueAccounted`, `NoPermitLeaks`, `RecordedOnce`, `HealthAccounted`, `OnlyServerErrorsBlacklist`; every request ends and gives everything back |
| `relay_failover` | the same two, 2 channels with a key each, one unlimited, queue of 1 | no permit is left behind while requests fail over and wait |
| `proxy_cache` | a cache of 1, 2 loaders; 2 channels with 3 rows and 2 administrators, or 2 routes with 2 names and 1 administrator | `StaleIsAccountedFor`, `IndexMatchesCache`, `CacheWithinLimit` |
| `stream` | every pair of protocols, filter on or off, up to 4 events of 4 texts and 2 tool calls | `TextArrives`, `EndAndErrorOnce`, `LoggedCallsComplete`, and the refinement `ClientPromise` |
| `services` | eight services, one per behaviour | see below |
| `circuit_single_probe` (violation) | as the breaker of `scheduler`, one key | two requests on one half-open key |
| `relay_panic` (violation) | as `relay` | a waiting client's request without a record |
| `gate_tokens` (violation) | a key with a token limit only | tokens without bound after the first window |
| `proxy_cache_reset` (violation) | 1 channel, 1 loader, 1 administrator | a deleted channel stays in the cache |
| `stream_blocks` (violation) | as `stream` | a content block that is started and never stopped |
| `conversation_forgets` (violation) | 3 turns | an answer that the next upstream is not sent |

The properties of `services`, by focus:

| Focus | Properties |
|---|---|
| keys | `GrantsExpire`: a disabled key is refused after `TTL + MaxDelay` ticks. `StaleGrantsExplained`: a stale entry has a change to come, or a known cause. `UsedEntriesStay`: a full cache gives up expired entries only |
| switches | `SwitchesExplained`: a switch in memory that is not its setting has a refresh to come, or a known cause |
| pricing | `PricesReturn`: memory is the table again and again, unless a request of the timer stays unanswered for ever |
| usage | `RetentionKeepsBooks`: the month's budget misses only what is older than a retention of less than a month, the day's nothing unless a retention was no day; texts never outlive their row |
| stream | `CutsDoNotMatter`: the filter gives the same wherever the text is cut. `EventsWhole`: each byte handled once, each event cut out alone |
| gate | `RpmPerMinute`, `OverrunUnderWay` (limits passed only by what was under way), `LimitsReopen` |
| talk | `TextsArrive`: the upstream reads what was said, once, in order, under the right speaker. `ResultsFollowCalls`: no result without its call |
| errors | `OneFailureTold`: client and log are told of one failure |

### Why the bounds are enough

- *Two requests.* Every property relates one request to shared state, or two
  requests to each other; the actors in a violation are one that leaves something
  behind and one that finds it. The proofs cover any number for the properties they
  state.
- *A plain request and a stream* rather than two of a kind: the two
  implementations differ, and their mixture contains what each does alone.
- *Two keys* on one channel: the second key of a stream runs without the queue
  permit, and "all of them said 503" needs two. *Two channels* where failing over
  matters, one of them unlimited because `try_acquire` takes another path there.
- *Thresholds and cooldowns* are 1 or 2: below the threshold, at it, and past it;
  a first and a doubled cooldown, the doubled one at the maximum. In `relay` they
  are 1, so that one answer trips a key and one error blacklists a channel. There,
  halving a counter that cannot pass 1 always empties it; half-way values are left
  to larger instances.
- `AgeCap`, `TripCap`, `FailureCap`, `FailureTTL` stop counters where the code no
  longer tells higher values apart: `AgeCap` is at least every cooldown and
  `MaxAge` (assumed in `CircuitAssumption`), `TripCap` reaches the maximum cooldown,
  `FailureCap` reaches the threshold.
- *Gate.* `Window` is 2 ticks: inside, at the boundary, over, and (at 4) old enough
  for the clean-up. `Cap` stops `tokens` above every bound a property compares it
  with. Three settings: both limits, tokens alone, requests with both budgets.
- *Proxy cache.* One entry, so that every fill can be a first one, a replacement or
  an eviction. The rows are two contents that share a model and differ in another,
  and a disabled channel. Two loaders of one thing and two changes of it can overlap;
  a third would repeat what the second does. Channels and routes meet only where a
  deleted channel takes items with it, so they are checked apart, routes with one
  channel.
- *Key cache.* Two keys and a limit of 1: a store at the limit with an entry in use,
  with an expired one, and of the key itself. `TTL` 2 has a fresh, an old and an expired
  entry; `MaxDelay` 1 a store in the tick of its read and one after it. One request and
  one administrator suffice for a stale store; the proofs are for any number.
- *Switches.* One plugin and the master switch, two refreshes: one that overtakes the
  other. *Prices:* one model, two prices, both fetches, one administrator, two changes
  and one fault. `PricesReturn` is about a world in which faults and changes stop, since
  a fetch that always fails, or a change between every load and its replacement, would
  never let memory catch up. A request that is never answered is not a fault and not
  bounded.
- *Usage.* Two records, 7 ticks of half a day: a month of 3 days is over once, and a row
  can be older than the longest retention. Retentions are of 0, 2 and 3 days: none, less
  than a month, as the default of 30 days is, and a month.
- *Selection.* Three channels in two tiers with one of them in both, of different
  speeds, one limited; up to 3 answers or probes make measures with and without
  samples, with and without spread, and health from 10 to 1 tenths or, for a
  blacklisted channel, 0. Two sessions and a limit of 1. The channel in both tiers is the
  one that administrators disable and bring back, under a live session and without one.
- *Filter and framing.* Texts of 6 letters hold a tag, a tag and the beginning of
  another, and a tag that is only begun; 9 bytes hold two whole events in either ending
  and a mixture. Pieces are up to 3 long, so that they cut everything anywhere.
- *Stream.* Four events: a start of two calls with arguments in turn, text between
  thinking, a finish with usage and another finish in any order, a finish three times, an
  error before or after each. The
  four pieces of text are the ones in `MCStreamLoop`: plain text and a tag, whole and cut.
- *Conversation.* Three turns: a question, a result or a second question, and a third
  that has two answers before it. *Errors:* two channels with two keys, so that every
  failure can be followed by every other, at key and at channel level.

The converters to Anthropic and Responses are also checked per event for every state a
stream of four events can bring them to; longer streams repeat open, delta and close.

### Fairness

`CircuitBreaker`: time passes; a request that waits for the write lock gets it
(tokio's lock is fair); a request in flight ends, because every upstream call has a
timeout. Nothing says how it ends. `CooldownEnds` needs all three: every failure
recorded in Open starts the cooldown again, but only requests let through before it
can record one.

`Relay`: the runtime polls every task that can go on (`HandlerStep`, `TaskStep`),
upstream calls end, and a client reads its response or leaves (`CloseBody`). The
answer an upstream gives is free, so no successes are assumed. `Disconnect`,
panics, probes and time have no fairness: nobody has to leave. A request that waits
for the queue has a step as soon as there is no permit (`QueueTimeout`), as in the
code, where the wait is bounded by a timeout.

`Pricing`: the timer asks again when its last fetch is over (a loop over
`interval.tick()`), a fetch that has its list takes its next step, a write or a query of
the local database, and so does an administrator's request. They may fail at each of
these steps. Of the answer nothing is assumed: `reqwest::Client::new()` has no timeout, and
the timer's loop awaits `fetch_remote_pricing` (`refresher.rs:40-47`). `PricesReturn` has
that case as its second disjunct; without it TLC finds the timer waiting for ever while
memory and table differ.

`Gate`: time passes. Requests may stop at any place, which is the harder case for
`LimitsReopen`.

The other modules state no liveness and assume nothing.

Deadlock is not looked for where the system may rest: in `relay` and `relay_failover`
when all requests have ended, in `stream`, `conversation_forgets` and `services` when a
stream, a conversation or a request is over.

## The proofs

TLAPS checks these for every value of the constants that satisfies the modules'
assumptions.

**CircuitBreakerProofs.** From `BreakerAssumption` and `CircuitAssumption`.

- `TypeCorrect`, `Spec => []TypeOK`: counters stay in their ranges under every
  operation. `TypeOK` is not inductive as it stands: what `Failed` does to an entry
  depends on its counter being below the threshold whenever it is Closed. The
  inductive invariant is the types together with `EntriesOK`: Closed is below the
  threshold, Open has tripped at least once. A lemma
  per operator of `BreakerOps` says that it keeps an entry within it; a step of
  the map then disturbs one entry, or all by the same operator.
- `ClosedBelowThresholdHolds`, for any threshold and any number of requests, with
  `HalfOpen` acting on an entry that others have changed since it was read.
- `CoolingNotForgottenHolds`: the clean-up keeps every key that still cools. It needs
  `MaxCooldown < MaxAge`; the scheduler passes one hour
  (`scheduler_task.rs:72`), and the default longest cooldown is ten minutes
  (`circuit.rs:43`).
- `RetripNeverShortensHolds`: a probe that fails opens the key for at least as long as
  before. `Shifted` is `<<` by a `u32` recursively; `ShiftedDoubles` says what one more
  trip does to it. The theorem needs `BaseCooldown <= MaxCooldown`: the program builds the
  default configuration only, 60 s and 600 s (`circuit.rs:38-45`).

**RelayProofs.** From `RelayAssumption`, and `BreakerAssumption` for the types of entries only.

- `TypeOKHolds`: every variable keeps its type, the entries of the breakers among them.
- `SlotsAccountedHolds`, `QueueAccountedHolds`: counters and holders agree, and the
  limits hold, for any sets of channels, keys and requests.
- `NoPermitLeaksHolds`: no permit outlives what it stands for.
- `RecordedOnceHolds`: one record, or none if the handler was cut short.
- `HealthAccountedHolds`: `active_requests` of a channel covers the requests that wait for
  its upstream, though streams book theirs off once by one of several parties, and what
  is blacklisted has failed.
- `OnlyServerErrorsBlacklistHolds`: an action property; a channel becomes blacklisted only
  by a server error, or by the 500 made up when no key was left to try.

The inductive invariant is
`Types /\ RequestsOK /\ SlotsAccounted /\ QueueAccounted /\ WorkCovered /\ HealthOK`, and
for the types `EntriesOK /\ LocalsOK`: an entry that is Closed is below the threshold, which
is what keeps its counter in range when a failure adds one.
`RequestsOK` is a predicate of one request at a time, which ties together where it
is and what it holds: that an attempt has a candidate, in which places it may have a
slot or a queue permit, that a task and a body exist only after the handler is done,
that a handler cut short has left no task, and how many records there are in each
place. Without it a counter could be
decremented for a permit that is not held. A step changes one request; lemmas on
cardinality say what the sets of holders do when one request takes or drops a
permit, and each action cites one of them. Every action is classified once by what it
does to slots, to the queue, to the work booked on a channel and to its health
(`SlotsStep`, `QueueStep`, `WorkStep`, `HealthStep`); each part of the invariant then
looks at the few classes of its own instead of all actions.

**KeyCacheProofs.** From `KeyCacheAssumption`: a lifetime of at least one tick, any
delay, any sets of keys, rows, requests and administrators.

- `GrantsExpireHolds`: a key that was disabled or deleted is granted less than
  `TTL + MaxDelay` ticks after it. What is granted was cached, and what is cached was read
  from a row that was enabled then. The inductive invariant `IInv` adds to the types the
  relation of three clocks (`EnabledLately`): an enabled row has been off for 0 ticks; a row
  a request has read has been off at most as long as the request has held it; one in the
  cache at most as long as it has been there, and `MaxDelay` before. Time moves all three,
  and a store turns the second into the third.
- `StaleGrantsExplainedHolds`: the same invariant with `KnownKeys` (only values that were
  given to a key are in the table, the cache or on their way). Without `KnownKeys` a new
  key could meet an entry of its value.
- `UsedEntriesStayHolds`: an action property that needs only the types.

**ServicesProofs** proves about five services that share nothing, each from its own
assumption.

*PluginSwitches.* From `PluginSwitchesAssumption`: the list a refresh works
through has every setting, and the master switch last (`plugin/mod.rs:29-35`, `139-160`).

- `SwitchesExplainedHolds`, for any plugins, refreshes and requests. The inductive
  invariant adds `TaskOK` to types and property: what a refresh has read of a setting is
  the value in the table unless the setting is in its `late`. That is what makes a refresh
  "one that will bring the setting": storing it puts in memory what is not late, and what
  is late goes to `lost`.

*UsageLog.* From `UsageLogAssumption`: any retentions, of no day, of less than a month or of
more, another one at each clean-up.

- `PayloadsHaveRowsHolds`: texts never outlive their row.
- `RetentionKeepsBooksHolds`: the month's budget misses only rows older than some retention
  of less than a month that a clean-up has used, the day's budget none unless one of no
  day was used, and texts never outlive their row.

The inductive invariant says of each record (`RecordOK`) that its row is there from when
it was billed until it is older than a retention in `swept`, that texts have a row, and
that nothing is in the tables before the record is saved.

*ErrorPath.* Nothing is assumed; any number of channels and keys.

- `OneFailureToldHolds`: client and log are told of one failure. The log takes the last of
  the attempts, the client the error that was carried along, and the two meet in
  `Reported(e)`: an error that says it was logged has its status at the end of the list. The
  inductive invariant `ErrorInv` claims it of the error of the candidate loop between
  channels, and of the error of the key loop within one, where a later key may
  replace it or not.

*Conversation.* Nothing is assumed; any number of turns.

- `ResultsFollowCallsHolds`: whatever upstreams a conversation goes to and whoever answers
  it, no upstream is sent the result of a call that is not before it in the same request.
  The inductive invariant `TalkInv` claims it of the history and of the request, and of the
  messages that they are whole and that none of the system is a reply: towards Anthropic
  the first system message is kept as it is. Each translation either keeps a message's
  calls and results as they are (`AnthropicRead`) or writes no results at all (`Silent`). The
  lemma under all of them is `ChosenElements`: which elements the recursive `Chosen` takes
  out of a list, proved at the least length at which it could fail (`WFMin`).

*FilteredText.* From `FilteredTextAssumption`; texts and pieces of any length.

- `CutsDoNotMatterHolds`: wherever a text is cut, the pieces give what the whole gives. The
  inductive invariant `FilterInv` says that the filter is where it would be, and gave out
  what it would have, if all the text had come at once (`Split(FALSE, fed)`). A step
  preserves it because a text read in two pieces gives what it gives as one
  (`SplitContinues`): up to the first tag the two readings agree, a tag in the second piece
  or across the cut is found at the same place, for what is held back is all that may
  begin it, and after a tag there is less text to read. That the
  filter agrees with `strip_think` is a fact about one text (`StripAgrees`), by induction
  over its pairs of tags. Both definitions are recursive functions: that they are what
  their right sides say (`SplitsExist`, `StripsExist`) is proved from the end of the
  text on, and all the inductions take a shortest counterexample (`LeastText`, `WFMin`).
- `FilterTypeHolds`: what is held back is shorter than a tag, and the log has all the
  reasoning taken out.

**GateProofs.** From `GateAssumption`: any keys, limits, workers, window.

- `RpmPerMinuteHolds`: in no stretch of a window are more than two windows' requests let
  through. `RatesOK` gives the history a shape: what was let through since the window of
  the key began is at most its counter, what was before it at most one limit, and both
  stay so when the window ends, is reset or is cleaned up. Sums over the history
  are compared by induction: the prover cannot use the library's theorems on induction
  here, so the least index at which a claim fails is taken instead (`UpTo`, `WFMin`).
- `OverrunUnderWayHolds`: tokens and costs pass a limit by one request per worker at most.
  The property is inductive with the types: a booking takes one worker from those under
  way, and a worker gets there only below the limit. Lemmas on cardinality
  count workers before and after one of them moves.

**ProxyCacheProofs.** From `ProxyCacheAssumption`.

- `StaleIsAccountedForHolds`, `IndexMatchesCacheHolds`, `CacheWithinLimitHolds`, for any
  channels, routes, loaders and administrators. The inductive invariant is these three and
  the types, with the index as a function (`index = Expected`), because taking a channel
  out of it has to give zeros and not only smaller numbers. A loader's row need not be
  current: whether it is, is looked at when it is filled in. A change is proved to ask for
  the invalidation of all it makes stale, and each kind of work to clear what it says.

**StreamLoopProofs.** From the assumption of `StreamLoop`.

- `ClientPromiseHolds`: `StreamLoop` implements `ClientStream`, for streams of any length,
  both stateful protocols and all three upstream protocols, every way to cut a text
  and a client that may leave at any event. The initial state maps to the initial state;
  every step is shown to be an arrival of one event that `ClientStream` allows, or a
  stutter.
- `EndAndErrorOnceHolds`: one end if the upstream finished, however often, and one error if it
  sent any; neither otherwise. The invariant says that a converter that has ended sends
  nothing for a finish or usage.
- `LoggedCallsCompleteHolds`: the log has every call that was sent, with all its arguments,
  for any number of events and calls, where the loop can tell calls apart: passed through
  from Chat Completions and Responses always, converted as said above. The invariant `LogInv` says what upstreams promise
  (calls are numbered as they begin, and arguments follow), and that what is collected are
  the calls of what was read so far; `ChatCollected`, `ResponsesCollected` and
  `BlocksCollected` say that one more event adds to the one what it adds to the other.
  `ConvertedCollected` says the same of the conversion loop, as long as the events so far
  are `ToldApart`.

A client's history is reduced to a `View`: what has started, how many items, which is
open, whether it has ended. `Allowed` is `ClientStream`'s guard on a view, and `Leads(v, o, w)`
says that the events `o` are allowed one after the other from `v` and lead to `w`. `FitsA` and
`FitsR` relate the state of the Anthropic and the Responses converter to the view of its
client; each operation of a converter leads from a fitting view to a fitting view. The
invariant `Inv` says that `seen \o out`, received and still to be sent, is allowed as a
whole, so a client may leave anywhere in it, and that the converter's state fits its view
(`Told`). The end of a stream sends nothing of its own: a converter has finished exactly if
it has completed.

**SelectionProofs.** From `RankingAssumption` and `SelectionAssumption`: any route, any
channels and latencies, any limit of the table.

- `CandidatesInOrderHolds`: each channel of the route once, the session's first if it can be
  used and like any other if not, those without health last, then
  by priority, and in a tier none before one that is better. The proof follows the list
  through the code's steps. `ListedSorts` says that `Listed` sorts a finite set
  by any strict order; `PrecedesOrders` that the order of tiers and scores is one;
  `Demoted` and `OnceFirst` what moving the sick channels to the end and keeping each
  channel's first place do to a sorted list. A channel in two tiers comes at the better one,
  because the first of its entries in the list is. That scores follow the measures
  (`BetterScoresHigher`) is arithmetic: each part of a score is monotone in its measure
  over the tier's spread, whatever the spread.
- `SessionsKeptHolds`: an action property; the table within its limit, no session forgotten
  before its time. It needs the finite table (`IInv`), so that one more session is one more.
- `TypeOKHolds`: averages stay within 0 and the greatest sample though they are rounded,
  errors within 0 and 100, health within 0 and 1.

**Model-checked only.** Liveness (`CooldownEnds`, `EveryRequestEnds`,
`EverythingReturned`, `PricesReturn`, `LimitsReopen`) is out of the prover's reach, and so
are RECURSIVE operators: the property of the framing (`EventsWhole`; `Events` of `SseFraming`
is one). Not proved either: `TextArrives` and `TypeOK` of `StreamLoop` (what the filter lets
through, as the converters send it), and `TextsArrive` (what is said in a conversation, in
its order), which compare texts that two recursions over a whole history put together.

## Where code and comments disagree

Six disagreements have a run that shows them:

- *A single probe.* `circuit.rs:13` says that only one request is let through in
  HalfOpen. `half_open_probe` is reset on the way there and set nowhere, so any
  number is (`circuit_single_probe`).
- *A record for every request.* `pipeline/dispatch.rs:114-115` explains why each
  request must have one. Error texts are cut at byte 500 without regard for
  characters; a cut inside one panics the handler (`relay_panic`).
- *A window a minute.* `ratelimit.rs:24-26`: windows reset when they are over. Only
  `check_rpm` resets them, and it returns early for a key without a request limit
  (`gate_tokens`).
- *Changes invalidate.* `docs/architecture.md:258` requires it of every change of the
  configuration. `reset` deletes channels and routes behind the cache's back
  (`proxy_cache_reset`).
- *Whole content blocks.* `anthropic_converter.rs:3-4` promises their complete life.
  `should_emit` lets one stop through per stream, the first (`stream_blocks`).
- *Transparent protocols.* `docs/user-guide.md:3`. A Responses client is shown
  `output_text` and sends it back; the request side does not read that type
  (`conversation_forgets`).

The rest was met while reading and modelling; the modules do what the code does.

Errors and retries:

- `executor/mod.rs:114-115` keeps key errors away from the channel's blacklist. If all
  breakers of a channel are open, no key runs, and the 500 that `outcome.rs:45` makes up
  does blacklist the channel (`OnlyServerErrorsBlacklist` names the case). A comment at
  `scheduler/state/mod.rs:135` expects a blacklist here; the two contradict each other.
- `error/proxy.rs:48-51` says that client and internal errors are not retried;
  `run.rs:186-208` goes on to the next candidate after any error.
- `docs/architecture.md:240` passes upstream errors through; a 4xx other than 404 becomes
  a 503 in `from_relay_outcome`.
- The back-off after 503s resets the breakers of all keys of the channel
  (`executor/mod.rs:154`), so the trips of other requests, for a 401 say, are forgotten.
- A failed selection is logged as an attempt for streams (`stream_executor.rs:550-575`)
  and not for plain requests. An answer of 200 that cannot be converted is logged as a
  success.
- A stream whose record fails after its row was inserted counts no tokens; a plain
  request does (`recorder.rs`).
- `circuit.rs:207` holds a failure in Open to be impossible; every request let through
  before can report one. `recorder.rs:327` speaks of a timeout that is not there.

Limits:

- `docs/user-guide.md:47` calls a channel's limit the maximum number of concurrent
  requests. A client that leaves its stream frees the slot while the task reads on
  (`stream_loop.rs:156`). A stream's second key runs without its queue permit
  (`stream_key_loop.rs:97`), and a channel that cannot be read counts as one without a limit
  (`candidates.rs:180`).
- With fewer days of retention than a month has, the monthly budget forgets what was
  spent on its first days (`maintenance.rs:21`): with the default of 30 on the 31st of a
  month. How much it forgets is `RetentionKeepsBooks`. `scheduler_task.rs:163` speaks of 90
  days; the default is 30 (`scheduler_task.rs:178`).

Choice of channels:

- `active_count` counts permits, which channels without a limit do not take: they always
  look idle. The first-token time of streams is compared with the full latency of plain
  answers.
- At the limit the table of sessions refuses to renew a session, too; `sticky.rs` speaks of
  new ones. A sticky candidate keeps the requested model's name and may be outside the
  route.

Configuration:

- `reset` deletes all settings, and update and import only update rows: no setting can be
  set again (404) until somebody writes the table. `docs/user-guide.md:237` says that an
  import overwrites; it inserts what is not there. Neither import nor reset refreshes
  plugin switches or the key cache. Settings that `docs/user-guide.md:219-221` lists are not
  read by the scheduler.
- A fetch of prices overwrites prices set by hand. An update merges into what memory has,
  so of two at once one is lost. The fetch at start and the timer's first write one file.
- The client that asks for the list of prices has no timeout (`pricing/model.rs:76`): one
  request that is never answered ends all later refreshes of the timer.

Streams:

- `finish` of the converters sends closing events only after a finish reason
  (`stream_converter.rs:23`). Usage that comes after it is dropped. Letters held back by
  the filter when the stream ends are dropped.
- Pieces of a Responses tool call without an id go to the first call, even if it is closed.
- A residual event is neither filtered nor collected by the conversion, and not forwarded
  by the pass-through. An Anthropic pass-through logs no tool calls.
- A conversion files pieces of tool calls with the last call, or as calls of their own if
  they have an id (`stream_loop.rs:130-144`): interleaved calls of Chat Completions and
  Responses calls of several events are logged wrongly.
- After the client has left, the conversion reads the upstream to its end, the pass-through
  stops, and an error event leaves the rest of its chunk unread.

Conversations:

- Tool calls of a Chat upstream are not shown to an Anthropic client (which is told
  `tool_use` all the same); those of an Anthropic upstream not to a Responses client, and
  to a Chat client only among the content; those of a Responses upstream to nobody. Only
  the first choice is shown.
- Items without a role and flat tools of a Responses client are dropped. An assistant's
  calls and a tool's results of a Chat client are lost towards Anthropic and Responses. Of
  several system messages Anthropic gets the first; `developer` becomes `user` there.
  `max_tokens` is lost towards Responses.

## What is left out

- *Content.* Texts are told apart where a property does; wording, redaction, images,
  audio, numeric options and token estimates are not. `calculate_cost` is arithmetic on one
  record (its search by suffix depends on the order of a hash map).
- *Routes by expression*, and the cache of compiled expressions, which grows without a
  limit (`infra/cache.rs:144`). Such routes are read from the database each time and are
  never cached themselves.
- *Two queries in one step.* A reset or an import is one transaction of many rows; here it
  is one step per kind of row (reset) or per row (import), which contains the code's.
- *Display.* Success counters, `last_used_at`, metrics and attempt traces are written and
  shown; nothing depends on them.
- *Administration.* Login, statistics, discovery, the manual channel probe, the update
  check and static files are queries and single calls without state that another step
  could disturb. The front end is a client of them.
- *Configuration.* `Relay` takes channels as fixed while its requests run: what it says of
  limits and keys is said for channels that do not change meanwhile. `ProxyCache` says
  which channel a request would see.
- *Crashes.* The process keeps nothing but SQLite and the price file. `Pricing` and
  `PluginSwitches` restart, `UsageLog` may stop between any two queries; caches, breakers
  and windows start empty again, which is their initial state.

## Plan

Modelled in the order the request meets it: breakers, the relay, its gate, the cache of
the configuration; then the caches of keys, switches and prices, streams from bytes to
blocks, conversations, the choice of channels, and errors. Proved in the same order, up to
the refinement of `ClientStream`. What remains is a specification of a pool of permits that
slots and queue implement, as a proved refinement on the invariant of `RelayProofs`.
