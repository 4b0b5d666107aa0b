# swift-agent: a TLA+ development

swift-agent runs conversational agents. A client sends a message to a session
over REST or a WebSocket; the server runs the session's agent: a loop of model
calls and tool calls whose every step is persisted in Postgres and streamed
back as chat events. This directory models the parts of the program in which
things happen concurrently or fail half-way, checks them with TLC on small
instances and proves the central properties with TLAPS for all instances.

## 1. Inventory

| Part | State it keeps | Operations | What makes it hard, and what makes it right |
|---|---|---|---|
| Run execution service (`runtime/run-execution-service.ts`, `session-lock.ts`) | session locks, `activeRuns`, `cancelledRuns`, in memory | `start`, `drive`, `requestCancel` | REST and gateway start runs concurrently, cancels arrive at any await, setup may fail, the process may restart. One run per session; no wedged session; a cancel lands. |
| Engine and agent loop (`runtime/engine.ts`, `loop.ts`, `deadlines.ts`) | a run's locals and abort signals | prerequisites, model rounds, tool calls, terminal writes, finalization | Three deadlines, a cancel, database errors and completion race. The row, tool calls, history, trace and event must agree. |
| Rows (`db/repositories`) | runs, tool calls, messages, traces, sessions | inserts, `UPDATE ... WHERE status=...` | A terminal row never changes, whoever comes late. |
| Tool executors and tool runner (`runtime/tool-executor-*.ts`, `sdk/tool-runner.ts`) | executor cache; idempotency cache | `execute` with retries; cached execution | Retries, late answers and a bounded cache: a logical call executes at most once. |
| Gateway (`gateway/*`) | connections, replay buffers, channel reference counts, heartbeats | the stream route, send, cancel, replay, broadcast | Sockets come and go at every await; Redis is asynchronous. A client sees every event of the run once; nothing leaks. |
| Spend ledger (`db/.../playground-spend-repo.ts`) and mediator (`apps/playground/backend`) | reservations of the day; guests, sockets, counters, rate windows | reserve, attach, settle, sweep; mint, stream, relay | Reservations race with settlements and the sweep. Spend stays below the ceiling. |
| React client and playground frontend (`react/*`, `apps/playground/frontend`) | connection state, outbound queue, chat state | connect, reconnect, send, reduce events | Reconnects and replays: messages are neither lost nor doubled. |
| API services, routes and auth (`api/*`), SDK app (`sdk/app.ts`, `client.ts`) | none of their own; the app's runner and registrations | CRUD over the rows, ownership checks, keys and workspaces; `listen`, `close` | Read-then-write upserts and first requests race, a second insert fails. No tenant reaches another's rows. |
| Context, memory and models (`runtime/context-builder.ts`, `memory/*`, `models/*`) | the session's messages; chunks of a stream | build a context, send it, accumulate an answer | Five wire formats, sessions that change models, windows that cut, streams that end early. A result stays tied to its call; a call is kept whole. |
| Observability (`observability/*`) | spans of a run | start, end, bounds, metrics | Bounds at their limit, runs that stop half-way. The metrics are the run's. |
| Server (`apps/server`) | pool, providers, readiness | boot, health, shutdown | Order of the steps, with requests in flight. |
| Migrations and provisioning (`db/migrate.ts`, `drift-check.ts`, `provision-*.ts`) | the schema, the journal, the files handed over | preflight, migrate, check, status, provision | A job, a booting server and a person change one schema; a task is interrupted and repeated. |
| Scaffolder, credentials, SSRF guard, release scripts | none at run time | scripts and pure checks | Mostly I/O. |

The parts interact as follows. The API's session service and the gateway's
bridge call the same run execution service. The service calls the engine, the
engine the loop, the loop the repositories, a model provider and a tool
executor. Chat events flow back through a callback to the bridge, which buffers
and broadcasts them. The playground's mediator stands between browsers and the
gateway, and reserves spend before it relays a message.

## 2. Modules

| Module | What it is |
|---|---|
| `RunLifecycle` | The abstract promise about runs: who owns a session, when a row is created, when it ends. |
| `RunExecution` | The run execution service, engine, loop and deadlines over the rows; implements `RunLifecycle`. |
| `RunExecutionProofs` | Type correctness; exclusion, no wedged session, final rows, refinement; honest events, causes, history and records. |
| `ToolCalls` | One logical tool call: resolver, executors with retries, network, the runner's idempotency cache. |
| `RunTrace` | Spans, their bounds and the metrics derived from them, as operators. |
| `ModelTurn` | A session's rounds with its model: context, adapters, streams, what is kept. Uses `RunTrace`. |
| `AgentRound` | `ToolCalls` and `ModelTurn` as the two halves of a round. |
| `AgentRoundProofs` | The calls kept of an answer, the context sent, the metrics of a run; a tool call executes once per cache entry, gets its own result and stops when aborted. |
| `Gateway` | The stream route, connection set, replay buffer and channel registry of one session. |
| `GatewayProofs` | Order and completeness of what sockets get, cancels, the subscription. |
| `Heartbeat` | The ping/pong timers of one socket, with time; its theorem and proof. |
| `SpendLedger` | The playground's reservations and day totals, as Postgres executes them. |
| `Mediator` | The playground backend over `SpendLedger`: guests, sockets, relay, settlement. |
| `MediatorProofs` | The day totals, the forwarded messages, the settled rows and the runs they pay for. |
| `SessionStream` | A session as a client sees it: broadcast frames, the replay buffer, refusals, failed setups, REST runs. |
| `ChatClient` | The React client over `SessionStream`. |
| `PlaygroundFeed` | The playground frontend's controller over `SessionStream`. |
| `Clients` | Either client on a stream. |
| `ClientProofs` | One connection, the indicator, the order of what was sent, the feed's tool calls. |
| `DriftCheck` | Migration status and schema comparison, as operators. |
| `Deployment` | Migrate job, server boot and shutdown, provisioning and hand-made edits, over `DriftCheck`. |
| `ControlPlane` | REST and management routes, repositories and the SDK app that registers through them. |
| `ControlPlaneProofs` | Tenant isolation, users, keys and registered runners. |
| `DeploymentProofs` | Racing migrators, the exactness of the drift check, serving and shutdown, provisioning. |
| `MC*` | Constants and symmetry of the TLC runs. |

All of it is Node code, so code between two awaits on I/O is atomic: an action
is one awaited call taking effect plus everything up to the next await.

### RunExecution

`pc[r]` names the await run `r` is suspended at. Between two awaits
of a run anything else may happen: another run's step, `RequestCancel`,
`CallDeadline`, `TotalDeadline`, `UpdateSession` (PATCH on the session), or
`RestartProcess`.

| State | Code |
|---|---|
| `locks`, `activeRuns`, `cancelledRuns` | `SessionLock.locks` and the two registries of the service |
| `abortReason[r]` | the reason of `ctx.abortSignal`: cancel, total deadline or none; the first abort wins, as in `AbortSignal.any` |
| `ctx[r]` | the loop's locals: `iterationCount`, the size of `preparedCalls` and the call in progress, whether `assistantText` is non-empty, whether the current call's signal aborted with a timeout, `deadlineHit`, the tool status, the terminal cause and `openToolCalls` |
| `runRow`, `toolRow`, `messages`, `traceRow`, `sessionRow` | the rows; messages keep only role, round and call |
| `event[r]` | the terminal chat event, by its code |
| `cancelRequested`, `deadlineFired` | history variables: in which phase an accepted cancel first found the run, and which runs had a deadline fire |

A database call settles as `ok`, as `lost` (it rejects without effect) or as
`unacked` (it rejects after its effect). `LostWrites` and `LostAcks` say which
calls may do so in a run.

What is taken from code outside this module: a provider stream whose signal is
aborted throws, ends without another chunk or delivers one (which throws); an executor answers `ok` only while its
signal is not aborted; the event callback of `start` does not throw. The
max-iterations branch of the loop has a write of the pending text that cannot
happen (`assistantText` is reset in every counted round) and is left out.
`AgentEngine.run`, an older entry point with its own lock that only tests use,
is left out too.

### ToolCalls

| State | Code |
|---|---|
| `agent` | the agent's `toolRunnerUrl` and tools, which a re-registration changes |
| `memo` | the resolver's cache of executors |
| `call[c]`, `aborted` | `execute`: where it stands, its attempt, its result; whether its signal is aborted |
| `request[c][a]` | the HTTP request of an attempt and its reply, in the network |
| `cache`, `handler` | the runner's `idempotencyCache` (oldest first) and the executions of the user's handler |
| `forgotten` | history variable: how often the cache let go of a call |

An attempt that timed out leaves its request in the network: it may still
arrive and execute, after the retry did. Entries of other calls fill the cache.
The cache evicts entries whose handler still runs, as the code does; so a call
may execute twice then, although the comment at `tool-runner.ts:39` promises one
execution per process, and `OncePerEntry` says when exactly. A reply whose body
is too large, or is no runner's answer, ends its call with an error whatever
the handler did.

### ModelTurn and RunTrace

`history` holds the session's messages with their calls (the runtime's id
`swift`, the provider's `id`, a name); `turn` is the model call in progress:
its context, what the model says, the chunks received and kept, how the stream
ended. A run may stop before any round (aborted, history not read, provider not
resolved), in the middle of a stream or a batch, after a whole batch, at the
iteration limit, or when a save fails. `Build` applies the memory strategy and ties rows to names and ids, and `Ref` is
what an adapter puts on the wire; the adapters also differ in how they accumulate
fragments and when they say `finish`, and each has actions of its own. The model's fragments interleave freely; a stream may be cut, throw or hit
a deadline. `spans` are appended and ended where the loop does so, `trace` is
what `finish` writes, and `tally` counts independently what the run did.

### Gateway

Every map of the gateway is keyed by session and no handler looks at two
sessions, so one session is modelled. `route[w]` says which await the stream
route of socket `w` is suspended at; a socket may drop at any of them.

| State | Code |
|---|---|
| `wire`, `route`, `preAuth` | `readyState`, the progress of the `/v1/stream` handler, `preAuthBuffer` |
| `connected` | `ConnectionManager.sessions` |
| `monitored` | `HeartbeatManager.sockets`: whether, not when, a socket is pinged |
| `refCount`, `commands`, `subscribed`, `echoes` | `ChannelRegistry.refs` and the Redis subscriber connection: commands are answered in order, a publish comes back only while subscribed |
| `buffer` | `replayBuffers` for the session: the run and its events |
| `run`, `sender`, `emitted`, `cancelled` | what the bridge sees of `start()` and `requestCancel()` |
| `received` | what each socket was sent |
| `refused` | history variable: runs during which a send was refused |

`start()` refuses synchronously when the session is taken (this is
`OneRunPerSession` of `RunExecution`), so a refused send is one action. Runs
started over REST do not pass the bridge and are left out, as are frames that
change no state (pings, frames that do not parse), the shutdown sweep, peer
instances (`forward` keeps its branch for them; the code calls them Phase 2)
and a rejected UNSUBSCRIBE.

### Heartbeat

One socket and two timers: the interval (`pingIn`) and the hard timeout
(`killIn`). `silence` measures how long the oldest unanswered ping has waited.
A due interval timer fires before time moves on; the hard timeout's callback
(`HardTimeout`) is part of the `Tick` that runs it out. `HardTimeoutNeverDue`
says that it never does, and is proved.

### SpendLedger and Mediator

| State | Code |
|---|---|
| `status`, `dayOf`, `runOf`, `outcome` | `playground_spend_reservations`; `overdue` is a reserved row older than `abandonedAfterMs`, `deleted` one the retention job took |
| `total` | `playground_spend_days.reserved_total_micro_usd` |
| `guest`, `sent`, `tokens`, `pending`, `breached` | a guest's record in the mediator |
| `byRun`, `seenRuns`, `cancels` | `reservationByRun`, the runs a relay has seen, `cancelRun` calls |
| `socket[s]` | a browser's socket: inbound chain, the frame being handled with its reservation, the upstream socket and what waits for it |
| `observed`, `stage`, `session` | the runtime as the relay sees it |
| `calls` | `attachRun` and settlement calls nobody awaits |

Each ledger operation is one SQL statement or transaction. A rejected `reserve`
is swallowed by the next link of the socket's inbound chain or, without one,
ends the process; both are `ReserveRejects`. Whether a rate limiter allows a
frame is an input.

### SessionStream, ChatClient, PlaygroundFeed

| State | Code |
|---|---|
| `log` | the frames broadcast to the session's sockets, in order |
| `phase`, `run` | the holder of the session lock: a run in `setup`, `active`, `draining` (its terminal event is out, the lock not yet released), or a `rest` run that streams nothing |
| `buffer` | `replayBuffers`: a stretch of `log`, which ends at `maxReplayBufferSize` and is emptied by every refused `send_message` (`session-bridge.ts:195`) |
| a cursor's `next`, `until`, `live` | what a socket still has of its replay, and where its broadcasts begin |
| `unanswered` | ghost: since the user last wrote, a message was refused while nothing was streamed, its setup failed, its run's failure could not be serialised, or its run's end was missed |

A run emits `message_started`, any tokens and tool calls, and one terminal
event; the frames for the sender alone are left out, since no client reduces
them. A run whose `run_failed` cannot be serialised (`JSON.stringify` of its
`cause` throws) is closed in one step, with the error frame all sockets get.
One gateway process is modelled, without restarts. `ChatClient` has the
sockets, retry timers and queue of `createChatSession` and the state of
`chatReducer`; `PlaygroundFeed` the sockets, status and feed of the session
controller and the tool calls `App.tsx` derives from the feed.

### DriftCheck and Deployment

`DriftCheck` has two languages for a schema, that of a drizzle snapshot and
that of Postgres' catalog, the normalisations that bring both to one form, the
comparison, and the status of the journal. `CatalogAfter` (external) is what
Postgres makes of a snapshot. `Deployment` runs a migrate job query by query
against a server that migrates at boot and a person who edits the schema; the
server's boot decides on every combination of settings in `Environments`; the
provisioning tasks stop at any await and are run again. A local stack starts
with what an earlier database may have left in the mount (`LeftBehind`): a stale
key file, a stale `runner-env.json`, both or neither.

### ControlPlane

A request is a record that moves through authentication, ownership checks,
reads and writes, one await at a time; `touched` collects the rows it saw or
changed. Any query may fail, any body may be unreadable (`Unreadable`, a 500) or
against its schema (`Invalid`, a 400), and the error mapping decides the answer;
`cause` remembers why a 500 was given without a failed query. Starting a run is
three calls: the checks of `start`, of which the lock's is an input here, the
run's row, the user's message. An app's
`listen` starts its runner and sends registrations, which are requests too, so
two apps may register one name at once; its reply may be lost, be a proxy's, or
be cut off.

`World` is a database to start from. `WorldAssumption` is what the schema
enforces of it (unique subs, foreign keys; the history columns of keys name
members), and that no agent points yet to an app that has not started.
`FreshIds` stands for `defaultRandom()`: a row inserted by request number `r`
has the id `r`, which no row had before.

## 3. Runs

`CHECK_DEADLOCK` is off throughout because every system here may stop: all runs
done, all bounds used up. Where a run is over two instances, a `CONSTRAINT` of
its MC module says which (`ThreeSocketsOrTwoRuns`, `TwoRunsOrTrouble`).

| Run | Instance | Shows |
|---|---|---|
| `run_races` | 2 runs, 2 rounds, all deadlines, cancels, no faults | exclusion, honest outcomes, answered tool calls |
| `run_faults` | 2 runs, 1 round, tool deadline, any call may be lost, terminal writes may go unacknowledged, session updates, restarts | no wedged session, truthful events, final rows, `RunLifecycle` |
| `run_drains` | 2 runs, total deadline, lost tool-result writes, session updates, fairness | runs drain, cancels settle, records agree |
| `agent_round` | a call with 2 attempts over 2 runner URLs, a cache of 2, a restart; 2 runs with up to 3 rounds, a model of each provider, window of 3 | a call executes once per cache entry, gets its own result, stops when aborted and returns; results are tied to calls, calls kept whole, metrics exact |
| `gateway` | 3 sockets around a run of 2 events, a buffer of 1, with Redis and without, subscribes may be refused; 2 sockets around 2 runs without Redis | joiners get the whole run once and in order; a cancel finds its run; the subscription follows the sockets |
| `gateway_replay_gap` | 2 sockets, 1 run | violated: a refused send wipes the replay buffer of the active run |
| `heartbeat` | timeout of 60 units (30 s, in half seconds), fairness | prompt peers stay, timers of gone sockets stop |
| `playground` | 1 guest, 2 sockets, 2 messages, 2 days, a ceiling for one reservation a day; 1 run with lost answers, expiry, sweeps, retention and a restart; 2 runs without | the day's total is exact and bounded, nothing is forwarded unpaid, a reservation pays for one run, outcomes are final |
| `clients` | 2 runs of up to 5 events, a replay buffer of 2, 2 messages, 2 broken connections, 1 retry | one live socket, an indicator that ends, finished calls that stay finished |
| `chat_text` | as `clients`, 1 broken connection | violated: streamed text is not shown |
| `deployment` | 2 migrations, 1 edit of 12 kinds, a job and a booting server; 2 jobs; 3 provisioning attempts over fresh or stale files; every combination of settings | drift is what was edited, nothing is migrated over it, no request without pool and schema, keys that were handed over work |
| `control` | 2 tenants and a new principal; 2 requests of any kind and a failing query; 2 apps; an app and a request | tenant isolation, users converge, keys only by members, registered runners answer |

Why the bounds are enough. Two runs on one session allow a refused start, a
start after a release, and a late step of the first run during the second; two
rounds give a first, a middle and a last one. In the gateway the third socket lets a
last close, a refused subscribe and a new open overlap, and a buffer of one
with two events is a buffer at its limit; the second run meets what the first
left in it. One call with two attempts can be in
the network twice; a cache of two is full with two other calls. The window of
three cuts between a call and its results. In the playground two sockets of one
guest race their reservations and the attribution of a run (the message cap is
as high as the number of frames, so it is never passed), a replay reaches the second
socket, and a second run takes the second reservation; more guests, sockets, rows, days and runs are the matter of
`MediatorProofs`. Drift is a difference of one schema object, so one edit at
a time shows each; two jobs, or a job and a boot, overlap query by query. A
race in the control plane is between two requests.

Fairness. `RunExecution`'s `FairSpec`: weak fairness of each run's own steps,
that is, an awaited call settles. The code itself does not enforce it: the
deadlines are optional and the production container sets none. Under that
assumption the code must do the rest; timers, cancels, updates and restarts are
not fair. `Heartbeat`'s `FairSpec` lets time pass and due timers run, which
Node's event loop does; the peer owes nothing. `AgentRound` assumes
`ToolFairness`: the executor's own promises settle and its timers fire; nothing
is asked of the network or the runner, so `ExecuteReturns` rests on the
executor's timeouts alone.

### What the models showed of the code

Two disagreements with a test or a comment are runs (`gateway_replay_gap`,
`chat_text`). The others are cases the properties had to name:

* A session closed under a run leaves the run's row `running`; a cancel in the
  last tool round ends in `failed` with `MAX_ITERATIONS`; a cancel while the
  model streams is lost when the stream ends without another chunk, because
  `loop.ts:160` looks at the abort once per chunk and the Anthropic adapter
  yields nothing at the end: the run completes (`OutcomeHasItsCause` promises
  nothing for that phase).
* A model deadline that fires at the end of a stream goes unnoticed; the Google
  adapter ends an aborted stream like a finished one (`CallsAreWhole` has
  `turn.cut`).
* The terminal event is emitted before the trace is persisted (`loop.ts:452`,
  `472`). The run row's `tokenUsage` is the last round's only, although
  `loop.ts:185` calls it the run's total; the metrics route derives the sum
  from the trace.
* The memory window may start with results whose calls it cut off
  (`ContextCorrelates`).
* The resolver's cache compares only the agent and its runner URL: an agent that
  ran without tools keeps its executor for no tools when it gets local ones
  (`tool-executor-resolver.ts:103`).
* A cancel over the socket before the run's first event finds no buffer and is
  dropped (`session-bridge.ts:230`; hence the `"live"` in `CancelFindsRun`). A
  socket that closes while its channel is acquired stays registered, and a
  refused subscribe keeps its count.
* A silent peer is cut off after half the timeout, where `heartbeat.ts:15`
  grants the full one.
* Two sockets of one guest can pass the message cap by one: it is checked
  before the await of `reserve` and counted after it. The money is not at risk
  (`EveryForwardIsReserved`).
* A React client that misses the terminal event while disconnected keeps
  `isStreaming` on; so does one whose message was refused while the session
  drained or a REST run held its lock, and one whose run failed in setup, since
  the sender's error frame is no event of the reducer. These are the exceptions
  of `IndicatorEnds` (`unanswered`). A connection that joins in the middle of a
  run may get any stretch of it, or nothing, as its replay.
* `wss://[::1]` passes as a public URL: its hostname is `[::1]`, and
  `config.ts:21` lists `::1` (`ServingIsSound` speaks of localhost only).
* Provisioning that is interrupted between its two files leaves a new key beside
  the `runner-env.json` of an earlier database, until it is run again
  (`BootstrapHandsOver`).
* A body that cannot be parsed is answered with 500 `INTERNAL`, since
  `error-handler.ts:32` knows only Fastify's schema errors (`UsersConverge` names
  it among the reasons for a 500).
* `AUTO_MIGRATE` migrates without the drift preflight, and unique constraints
  are outside the comparison (`DriftedIsNotMigrated` is about the job and about
  changes made before it started, `Unseen` contains the constraint).
* Concurrent first registrations of a name may answer 500; a failing query in
  an ownership check is reported as 404; a workspace whose owner's insert failed
  stays without one.

## 4. Proofs

Each theorem holds for every value of the constants the named assumptions
admit.

* `TypeCorrect` (`RunExecutionProofs`). `TypeOK` bounds the round counter and the
  tool-call rows, so it needs `RoundInv`: in a round the counter is below the
  limit, a batch that is saved is not empty, and a call in progress has a
  positive index.
* `Exclusion`, `NotWedged` (`RunExecutionProofs`). `StepShape` reduces every
  step to a few shapes with respect to control, lock, registry and run rows.
  `LockInv` (a run is in flight exactly while it holds its session's lock, and
  is then registered) is inductive over the shapes. Neither property is
  inductive alone: exclusion needs the equivalence with the lock, since a start
  only looks at the lock.
* `RowsAreFinal`. Needs `RowInv` (no row before the insert), because the insert
  is the one unconditional write.
* `Refinement`. `owner <- locks`, `row <- runRow`; each shape maps to an action
  of `RunLifecycle` or to a stutter.
* `HeartbeatSafe`, for every timeout of at least 2. `ClockInv`: both clocks run
  from the same ping, so `silence + pingIn = Interval` and the hard timeout
  stays a constant behind the next tick. The three properties do not mention
  the other clock and are not inductive without it.
* `EventAgreesWithRowHolds`, for any fault. `ReportInv`: nothing is reported
  before the exits of the loop and the row is `running` up to there, except
  that a terminal write may have taken effect unanswered; the event is then
  whatever the code of that exit and the row of that write are.
* `CauseRecordedHolds`, for any fault: no row says `cancelled` without a cancel
  accepted while it was running, nor `timed_out` without a deadline that fired.
  It is the part of `OutcomeHasItsCause` that needs no hypothesis. `CauseInv`
  follows the cause from the abort through the catch to the row.
* `OutcomeHasItsCauseHolds` assumes `Settling`: the insert and the read between
  row and loop answer, the catch's terminal write is not lost, no PATCH closes
  the session, and a round is permitted. Without any of these a run can drain
  with its row `running` (section 3), so the theorem is about the runs of
  `run_races`, whose constants satisfy it. `EarlyInv` carries the abort of a
  cancel accepted before the loop until the catch has classified it, and that
  of a cancel among tool calls to the head of the loop.
* `RecordsConsistentHolds` assumes `Recording`: the three best-effort writes of
  the exits take effect and neither an insert of a tool call nor a completion
  takes effect unanswered; `run_drains` satisfies it. `RecordInv`: a call in
  `started` is one the loop still has in `openToolCalls`, up to the write that
  closes them.
* `HistoryAnsweredHolds`, for any fault. `HistoryInv` says of each assistant
  message which of its calls are answered at each `pc`: all of earlier rounds,
  those before the call in progress of this one.
* `LedgerExact`, `ForwardsReserved`, `SettledStays` (`MediatorProofs`), from
  `LedgerAssumption` and `MediatorAssumption`. `StepShape` again: rows move on
  while no socket takes up a reservation, or one socket takes up a row charged
  in the same step, or a socket that holds one sends. `TotalIsAccepted` is
  inductive over the shapes with the types. `EveryForwardIsReserved` is not: a
  send adds a message without a row. `Covered` counts the sockets that hold a
  reservation with the messages sent, so that a send only moves one from the
  first to the second, and a lost answer or restart only makes the sum smaller.
* `RunsPaidOnce`. `TiesInv`: a reservation is in one place at a time (held by a
  socket, waiting in one guest's queue once, or taken by one run), a run that
  took one has been seen, and an attach call under way carries the same pair. A
  replayed `message_started` finds its run seen and takes nothing.
* `DeliveredInOrderHolds`, `ReplayCompletesHolds`, `CancelFindsRunHolds`,
  `SubscriptionFollowsSocketsHolds` (`GatewayProofs`), from
  `GatewayAssumption`. A step sways sockets without an event, lets one join
  with the replay, or broadcasts. The buffer is a prefix of the live run's
  events as long as no send was refused, each socket's events of a run are
  increasing and never ahead of `emitted`, and a connected socket is level with
  it: only the three together are inductive. The subscription needs the count of
  the commands on their way: `refCount` is the number of holders, and the last
  command in the queue decides what Redis will say.
* `OncePerEntryHolds`, `ResultIsTheCallsHolds`, `AbortStopsAttemptsHolds`
  (`AgentRoundProofs`), from `ToolCallsAssumption`, under the specification of
  the round. `CacheInv`: executions are paid for by what the cache forgot, with
  one on credit while it holds an entry, and it holds one entry of a call at
  most. `Backed` ties every answer in the network to an execution of its call.
* `CallsAreWholeHolds`, `ContextCorrelatesHolds`, `MetricsAreTheRunsHolds`
  (`AgentRoundProofs`), from `ModelTurnAssumption` and `TraceAssumption`, for any
  number of tokens, calls, fragments, runs and rounds. `CallsInv` follows a call
  from its first fragment to the batch: Anthropic's blocks are opened one after
  the other and its finish comes after all of them; OpenAI's calls are yielded
  by their rank among the opened ones (`Nth`), which is increasing and total
  (`RankExists`, `NthIs`). `HistoryInv`: a stored result stands as far behind its
  message as its call stands in it, and a call is open only in the batch in
  progress or in a run that stopped; so a window that keeps the call keeps its
  distance, and one that cuts it leaves results only at its front (`TrimIs`,
  `BuildIs`). `TraceInv`: there is one model span for each round begun and one
  tool span for each tool executed, the k-th model span has the tokens of the
  k-th round once it has ended, and `lastUsage` is of this round unless an
  Anthropic stream was cut; `TotalIs` sums them by their rank.
  `ModelTurnAssumption` says of the sessions to start from (`OldRows`) what the
  loop itself leaves behind between two runs: results follow their calls, and
  where a row of an older release has no tool name, the calls of its id are of
  one tool.
* `TenantIsolationHolds`, `UsersConvergeHolds`, `OnlyMembersManageKeysHolds`,
  `RegisteredRunnerAnswersHolds`, `OwnersArePermanent` (`ControlPlaneProofs`),
  from `WorldAssumption` and `FreshIds`. None of the properties is inductive:
  they speak of what a request has touched, not of what it is about to.
  `RequestOK` says for every `pc` what the request has established of its key,
  user, target and the rows it read; `RequestKept` shows that the writes of
  others cannot take it away, because every write `Grows` the tables. Every
  step of a request is then either an answer with rows it `MayTouch` or a move
  to a `pc` whose part of `RequestOK` it just checked (`StepKeeps`). For the
  runners, a registration is sent only by an app whose runner answered, and
  what an update takes from its read is a URL the table had.
* `OneConnectionHolds`, `IndicatorEndsHolds`, `SentInOrderHolds`
  (`ClientProofs`), for any number of runs, events and connections and any limit
  of the buffer. For the indicator, `StreamInv` says that the last frame of the
  log ends a run unless one is active, and that there is no buffer while none is
  streamed; `IndicatorInv`, that a connection which shows the indicator or has
  something to read, in a session that owes nothing more, still has the end of a
  run before it (`Ahead`): in what is left of its replay, or in what was
  broadcast since it joined. Where the replay starts and stops plays no part,
  because the broadcasts go on from the moment of joining (`CursorOK`). For the
  order, an open socket's queue is empty, so no message overtakes it
  (`OrderInv`); what a broken connection loses afterwards is outside the
  client's view.
* `CallsNeverReopenHolds`. What `DeriveToolCalls` makes of a longer feed is what
  it made of the shorter one, moved on (`DeriveAppend`, `SeeCallIs`), by least
  counterexample over the length of the feed (see below).
* `ServingIsSoundCorrect`, `BootstrapHandsOverCorrect` (`DeploymentProofs`),
  from `SnapshotAssumption` and `DeploymentAssumption`. `ServerInv` says for every `pc` of the boot
  what has been read and checked so far: which providers the configuration
  allows, that a server past `BootMigrates` has its journal's rows, that the
  pool stays open until the last request has ended. `ProvisionInv`: the
  attempt's workspace and key are in the tables by the `pc` at which they are
  used, and a workspace of this database is in `runner-env.json` only when the
  key of the file opens it; a leftover of an earlier one stays until `HandOver`.
* `CatalogIsWhatRowsSay`, from `JournalAssumption` too: every migration adds
  something and changes nothing that is there. It holds of the repository's
  own migrations (0001 to 0003 add a column, enum values, tables) and TLC
  evaluates it on the instance. `MigrationInv`: the catalog is `CatalogAfter(rows)`, and what a
  migrator has read as the last row is not ahead of it. A migrator whose reading
  is stale meets the first object of its first migration and rolls back
  (`AppliedOnce`), which is why two migrators need no lock.
* `DiffSchemasExact` and `CleanUnlessEdited`: `DiffSchemas` is empty exactly if
  the two schemas agree, and reading a catalog of the journal back through the
  six queries gives the projection of its snapshot, whatever types, enums,
  indexes and actions it declares. A later catalog differs from an earlier
  snapshot since each migration adds something.

Recursive functions (`DeriveToolCalls`, `Applied`, `TotalTokens`) are reasoned about without an
induction rule that takes an operator: a claim that fails for some length fails
for a least one (`LeastNumber`, from `WFMin` over the naturals), and one step of
the function refutes that.

Model-checked only, and why:

* Liveness (`AcceptedRunDrains`, `CancelSettles`, `TimersStop`,
  `ExecuteReturns`): needs fairness and `ENABLED`.
* `DriftedIsNotMigrated`, and `DriftIsWhatWasEdited` after a change by hand:
  they say which of the listed changes the comparison sees (`Unseen`, `Noted`),
  a fact about that list, which TLC decides by evaluating it.

## 5. Not modelled

* Signing and verification of tokens, the SSRF guard's address rules, parsing
  and formatting of frames: pure functions of strings, inputs to the models.
* The sliding window of the rate limiters: its answer is an input.
* The wiring of the container, HTTP shells, rendering components, the demo
  tools: they keep no state the properties speak of.
* `AgentEngine.run`, which only tests call.
* The scaffolder and the release scripts: one process that writes files or
  calls npm, once.
* The SDK client's other calls: one request each to routes `ControlPlane` has.

## 6. Plan

The plan is done: the components of section 1 are modelled as far as section 5
says, and every safety property of a run is proved or is listed in section 4
with the reason it is not. A change to the code starts at the `map` of
`PROJECT.json`: the definition that names its lines, the run that checks the
properties of its module, then the proof module.
