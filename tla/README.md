# TLA+ models of the mlchain plugin daemon

This directory holds TLA+ models of the concurrent and transactional parts
of the plugin daemon in `src/`, and the TLC configurations that check them.
`PROJECT.json` lists the components, the runs, the mutants and the findings,
the map from each definition to the Go lines it models, and the hazards.

## 1. The system

The daemon runs plugins for a host application. It installs them,
supervises their processes, routes invocations to them, and lets running
plugins call back into the host ("backwards invocation").

| Part | Source | State | Operations | Interacts with |
|---|---|---|---|---|
| Lifetime supervisor | `core/plugin_manager/lifetime.go` | failure count, `sync.Once`, the runtime's stopped flag, restart count | register, init-environment retry loop, launched/error notification, start/wait/restart loop, deferred Stop/Cleanup | the install driver, through `launchedChan` and `errChan` |
| Local install driver | `core/plugin_manager/install_to_local.go` | response stream, ticker, 240 s timer | save package, `launchLocal`, then a goroutine that `select`s over ticker, timer, `errChan` and `launchedChan` | the supervisor, through the two channels and `runtime.Stop()` |
| Installation metadata | `types/models/curd/atomic.go` | `plugin` rows (identifier, install type, Refers), `plugin_installation` rows, tool/agent/model installation rows | InstallPlugin, UninstallPlugin, UpgradePlugin | concurrent HTTP handlers; the database serialises transactions |
| Backwards invocation | `core/plugin_daemon/backwards_invocation/task.go` | per request: the response stream | parse, reject calls from model plugins, permission gate, asynchronous dispatch, end of response | the plugin session (not in src) and the host's inner API |
| Remote runtime | `core/plugin_manager/remote_manager/run.go` | `alive`, `lastActiveAt`, connection, shutdown channel | StartPlugin heartbeat, Stop, Wait | the debugging TCP server (not in src) |
| Serverless runtime | `core/plugin_manager/aws_manager/io.go`, `serverless.go` | listener map per session | Listen, Write (HTTP call and stream), lookup with cache | the serverless endpoint over HTTP |
| Endpoints | `service/endpoint.go`, `service/setup_endpoint.go` | endpoint rows, encrypted settings, cache | setup, update, remove, enable/disable, serve one request with a 240 s timeout | installation metadata and the runtimes |
| Invocation services, HTTP server, CLI, DB/cache setup | `service/invoke_*.go`, `server/`, `cmd/`, `db/`, `utils/` | none of their own | wrappers and routing | everything above |

These behaviours make the code hard to test:

- the supervisor and the install driver are two goroutines that talk over
  channels. Go's `select` picks a ready case at random, and the channel
  capacity is set in `launchLocal`, which is not in `src/`;
- a timeout can stop the runtime at any point of the supervisor's loops;
- InstallPlugin and UninstallPlugin read outside their transactions. The
  transactions of concurrent requests then interleave with those reads;
- an upgrade, then an uninstall, can leave rows in one table that no longer
  match another table;
- the endpoint handler and its streaming goroutine can outlive each other.

## 2. Modules

### Lifetime (`Lifetime.tla`, `MCLifetime.tla`)

`Lifetime.tla` models `fullDuplexLifecycle` (lifetime.go:16-117) together with
all of `InstallToLocal` (install_to_local.go:19-84).

- **Supervisor state.** `sup` is the supervisor's program counter. `failedTimes`
  and `onceDone` stand for the loop counter and the `sync.Once`. `stopped`
  and `procRunning` stand for `r.Stopped()` and the plugin process, and
  `restarts` for `AddRestarts`.
- **Supervisor actions.** Each action is one segment of straight-line code
  between two blocking points or two tests of `r.Stopped()`: `Register`,
  `LoopTop`, `SendErr`, `CloseChans`, `InitEnvironment`, `NotifyLaunched`,
  `RunLoopTop`, `StartPlugin`, `WaitAndRestart`, `Exit`.
- **InstallToLocal before its goroutine.** `PackageGet`, `SaveInstalled` and
  `LaunchLocal` are the three calls. Each may fail and return at once
  (`inst = "failed"`); nothing is undone. `saved` records that the installed
  bucket holds the package. The supervisor starts only once `launchLocal`
  has returned (`Launched`). The state space contains failed and timed-out
  installs whose package stays saved; neither the code nor spec.md says it
  should be removed.
- **Installer.** `inst` and `response` stand for the reporting goroutine and
  its stream. Each case of its `select` is an action: `InstallerTick`,
  `InstallerTimeout`, `InstallerRecvErr`, `InstallerLaunched`.
- **Channels.** `errChan` is a sequence `errBuf` of capacity `errCap`,
  plus a closed flag. `errCap` is chosen at Init from `ErrChanCaps` and
  never changes, so one run covers both builds of `launchLocal`. With capacity 0 the send is a rendezvous, which is the
  second disjunct of `InstallerRecvErr`. `launchedChan` is only ever closed,
  so it is a flag.
- **Runtime Stop.** This is `Stop` in the model. The local runtime's Stop is
  not in `src/`, so `Stop` is modelled from spec.md ("sets a flag, closes
  the underlying transport, and unblocks any blocked I/O"): the flag is set
  and the process running at that moment ends. It is not the remote
  runtime's Stop (run.go:20-26), which leaves `shutdownChan` open.
- **StartPlugin after a Stop.** The restart loop tests `Stopped()` at its
  head (lifetime.go:96) and calls `r.StartPlugin()` (line 98) without testing
  again, so `StartPlugin` may start a process although the runtime was
  stopped in between.
- **Environment.** `ProcessExit` lets the plugin process exit by itself.
- **Timers.** The 30 s and 5 s sleeps are left out: they only delay a step.
  The 240 s timer can fire at any time, because init attempts take unbounded
  time.

### Installation (`Installation.tla`, `TenantInstallations.tla`, `MCInstallation.tla`)

`Installation.tla` models the three functions of curd/atomic.go.

- **State.** `plugins` is a set of rows `[uid, type, refers]`.
  `installations` is a set of `[id, tenant, uid, type]`.
- **Capability tables.** The tool, agent-strategy and model tables are written
  under the same conditions, so they are folded into one count `caps[t][u]`
  of capability rows. `HasCapability` stands for `declaration.Tool != nil`.
- **Requests.** `req[w]` is the request that handler `w` is serving.
- **Install and Uninstall** are each two actions: the read outside the
  transaction (`InstallCheck`, `UninstallCheck`), and the transaction
  (`InstallTx`, `UninstallTx`).
- **Upgrade** is one transaction, `UpgradeTx`.
- **Transactions.** A transaction is one atomic step. The database serialises
  transactions that lock the same rows, and the model keeps every
  transaction's reads and writes together. A transaction whose closure
  returns an error changes nothing.
- **Choices among rows.** Where the code's `GetOne` can match several rows,
  the model picks any of them with `\E`.
- **Upgrade arguments.** Upgrade gets two different builds of one plugin
  (`UpgradeArgs`). The service layer that calls it is not in `src/`, and the
  function makes no sense otherwise.
- **What a tenant sees.** `TenantInstallations.tla` is the abstract
  specification: a tenant's set of installed builds, changed by `Install`
  (which replaces the tenant's build of the same plugin), `Upgrade` and
  `Uninstall`. The refinement mapping `TenantView` takes, for each tenant,
  the builds its installation rows name. Each transaction must be one
  abstract step of that tenant's set, and the checks outside the
  transactions must change nothing. With one runtime type, the
  `DeleteByCondition` of InstallPlugin (`InstallationsKept`) is what keeps
  one build per plugin per tenant.

### BackwardsInvocation (`BackwardsInvocation.tla`, `MCBackwardsInvocation.tla`)

`BackwardsInvocation.tla` models task.go: how one plugin session serves the
backwards invocations its plugin sends.

- **State.** Each request in `Requests` has a phase (`phase`), a parsed
  envelope (`req`: kind, access type, storage option, envelope shape), and a
  count of items the relay has read from the host (`chunks`), the relay's
  program counter (`relay`) and the bounded stream between the relay and
  the task (`buf`). `perms` is the plugin's permission
  matrix, chosen from `PermSets`. `wire` is the sequence of `[id, type]`
  messages written to the session, shared by all requests.
- **InvokeMlchain** (task.go:19-69) is one action:
  - a malformed envelope returns with nothing written;
  - a call from a model plugin gets an error;
  - a kind that is unknown or denied by `CheckPermission` gets an error and
    an end;
  - otherwise the request is submitted.
- **The worker.** `Dispatch` (task.go:247-287) and `CallHost`
  (task.go:289-458) model the asynchronous worker. `StreamChunk` and
  `StreamEnd` are the task's read loop over the host stream. `Finish` is the
  deferred end envelope. A unary kind's host call is `HostRequest`
  (`Request`, http_request.go:16-49): every failure of the call or of the
  response's checks is one error envelope, and anything else is one struct.
- **The relay** (mlchain_invocation/real/http_request.go, `StreamResponse`).
  A streaming host call that succeeds starts a relay goroutine
  (`StartRelay`). The relay copies the host's response into a bounded stream
  (`buf`, capacity `StreamCap`) that the task reads. `Relay` is the loop
  top: the host stream ends, or one item is read. `RelayWrite` writes the
  item and blocks while `buf` is full. An error item (a read error, an error
  field, nil data or a failed validation) is written, the loop breaks and
  the deferred Close runs (`relay` becomes `"closed"`). The task writes a
  `stream` envelope for each chunk. It returns with an error envelope on the
  first error, and with nothing more once the stream is closed and drained.
- **Gate.** `PermissionMapping` is the code's table (task.go:71-152).
  `RefAllowed` is the permission matrix of spec.md §3 and §4.3, and the property
  `GateMatchesReference` compares the two.
- **Abstracted away.** The host's payloads are left out; a chunk is only
  counted.

### Endpoints (`EndpointSetup.tla`, `EndpointInvoke.tla`, `EndpointService.tla`)

Three modules model the endpoint service: the endpoint rows, one webhook
request, and the two together.

**`EndpointSetup.tla`: the endpoint rows of one tenant's plugin.**

- **State.** `rows[e]` is an endpoint row `[enabled, settings]` or `NoRow`.
  `Empty` stands for the `{}` that SetupEndpoint stores first.
  `installed` stands for the tenant's plugin installation.
- **Operations.** Each database write and each host encrypt call is one
  step that may fail, and a call returns at its first failure:
  - SetupEndpoint: `SetupCheck`, `SetupInsert`, `SetupEncrypt`, `SetupUpdate`;
  - UpdateEndpoint: `UpdateGet`, `UpdatePrepare`, `UpdateWrite`, `UpdateClear`;
  - RemoveEndpoint: `RemoveGet`, `RemoveDelete`;
  - EnableEndpoint and DisableEndpoint: `SetEnabled`.
- **Encrypt calls that cannot fail.** `InvokeEncrypt` returns without
  calling the host unless the config has a secret-input field present in the
  data (`EncryptRequired`, http_request.go:148-163). So a call that passes no
  config never fails. RemoveEndpoint's cache-clearing call is such a call.
- **Ghost state.** `call[a]` records each caller's call. Its `before` field
  is a copy of the rows taken when the call began; it exists only for the
  properties.
- **Webhook request.** It is looked up by `App.EndpointHandler`
  (`HookLookup`). It is then checked against the installation and the row it
  read, and either rejected or invoked (`HookServeRejected`,
  `HookServeInvoked`).
- **Not in `src/`.** `install_service`, which writes the rows, is modelled as
  plain row updates by primary key (`SetSettings`).

**`EndpointInvoke.tla`: `service.Endpoint` after its checks.**

- **Handler.** The handler opens the session, invokes the plugin, submits
  the copying goroutine, and `select`s over `done`, the client's close and
  the 240 s timer.
- **Defers.** `Return` runs the deferred `close()`, `response.Close()` and
  `session.Close()`.
- **Done channel.** `CloseDone` is the compare-and-swap guarding
  `close(done)`.
- **Goroutine.** `StreamerNext` and `StreamerWrite` are the loop of the
  goroutine. A closed response stream still yields its buffered chunks.
- **Environment.** The plugin (`PluginChunk`, `PluginClose`) and the HTTP
  client (`ClientClose`) get no fairness.

**`EndpointService.tla`: the composition.** It instantiates both modules.
The webhook request's outcome in `EndpointSetup` is the branch
`service.Endpoint` takes:
- `HookServeRejected` happens together with `PrepareReturns`;
- `HookServeInvoked` happens together with `PrepareInvokes`.

Management calls, installation changes, the plugin and the client interleave
with the request.

### ServerlessIO (`ServerlessIO.tla`, `SessionListener.tla`, `MCServerlessIO.tla`)

`ServerlessIO` models `Listen` and `Write` of the serverless runtime
(aws_manager/io.go), one session at a time per element of `Sessions`:

- **State.** `listeners` is the key set of `r.listeners`. `lstate` and `out`
  are each session's broadcast: made or not, open or closed, and the
  messages it delivered. `wpc` is where that session's `Write` and its
  goroutine are. `alive` and `nread` are the scan loop's `sessionAlive` and
  the lines scanned so far.
- **Caller actions.** `Listen` stores a new broadcast. `Write` covers the
  lookup that drops the data when no listener exists, the `url.JoinPath`
  error path (ERROR, Close, return), and the submit of the goroutine.
  `http.NewRequestWithContext` cannot fail after `JoinPath` succeeded, so
  that path has no disjunct.
- **Goroutine actions.**
  - `Do` is `client.Do`; its error, the 240 s deadline included, sends an
    ERROR.
  - `Scan` and `ReadLine` are one turn of `for scanner.Scan() &&
    sessionAlive`. A line is one of `Lines`: a session event, data that
    does not parse, a codec error, an ignored line, or a line over 5 MiB.
    Body end and the deadline are further disjuncts.
  - `SendZero` is the zero `SessionMessage` sent after the parse-error
    ERROR.
  - `DeferSend`, `DeferClose` and `DeferDelete` are the three defers in the
    order Go runs them.
- **Broadcast.** `Send` models the broadcast: a send to a closed broadcast
  delivers nothing. The broadcast itself is not under `src/`, so `Send` is
  modelled from spec 4.11.

`SessionListener` is the abstract contract of a runtime's `Listen`/`Write`
pair, from spec 4.5 and 4.11. A session listens. An accepted write is
answered with any messages, then exactly one END. Then the listener is
closed and released from the registry, and END, close and release each
eventually happen (weak fairness). `ServerlessIO` instantiates it with a
refinement mapping:
- `AbsPhase` maps the goroutine's program counter onto the abstract phase.
  From acceptance to the END defer the session is `answering`; between END
  and Close it is `ended`.
- `registered` is mapped to `listeners`.
- `ImplementsSessionListener == Listener!Spec` is the checked property.

## 3. Runs

| Run | Config | Expect | What it shows |
|---|---|---|---|
| lifetime_supervisor | `MCLifetime.cfg` | pass | `errChan`'s capacity `errCap` is fixed at Init to 0 or 1. Unbuffered: `Installed` is reported only after a successful init (`UnbufferedReportMatchesInit`). Buffered: a runtime stopped while the supervisor registers or retries init (up to the restart loop's head) is always cleaned up (`BufferedInitStopLeadsToCleanup`). |
| lifetime_buffered_report | `MCLifetime_buffered_report.cfg` | violation | Capacity 1: `Installed` is reported after four failed inits. |
| lifetime_unbuffered_stuck | `MCLifetime_unbuffered_stuck.cfg` | violation | Capacity 0: after an installer timeout the supervisor blocks forever in `errChan <- err` and never cleans up (`InitStopLeadsToCleanup`). |
| installation_concurrent | `MCInstallation.cfg` | pass | Two handlers, two tenants, two builds, six requests: no installation loses its plugin row (`NoDanglingInstallation`). Each tenant's installed builds change only as `TenantInstallations` allows (`ImplementsTenantInstallations`). A mutant whose `DeleteByCondition` forgets the tenant is caught: another tenant's installation disappears. |
| installation_refers_race | `MCInstallation_RefersCountsInstallations.cfg` | violation | Two handlers: two concurrent installs by one tenant leave Refers one too high. |
| installation_upgrade_caps | `MCInstallation_CapabilitiesMatchInstallations.cfg` | violation | Upgrade leaves the tool installation on the old identifier. |
| backwards_session | `MCBackwardsInvocation.cfg` | pass | Two concurrent requests of one session, every kind, three permission matrices for the sessions. Each request gets at most one end envelope, and it comes last (`EndIsLastAndUnique`). No host call is made without permission (`NoUnpermittedHostCall`). The gate answers "ok", "denied" or "unsupported" as the spec's table says, for every kind, under the session's matrix and under 35 matrices that separate every flag (`GateMatchesReference`). Every accepted request is eventually ended (`AcceptedEventuallyEnded`). Every relay goroutine eventually returns (`RelayEventuallyReturns`); the mutant without the `break` after `WriteError` leaves one blocked on a full stream. |
| backwards_malformed | `MCBackwardsInvocation_RequestWithIdAnswered.cfg` | violation | A malformed envelope that carries its `backwards_request_id` gets no answer. |
| endpoint_service | `MCEndpointService.cfg` | pass | Composition of management calls and one webhook request. The session is always closed (`SessionEventuallyClosed`). The copying goroutine always ends (`StreamerEventuallyExits`). A call that reports success took effect (`SuccessMeansApplied`). |
| endpoint_write_after_return | `MCEndpointInvoke_write.cfg` | violation | The copying goroutine writes to `ctx.Writer` after the handler returned. |
| endpoint_setup_partial | `MCEndpointSetup_partial.cfg` | violation | SetupEndpoint returns an error after it created the endpoint row. |
| serverless_write | `MCServerlessIO.cfg` | pass | Two sessions each listen and write; the request goroutines scan bodies of up to three lines of every kind. `ServerlessIO` refines `SessionListener` (`ImplementsSessionListener`): every accepted Write ends with one END, then close, then removal from `r.listeners`. |

`TypeOK` is checked where a plausible bug in the code can break it:
`Lifetime` and `Installation`. The type invariants of the other modules
are kept in the modules for reading, but no run checks them.

Findings, as `PROJECT.json` records them:

- **The `errChan` capacity is wrong either way.** `launchLocal` is not in
  `src/`, so the model checks both capacities, and each has its own bug.
  - Capacity 0 leaks the supervisor goroutine: its deferred
    Stop/TriggerStop/Cleanup never run.
  - Capacity ≥ 1 lets the installer report a failed install as `Installed`.
- **The installation reference count can be too high.** The check outside the
  transaction in InstallPlugin lets two concurrent installs by one tenant
  through. Refers then counts one installation twice, and the plugin row is
  never deleted.
- **UpgradePlugin leaves stale rows.** It does not move the tool, agent and
  model installation rows to the new identifier. A later uninstall deletes by
  the new identifier, so the old rows stay.
- **A malformed backwards invocation is never answered.** When the envelope
  fails to parse, or has no type, no id or no request, `InvokeMlchain`
  returns before it has a handle. Nothing is written under the request's id,
  and the plugin waits for an answer. spec.md §4.4 says the error is written
  under that id and the request is ended.
- **The endpoint handler's goroutine outlives it.** The 240 s timer or the
  client closing the connection can end the `select`. The goroutine then
  goes on draining the response stream and writing to the gin context of a
  request that has already returned.
- **SetupEndpoint is not atomic.** It inserts an enabled row with `{}` before
  it encrypts the settings. When the encrypt call or the update fails, it
  reports an error and the row stays, serving webhook requests with empty
  settings. UpdateEndpoint reports an error when clearing the cache fails,
  after the new settings are already written.

These observations have no run of their own:

- **A stopped runtime can start its plugin again.** A Stop (the
  installer's timeout or error) that lands between the restart loop's test
  of `Stopped()` (lifetime.go:96) and `r.StartPlugin()` (line 98) does not
  prevent the start. The supervisor then waits on a process that the Stop,
  which came before it, never ended, and Cleanup waits with it. With the
  property `stopped ~> cleaned` in place of `InitStopLeadsToCleanup`, TLC
  shows this trace for either capacity of `errChan`. No run slot is left
  to record it as a violation run; `BufferedInitStopLeadsToCleanup` checks
  the stops that land before the loop's head.

- `encrypt`, which spec.md lists as a kind, has no entry in
  `permissionMapping` or in the dispatch table. A plugin's encrypt request is
  therefore refused as unsupported (task.go:71-245).
- RemoveEndpoint's cache-clearing call carries no config, so `InvokeEncrypt`
  never forwards it to the host (setup_endpoint.go:125).
- With `RuntimeTypes = {local, remote}` in `MCInstallation.cfg`, TLC
  reports `NoDanglingInstallation` violated. One tenant installs a build
  locally and another installs the same build remotely. The uninstall then
  locks the plugin row by identifier alone, decrements the other type's row
  and deletes it (atomic.go:196). No caller under `src/` shows which types
  reach these functions, so the run keeps one type.
- With `JoinPathFails = TRUE` in `MCServerlessIO.cfg`, TLC reports
  `ImplementsSessionListener` violated after one `Listen` and one `Write`.
  The listener gets an ERROR and is closed without END, and it is never
  deleted from `r.listeners` (io.go:34-45). The run keeps the Lambda URL
  valid so that its other paths are checked.
- The serverless scan loop diverges from spec 4.1 in three ways that the
  contract does not tell apart:
  - a line over 5 MiB ends the stream (io.go:96, 133);
  - data that does not parse is followed by a zero `SessionMessage`
    (io.go:117);
  - session events are forwarded whatever their `session_id`.

### Bounds

**Lifetime:**

- `MaxInitFailures = 5`, one more than the code's threshold of
  `failedTimes > 3`. The error-publishing `once.Do` and a later init retry
  therefore both happen.
- `MaxRestarts = 2`, so the restart loop goes round more than once.
- `MaxTicks = 1`: one heartbeat is enough to interleave with everything else.
- The bounds only guard the environment and retry steps. A stop can still
  happen at every point.

**Installation:**

- Two tenants, two builds `u1` and `u2` of one plugin, and one runtime type.
- Only `u1` declares a tool, so upgrades go both from and to a build with
  capabilities.
- `MaxRequests = 6`. With it the runs reach these sequences: an install by
  each tenant, an upgrade, an uninstall and a reinstall; and two racing
  installs followed by an upgrade and an uninstall.
- Two handlers. With three, the run has 2 million states and takes about
  100 s, too slow to check each mutant. Three-way races are left out.

**BackwardsInvocation:**

- Two requests, so two workers interleave their writes to the session.
- Every kind, both access types, and every envelope shape are inputs.
- The session's matrix is one of: all granted, none granted, and
  `{model, llm}`. These drive the host calls. The gate itself is checked
  apart from them over `GateMatrices`: all and none, each flag alone, each
  flag with `model`, and all but one flag. A kind checked against any
  other kind's flag gets a different answer under one of them.
- `MaxChunks = 3` and `StreamCap = 1` (the code's capacity is 1024). The
  relay then blocks on a full stream while it holds a second item, and a
  third item can follow an error. A relay that went on reading after an
  error would block for ever, and this bound lets the run show it.

**Endpoints:**

- One caller makes two management calls, enough for a setup followed by an
  update, a remove or a toggle. It works on one endpoint id with two
  settings values.
- Secret settings are on, so the encrypt calls can fail.
- A single caller makes `SuccessMeansApplied` meaningful: no other caller
  can undo a call between its write and its return.
- The response stream has capacity 1 and carries up to 3 chunks, so the
  plugin blocks on a full stream and a chunk is buffered when the timer
  fires.

**ServerlessIO:**

- Two sessions. Each may write before or after it listens, and both
  goroutines interleave on the shared `listeners` map.
- Response bodies have up to `MaxLines = 3` lines, each of any of the five
  kinds. That is enough for a parse error followed by a line that is read
  and dropped, and for a data line followed by an overlong line.
- One `Write` per session: the callers are not under `src/`.

### Fairness and deadlock

- **Fairness.** `Lifetime`'s `Spec` has weak fairness on the supervisor's and
  the installer's steps. Both are goroutines submitted to the routine pool,
  and the Go scheduler runs a runnable goroutine eventually. The plugin
  process and the environment get no fairness.
- **`Quiescent` disjuncts.** A state where the system has legitimately
  finished stutters through a `Quiescent` disjunct, so deadlock checking
  stays on. For `Lifetime` that is: the installer has answered, and the
  supervisor has exited or waits on a live process. For `Installation` it
  is: all requests are served.
- **Endpoint and backwards-invocation fairness.** The webhook request's
  gin handler, its copying goroutine, the backwards-invocation workers and
  the StreamResponse relays get weak fairness. Each is a goroutine of the
  routine pool. The 240 s timer is always ready, so the handler's
  `select` cannot wait forever.
- **Environment actions never stop.** In `EndpointService`, the tenant can
  always install or uninstall the plugin, so the composition never
  deadlocks. The liveness properties cover a stuck goroutine instead.
- **Serverless goroutines.** Each request goroutine of `ServerlessIO` has
  weak fairness, and the callers have none. The body ends because the 240 s
  context deadline bounds it; in the model, `MaxLines` bounds it.
- **Capacity-0 runs.** These say `CHECK_DEADLOCK FALSE`, because the blocked
  supervisor is the finding itself. The liveness run
  `lifetime_unbuffered_stuck` reports it.

## 4. Plan

Done so far:

- `Lifetime`, `Installation`, `BackwardsInvocation` and the endpoint modules;
- the two channel capacities of the supervisor, in one run with a rigid
  `errCap`;
- `ServerlessIO`, with its refinement of the abstract `SessionListener`;
- the `StreamResponse` relay, inside `BackwardsInvocation`;
- the refinement of `TenantInstallations` by `Installation`;
- the whole of `InstallToLocal` (its Get, Save and launchLocal prelude) in
  `Lifetime`, and the host `Request` and the encrypt short-circuit mapped
  to http_request.go.

Next, in order of what can go wrong:

1. A run slot for the `JoinPathFails = TRUE` leak in `ServerlessIO`, and
   one for two runtime types in `Installation` (the atomic.go:196 hazard),
   if runs can be merged the way the lifetime runs were. The checker's
   budget of runs is spent.
2. Several callers in `EndpointSetup`, once the row semantics of
   `install_service` (not in `src/`) are pinned down: an update racing a
   remove.
3. An abstract install outcome for `Lifetime` (`Installed` exactly when
   init succeeded). With a buffered `errChan` the refinement fails, as
   `lifetime_buffered_report` already shows, so the refinement would add
   no new finding until that is fixed.

## 5. Not modelled

- **Not in `src/`:** the session manager, the cluster coordinator (only its
  tests are in `src/`), the stream primitives and `launchLocal`.
- **Pure I/O or text:** the HTTP client to the host application, request
  binding in the controllers, the CLI, and Dockerfile generation.
- **Setup and storage:** database and cache setup, and the file buckets.
- **Read-only endpoint calls:** ListEndpoints and ListPluginEndpoints change
  no state.
- **Host-side state:** the host's credential cache, which the clear calls
  target.
- **The remote runtime (run.go):** its behaviour depends on code outside
  `src/`. The debugging server closes `shutdownChan`, and the session
  manager decides who calls `Stop`. A model of run.go alone would have to
  invent both. Two hazards from reading the code are listed without a property:
  - StartPlugin returns `exitError` before the heartbeat goroutine can set
    it, so `ErrPluginNotActive` never reaches the caller (run.go:56);
  - Stop does not close `shutdownChan`, so the heartbeat goroutine runs on
    until 60 s of silence (run.go:20).
- **The serverless lookup (serverless.go):** a read-through cache in front
  of one database row, with a 30 minute expiry. Nothing under `src/` writes
  `ServerlessRuntime` rows, invalidates the key, or calls the lookup, so the
  staleness it could cause has no writer to race with.
- **The HTTP client and request options (http_client.go, http_request.go):**
  these build requests, with no state of their own. `Request` appears only as
  its two outcomes (`HostRequest` in `BackwardsInvocation`), and
  `InvokeEncrypt` only as its short-circuit (`EncryptRequired`). The
  `StreamResponse` relay is modelled step by step.
