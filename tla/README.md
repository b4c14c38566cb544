# AIO Coding Hub: verification of the gateway

AIO Coding Hub is a desktop application (Tauri: a Rust backend under
`src-tauri/src`, a React front end under `src`) that runs a local HTTP gateway
in front of the coding CLIs (Claude Code, Codex, Gemini). A request that a CLI
sends to the gateway is routed to one of the upstream providers the user
configured; when a provider fails, the gateway retries, cools the provider down,
opens its circuit and goes on to the next one. This directory holds TLA+ modules
of that program, TLC runs over them, and proofs.

Paths below are relative to `src-tauri/src` unless they start at the root of the
repository. The *contract* is
`src/templates/markdown/spec/backend/gateway-proxy-contract.md`, the document that says
what the gateway promises.

## 1. The system

### Parts, their state, and what makes them correct

| Part | State | Operations | Hard behaviour | Correct when |
|---|---|---|---|---|
| **Circuit breaker** `shared/circuit_breaker.rs`, `types.rs` | configuration (`RwLock`), health map (`Mutex`): per provider Closed/Open/HalfOpen, failures of the last 5 minutes, successes while half-open, open-until, cooldown-until | `should_allow`, `record_success`, `record_failure`, `trigger_cooldown`, `reset`, `reset_many`, `update_config`, `snapshot` | the configuration, the clock, the health map and the persistence are read or changed under different locks, or none | it opens on enough recent failures only, closes after a probation only, keeps cooldowns, never locks a provider out for longer than configured, and leaves the open state again |
| **Circuit state persistence** `shared/circuit_breaker.rs` (backlog, flusher), `infra/provider_circuit_breakers.rs` (writer) | bounded channel, bounded backlog, a flag for the flusher task, the writer's batch, table rows | `try_persist`, `flush_persist_backlog`, `flush_persist_backlog_until_idle`, the writer loop, load at start | a full channel, eviction, lost wakeups, reordering, crash, busy database | limits hold, one flusher, the backlog empties, the newest state is the one written |
| **Session manager** `gateway/session_manager.rs` | bindings per (CLI, session): provider, sort mode, order, expiry | `get_bound_*`, `bind_sort_mode`, `bind_success`, `clear_bound_provider`, `clear_cli_bindings`, `list_active`, eviction | sliding expiry, a full table, two requests of one session | a conversation stays with its provider, mode and order; eviction takes the oldest |
| **Provider selection** `gateway/proxy/handler/provider_selection.rs`, `provider_order.rs`, `middleware/provider_resolution.rs` | the request's own | read the mode, the list, bind, reorder, force, rotate, gate | each step takes another lock or query; commands come in between | candidates are those of the list; order is cyclic |
| **Recent-error cache** `gateway/proxy/caches.rs`, `request_fingerprint.rs` | fingerprint to answer with expiry | lookup, insertion under two keys, clear | answers outlive what they say, and are found by requests that would see other providers | an answer from the cache is of the request's route and considered every provider of its list |
| **Route commands** `commands/sort_modes.rs`, `app/provider_service.rs`, `gateway/runtime.rs` | tables `providers`, `sort_mode_*` | enable, reorder, activate a mode, delete, reset a circuit | the write, the clearing of sessions, and of recent errors are apart | what follows a command follows its routes |
| **Provider router** `gateway/proxy/provider_router.rs` | none: views on the circuit | gate check, result recording, earliest availability | stale clocks, time of availability | results reach the circuit they belong to |
| **Failover loop** `gateway/proxy/handler/failover_loop` | attempts, failed ids, counters of one request | prepare, attempt, classify, retry / switch / abort, finalise | the bounds on tries, skips that are no gates, early returns | each provider at most its attempts, answer says what happened |
| **Request end and abort guard** `active_requests.rs`, `abort_guard.rs`, `request_end.rs`, `streams` | the registry of active requests, an armed guard | register, complete, abort, drop | handler, stream and drop race | one end per request |
| **Request log writer** `infra/request_logs.rs`, `proxy/logging.rs` | bounded channel, rows | placeholder, final row, reconciliation at start | full channel, late placeholder, restart | no row stays in progress, a final row stays |
| **Gateway lifecycle** `gateway/manager.rs`, `app/gateway_control.rs`, `app/lifecycle.rs` | running handle, tasks, port | start, stop, rebind, shutdown | commands overlap | at most one server, tasks stop with it |
| **OAuth refresh** `gateway/oauth` | token rows, refresh loop | refresh on demand, in the background | one single-use token, two refreshers, a login in between | the newest token is kept, a refresh replaces its own only |
| **Plugin pipeline and hosts** `gateway/plugins`, `app/plugins` | hook chains, host processes | run hooks, restart host | timeouts, disposals during calls, circuit per plugin | one caller per plugin, nobody ends a process that serves, a plugin is tried again |
| **CLI proxy, MCP, prompt sync** `infra/cli_proxy`, `mcp_sync.rs`, `prompt_sync.rs` | files of the CLIs, backups | enable, restore, rebind | crash between two files | the user's file comes back |

Settings, configuration import, workspaces and skills, the database schema, the
protocol bridge and response fixer, the watchdog, statistics, the platform
crates, the front end and its SDK are listed in `PROJECT.json` with the reason
why they are left out.

### How they interact

A request goes `session manager` -> `provider selection` -> `recent-error gate`
-> `failover loop`; the loop asks the `provider router` for each candidate, which
asks the `circuit breaker`; every result goes back to it, a success also to the
session manager, and "all providers unavailable" to the recent-error cache. The
breaker hands changed states to `persistence` after it released its lock.
Commands of the user interface change the routes in the database, then clear the
sessions, then the recent errors, and may reset circuits or reload the breaker's
configuration, while requests are in flight. All of it runs on a multi-threaded
runtime: everything between two locks, queries or awaits interleaves.

## 2. Modules

| Module | What it is |
|---|---|
| `CircuitHealth` | one health record and what each operation does to it under the lock: pure operators |
| `CircuitBreaker` | the breaker: calls, locks, reloads, restarts, over `CircuitHealth` |
| `CircuitPersist` | channel, backlog, flusher tasks, writer |
| `SessionTable` | the table of bindings and the orders of providers: pure operators |
| `SessionRouting` | requests from session to answer, and commands, over `SessionTable` |
| `Failover` | the failover loop of a request, from its candidates to its answer, and the provider router, over `CircuitHealth` |
| `RequestLog` | how a record gets into `request_logs`: tasks, channel, batches, write-through, reconciliation |
| `RequestEnd` | handler, guard, registry and streams: how a request ends, over `RequestLog` |
| `RequestLedger` | abstract: what the published ends and the rows promise together; `RequestEnd` implements it |
| `OAuthRefresh` | the loop, refreshes of requests, logins and the disconnect over one provider's row |
| `PluginHosts` | the registry of warm extension hosts, its gate, locks and processes |
| `HookPipeline` | the hook pipeline with its circuits, over `PluginHosts` |
| `CliProxy` | taking over the files of one CLI and giving them back, across failures and crashes |
| `..._proofs` | the inductive invariant and the theorems of a module |
| `MC...` | small instances and symmetry for TLC |

No module declares a RECURSIVE operator, so that each can be proved about.

### CircuitHealth and CircuitBreaker

A provider's `Health` is the record `ProviderHealth`; a failure is a second and the number
of its push, so that failures of one second count separately and the cap drops what was
pushed first, as the code's vector does (`Prune`). `Checked`, `Succeeded`, `Failed`,
`CooledDown`, `Rescheduled` are the bodies of the operations under the health lock, with
the pruning of the window and its cap.

In `CircuitBreaker` a call passes three steps. `Begin` is its caller's reading of the
clock and the operation's clone of the configuration; `ShouldAllow`, `RecordSuccess`,
`RecordFailure`, `TriggerCooldown`, `Reset` the section under the lock, whole; `Persist`
hands a changed row over afterwards, one at a time. The row is then on its `way`: channel,
backlog and writer, which `CircuitPersist` models one by one. Here `Write` takes any row
of the way to the database, or loses it, so that an older row can be the last one written,
also when calls follow one another. `update_config` is `BeginUpdate` (it reads the period
in force), `Configure` and `Reschedule`. A call may therefore act with a clock and a
configuration older than another's. `Restart` ends all calls, loses the way and loads the
rows that the database has, whichever these are. `reset` and `update_config` exclude each
other, as their callers hold the lock of the gateway state. `reset_many` is a sequence of
resets with no other effect.

`log` and `streak` are history variables: the failures since the last success or
reset and the successes since the circuit became half-open, kept independently
of the record the code keeps. The properties compare the code's decisions with
them.

### CircuitPersist

A state is a version number per provider. A worker in `try_persist` first moves
backlog to the channel (`FlushOne`, holding the backlog lock through its loop),
then sends its own item (`TrySend`), and if the channel is full puts it in the
backlog (`Enqueue`, which evicts at the limit), and makes sure a flusher runs
(`Schedule`). A flusher reserves a permit, pops, sends, and when it finds the
backlog empty lowers its flag, looks again, and takes the flag back or ends
(`Reserve` ... `Cas`). The writer collects a batch and writes it, keeping the last
item of each provider (`Commit`), or drops it when the database refuses
(`DropBatch`). `Crash` loses memory and keeps rows. `Sequential` names the
providers whose calls follow one another: the others swap freely. Two branches that no
call of the program takes are left out: who persists runs inside the tokio runtime, so
that `Handle::try_current` finds it, and the breaker itself holds a sender, so that the
channel closes only if the writer's thread panics.

### SessionTable and SessionRouting

The table is the part of one CLI. `Touched`, `ModeBound`, `SuccessBound`,
`ProviderCleared`, `Roomy` (what making room can leave; ties of expiry are broken
by a hash map's order, so it is a set) and `DropExpired` are the operations of
`SessionManager`; `Reordered`, `Preferred`, `NextFrom` those of
`provider_order.rs`.

In `SessionRouting` each action of a request is one lock, query or await of
`select_providers_with_session_binding` and what follows it; the clock a request
uses is the one it read at its start. The failover loop is one of three steps:
`Succeed` (which binds), `Fail`, `Unavailable`; the last one reads the clock,
awaits the log, and only then puts its answer in the cache (`InsertError`), with the
providers it considered (its candidates, and a bound one its gate refused) and the one
it was forced to, which the properties read and the code does not keep. A
command is `Edit`, then `ClearSessions`, then `ClearErrors`. The circuit is the
set `denied`, which flips at any time. `crossed` marks requests, bindings and
answers that overlapped a command: a property that speaks of them says so.

### Failover

A request carries what `FailoverRunState`, `IterationCounters` and the retry loop
keep: the candidates left (`rest`), the places used (`tried`), the attempt on the
current provider (`retry`), the repairs it used, its record of attempts, whether a
call left an error code (`coded`, the code's `last_outcome`), and the earliest
time of availability. An attempt is kept as what the terminal decision tells
apart: a gate's skip (`circuit`, `limit`), another `skip`, or `failed`.

`Gate`, `Limited`, `Skip` and `Prepare` are the outcomes of `prepare_provider`.
`Send` starts a call; `Blocked`, `AuthFails` and `UrlFails` end one before it is
sent. What comes back is `RepairAndRetry` (token refresh, bearer fallback, a Codex
continuation taken out: the three that leave no attempt), `Fail` with one of the
`Faults`, `Fake200`, `Succeed` or `StartStream`, and `EndStream` later. `Finish` is
the end of the loop. A step runs from one await to the next; a system failure
awaits its log between the recording and the cooldown, so that it is two steps
(`FailWith`, `CoolDown`), while a failure by status records and cools down in one.
What the upstream answers is any of these at any time. The providers' health is
shared, and changed by the operators of `CircuitHealth` alone; requests of the
same model meet there. The kinds of requests are those the loop treats apart:
`count_tokens` (no blame, no retry, one provider), health-neutral and strict
(model discovery), and what repairs a request is open to. `called`, `opened` and
`cleared` are history.

### RequestLog, RequestEnd and RequestLedger

A request is a handler until its loop has an answer, then what carries the answer: the
`tee` of an event stream, a buffered `body`, or the `relay` of a Codex stream, which
becomes a `drain` when its client leaves. `Enter` arms the guard and enters the registry
before the first await; `Answer` states the end (registry entry out, event published) and
`Log` waits for the record's place and disarms the guard. `HookEnds` is the response.after
hook that blocks or fails: the request is `unended`, with nobody left to end it. `Cancel`
drops the future at any await: the guard, if armed, ends the request as aborted. `Chunk`,
`Upstream...` and `Client...` are what a stream sees and what it concludes; a tee or a
body whose client leaves is dropped, and aborted but for a Codex body that has shown its
usage (`DropVerdict`). A record goes through a task (`Spawn`), or waits (`Deliver`), to
the channel or past it; the writer's batches can be refused. `StopGateway` stops
accepting, `ReconcileStopped` turns pending rows into interrupted ones, `Restart` does
both for the rows of a dead process. `RequestLedger` has two actions, `Publish` and
`Write`; the refinement maps `ended` and `rows` to themselves (`INSTANCE ... WITH`) and
hides the rest.

### OAuthRefresh

`ListDue` (the loop, of an enabled provider) and `StartRefresh` (requests and commands,
which do not mind a disabled one) read the row, `Answer` and `Refused` are the server's
side of the call (an answer may be lost on its way back), `Persist` and `Conflict` the two
outcomes of `update_oauth_tokens_if_last_refreshed_matches`, `Report` the error the loop
writes down. A stamp is a second; `SetClock` sets the wall clock forward or back.
`BeginLogin`, `CancelLogin`, `FinishLogin` follow `ACTIVE_FLOW`; `FinishLogin` stamps the
row with the clock as it is. A login that fails after that, because the limits cannot be
cleared, has written its row all the same and has nothing more to do: it is the same step.
The row may start as an import left it, with or without the `token_uri` and the
`client_id` (`has`) that the loop asks for; `Unresolved` is the loop that finds no adapter
for the provider's type. `SetEnabled` switches the provider. `rotates`, chosen at the
start, says whether the server takes a refresh token once.

### PluginHosts and HookPipeline

A call enters the gate, takes the plugin's lock from the map (`LockFor`), asks the warm
process of its key (`Use`) or makes room (`Evict`, `Dispose`) and starts one
(`StartHost`), and gets an `Answer`, reads another's (`Misanswer`) or finds it dead.
`DisposePlugin` and `TakeGate` are the two ways to dispose: with the plugin's lock, or
with the whole gate. A process ends with its last handle, an `Arc`, so that who drops it
is part of the state (`dropping`). In `HookPipeline` a request runs the snapshot it took,
skips plugins by their circuit (`Check`), and records each result (`Record`) unless
its client leaves: `Accept`, which may block the request, or `Reject`, when the call failed
or its result makes changes the plugin may not make. A refused result counts against the
plugin like a failure, and a refused change of the headers ends the request whatever the
plugin's failure policy. One registry stands for the two of the application: each of them
has fewer interleavings.

### CliProxy

A file is its managed part and the rest (`other`, a counter of the user's edits), which is
what the merges tell apart. A call reads the manifest (`Read`) and walks the files: backup,
build and apply, or restore, each file and the manifest one step, any of which may fail
(`MayFail`) or be the last before a crash. The window's switch and the application's own
work are two slots that interleave as the lifecycle lock lets them: a disable, the exit
and the repair do not take it. `Retarget` is a port changed while the gateway is down, which
moves the address in the manifest and touches no file; `Stop` also stands for a stop of a
gateway that is down and for a start that fails; a `Disable` may be asked twice. A start
of the process (`Reboot`) repairs, or does not when the setting is off, or restores
when the settings cannot be read; the history variable `unrepaired` remembers a start that
left a torn enable as it was, after which `DirectKept` and `OffIsDirect` claim nothing.
`Choose` and `Edit` are the user's own changes to a file.

## 3. Runs

`LastFailure`, `MaxTime`, `MaxOnTheWay`, `MaxVersion`, `MaxClock`, `MaxEdits`,
`MaxStarts`, `MaxRestarts`, `MaxCrashes`, `MaxFaults`, `MaxChanges`, `MaxLogins`,
`MaxGen`, `MaxHosts`, `MaxLocks` are bounds of the models; everything else in a `.cfg` is
a parameter of the code at a small value.

| Run | Bounds | What it shows |
|---|---|---|
| `CircuitRace` | 1 provider, 2 calls, 2 configurations (short and lenient, long and strict), window 2, clock from 2 to 5 | `TypeOK`, `LockoutBounded`, `OpensOnRecentFailures`, `ClosesOnlyAfterProbation`, `CooldownKept` with two calls interleaved at every unlock. One provider is enough: the operations on different providers touch different records. No row reaches the database here |
| `CircuitRestart` | 1 provider, 1 call, the same configurations, clock from 2 to 4, 2 rows on their way, a restart | rows overtake one another or are lost, and a restart reads what it finds: open periods and counts belong to the state they came with (`CircuitShape`), and while gate checks keep coming an open circuit is left (`OpenCircuitIsLeft`) |
| `PersistRace` | 2 providers, two states of one, whose calls are in sequence, and one of the other, clock to 2, 2 workers, 3 flushers, channel 1, backlog 1, batch 2, a refused batch, a crash | limits (`TypeOK`), one flusher and no lost wakeup (`OneFlusherAttends`), the newest state is written, in hand, evicted or refused (`NewestIsWritten`), the backlog empties (`BacklogDrains`). Three slots for tasks that live at once: one in its loop and two that still look again; a backlog of 1 evicts |
| `RoutingSerial` | 1 request at a time, 3 sessions, 3 providers, 2 routes, 1 command, room for two bindings, lifetime of a binding 2, clock to 1 | both ways to make room keep the table's bound (`TypeOK`); who the candidates are and in what order (`CandidatesInRouteOrder`, `LastServerFirst`). Three sessions on two places make one of them go |
| `RoutingRace` | 2 requests, of one session or forcing their provider, 2 providers, 1 command, a reset, a circuit that flips | bindings and cached answers follow the routes: `RoutesFollowed`, and `CachedAnswerIsCurrent`, which excepts what a request that overlapped a command and what a forced request cached |
| `RoutingStaleError` | the same, requests without a session | *violation* of `NextRequestReachesFailover`, see findings |
| `FailoverRace` | 2 requests of 3 kinds, 2 providers, one with a token, 1 configured attempt, threshold 2, open period 2, cooldown 1, clock to 2, 2 starts | `NoCallAfterOpen`, `AnswerFitsCalls`, `RetryAfterNotLate`. One configured attempt with a threshold of 2 keeps the two limits on retries apart; the token and a Codex continuation make the third attempt that repairs need |
| `RequestEnds` | 2 requests, a channel of 1, batches of 2, 1 waiting task, 1 write past the channel | nothing of a request is forgotten, but of one that a response.after hook ended (`NothingForgotten`); handler, guard, streams, writer and reconciliation together implement `RequestLedger` (`KeepsLedger`); a published end reaches the table or is dropped (`EndIsWritten`). The second request fills channel and permits |
| `OAuthRace` | 2 refreshes at once, 2 attempts each, 2 seconds, an import and 2 logins, 2 answers of the server per login, a switch, a server that rotates or not | `NewestTokenKept`, `RefreshReplacesItsOwn`, `LastLoginWins`, `DueIsHandled`. Two seconds are enough for two writes of one second and for a clock that is set back |
| `CliProxyRace` | 2 files (Codex's `config.toml`, `auth.json`), of which the user may lack the first, 2 addresses, 2 keys of the user, 1 edit or choice, one failing access to a file, a crash, starts that repair, restore or do neither | `DirectKept`, `OffIsDirect`, `RestKept`, `OnIsApplied`. Keys in every file, one failure and no disable within a sync are what the first two need, see section 4 and the findings; the theorems cover any number of edits |
| `ProxyReenable` | the same with 2 edits, and only the last write of an enable failing | *violation* of `DirectKept`, see findings |
| `HooksRace` | 2 requests, 2 plugins (the first ends the request when it fails), a map of 1 warm process, 2 versions, threshold 1, 1 failure or leaving client, 1 replacement, disposal or retain | `PluginExclusive`, `ServedUndisturbed`, `CallsEnd`, `TriedAgain`. Two plugins on one place evict each other |

Times in the cfgs keep the order of the code's constants, not their size: a window
of 2 with a clock to 5 and failures from 2 to 5 has failures inside the window, on its edge
(one at 2, counted at 4) and outside (at 5); a cooldown is no longer than an open period.
A cap of 4 stored failures is above the thresholds of 1 and 2, as the code's 256 is above
its default of 5. Two successes close a half-open circuit in the runs, three in the code:
one success must not be enough in either. In `RoutingRace` the clock stands, and in
`RoutingSerial` it ends before a binding's lifetime does: there it makes one binding older
than another, and no binding expires in a run. The theorems cover those that do.
Deadlock is not checked where the clock and the counters stop at their bounds, and an
idle gateway may stay idle; it is checked of refreshes, plugin hosts and CLI files.

**Fairness.** In `CircuitBreaker!Fairness` the clock runs, a call that began finishes, and
a call that is free again and again is used for a gate check of each provider: this is the
assumption that requests keep coming, under which alone the code moves an open circuit on
(nothing polls it). In `CircuitPersist!Fairness` threads and tasks that can run do run; no
state change and no crash is assumed, so `BacklogDrains` says what the test
`persist_backlog_flushes_in_background_without_future_state_changes` means by "should not
require another circuit update" (`circuit_breaker/tests.rs:312-337`). In
`RequestEnd!Fairness` the waits that the code bounds by a timeout end, and the writer's
threads run; nothing is assumed of upstreams or clients. In `OAuthRefresh!Fairness` the
loop polls, and whatever a refresh waits for is answered, refused or times out (weak
fairness of `ListDue`, `Answer`, `Refused` and `Conflict` as one); the database takes a
write that is tried again and again, hence the strong fairness of `Persist` and `Report`.
In `CliProxy!Fairness` a call that began goes on, and the exit ends. In
`HookPipeline!Fairness` calls end by their timeouts and time passes; the gate and the
mutexes are fair to their waiters (tokio's are queues), hence the strong fairness of
`Enter`, `Acquire` and `Remove`; and requests keep coming.

**Mutants.** Each property of a passing run has a mutant in `PROJECT.json`: a
definition named `<Def>_<What>` that stands just before `<Def>` and changes it as
a plausible bug would; the property fails with it.

## 4. Proofs

Each theorem holds for every value of the constants, the bounds included, under the
named assumptions of the modules: limits are numbers, and positive where the code has
them so; no value doubles as `None`; a request's candidates are distinct, as the rows of
a route are keyed by their provider (`infra/db/migrations/baseline_v25.rs:220`). Each
property below is proved from an inductive invariant, `IInv` in its module; the lemmas
are one per action or group of actions.

| Module | Theorem | Says |
|---|---|---|
| `CircuitBreaker_proofs` | `TypeCorrect`, `ShapeCorrect`, `LockoutIsBounded`, `OpeningCorrect`, `ClosingCorrect`, `CooldownCorrect` | `TypeOK`, `CircuitShape`, `LockoutBounded`, `OpensOnRecentFailures`, `ClosesOnlyAfterProbation`, `CooldownKept` |
| `CircuitPersist_proofs` | `PersistTypes`, `NoWakeupLost`, `NewestNotPassedOver` | `TypeOK`, `OneFlusherAttends`, `NewestIsWritten` |
| `SessionRouting_proofs` | `TypesCorrect`, `RouteOrderKept`, `BoundToLastServer`, `BindingsFollowRoutes`, `CacheFollowsRoutes`; with one slot for requests: `LastServerIsFirst` | `TypeOK`, `CandidatesInRouteOrder`, its own `ServedLast`, `RoutesFollowed`, `CachedAnswerIsCurrent`; `LastServerFirst` |
| `Failover_proofs` | `LoopTypes`, `OpenEndsCalls`, `NamedTimeHolds`, `AnswerFitsTheCalls` | `TypeOK`, `NoCallAfterOpen`, `RetryAfterNotLate`, `AnswerFitsCalls` |
| `RequestEnd_proofs` | `EndTypes`, `NeverForgotten`, `ImplementsLedger` | `TypeOK`, `NothingForgotten` (for all but the requests a response.after hook ended), `KeepsLedger` (the refinement) |
| `OAuthRefresh_proofs` | `RefreshTypes`, `NewestNotGivenUp`, `ReplacesItsOwn`, `NewestLoginWins` | `TypeOK`, `NewestTokenKept`, `RefreshReplacesItsOwn`, `LastLoginWins` |
| `HookPipeline_proofs` | `HostTypes`, `OneCallerPerPlugin`, `NotEndedByOthers` | `TypeOK`, `PluginExclusive`, `ServedUndisturbed` |
| `CliProxy_proofs` | `TypesCorrect`, `RestIsTheUsers`; under `Repairable`: `ConfigurationKept`, `OffMeansDirect` | `TypeOK`, `RestKept`; `DirectKept`, `OffIsDirect` |

The arguments:

* **Circuit breaker.** `LockoutBounded` needs that a call's clock and the `updated_at` of
  every record and row are in the past, also in rows on their way and in the database (a
  restart loads them, and a reload recomputes an open period from `updated_at`): that is
  `Good`, kept by `AllGood`. It is a fact of each row and not of their order, so that rows
  which overtake one another or are lost do no harm to it. `OpensOnRecentFailures` needs
  that what the record counts are failures of the history (`LogCovers`),
  `ClosesOnlyAfterProbation` that the half-open count is that of the history
  (`StreakCounts`).
* **Persistence.** A flusher that looks again counts as attending, because it looks
  after it lowered the flag. For `NewestIsWritten`: no item is newer than its provider's
  state, what a worker carries for a sequential provider is its newest
  (`VersionsKnown`), and every step that takes an item away leaves one as new
  (`ItemsShrink`). That a batch's last item of a provider is its newest needs the
  greatest index of a nonempty set of indices, proved by well-founded induction.
* **Routing.** What a request under way that is not crossed has read is in force
  (`RequestsOnRoute`), because it overlaps no command (`AloneNow`); therefore what it binds
  or caches is too, until the next command clears it (`BindingsFollow`, `EntriesFollow`).
  The order of the candidates needs what the list operators do to a list of any length:
  `Kept`, which filters, is a recursive function, so that its members, its order and its
  length can be had by induction on the length (`UpTo`, from the least counterexample);
  `Reordered` permutes, `RotatedTo` puts its provider first, and both keep the providers
  distinct. `TInv` adds to `TypeOK`, for each request, whose candidates it has by the step
  it is at (`Routed`); eviction keeps the bound because a quarter, or one, goes before one
  is added. Whatever overlaps, a binding names the server of its session's last success
  or nobody (`ServedLast`). For `LastServerFirst`, `LInv` adds that what a request put first
  is still what the table names (`Agrees`). Its hypothesis of one slot is needed: of two
  requests of a session, one may read the binding before the other binds.
* **Failover.** `Bars(h, e)` says that a health denies a provider until `e`. A health only
  becomes stricter but for a success (`Stricter`), so whoever was denied stays barred until
  the time a request would name (`Waits`); `Sound` has the budget and the circuits a
  request saw open. `AnswerFitsCalls` needs an account of each request (`Account`): every
  candidate was tried, was skipped or is left (`Listed`), the places used up are of
  providers that were tried, and a provider that was called has failed on the record when
  the next one's turn comes. The last holds because each attempt without a record is one
  of the repairs, and the budget has one for each (`Repaired`, `RepairHasAttempt`).
* **Request end.** The record of an end says what was published last and belongs to a
  request that is done (`RecordKnown`), a row too (`RowKnown`), a request in the hands of
  its handler has no end (`EndsKnown`), and the guard is armed before the first await
  (`Guarded`). A request that a response.after hook ended keeps its entry and its pending
  row: the model has that step, and `NothingForgotten` leaves it out, because the code does
  forget it (see findings). Each step of the model is then a `Publish`, a `Write` or a stutter.
* **OAuth.** Between two logins the stamp of the row tells its tokens from those that were
  read before (`StampTells`): a refresh advances it, even within a second. With a rotating
  server one refresh at most holds the newest answer (`OneHolder`), and the row is no older
  than what anybody read (`RowIsNewest`): so the holder meets no conflict but a login's.
* **Plugin hosts.** A call inside the gate has the lock the map has for its plugin
  (`LockKept`), its process is of its key and serves it alone (`HostKept`, `MapKept`,
  `ServesOne`), a disposal holds the lock or the whole gate (`AdminKept`).
* **CLI files.** `Base` holds of any files and failures, also where a disable overlaps with
  a sync: who holds the lock (`LockKept`), that whoever walks the files has the entries of
  the manifest on disk (`EntriesAgree`), that what is marked as copied has a copy, and that
  what is about to be written has the rest of the file it replaces (`BuiltKept`). `Kept`
  adds the user's configuration: a file is the user's, or it is proxied by a manifest that
  is on, by an enable half way, or by one that died and that the repair will know
  (`FilesKept`); the manifest can bring every file back while it is on, while files are
  walked and while the repair has a torn enable before it (`CopiesKept`). It needs
  `Repairable`: at most two files, as `target_files` has (`mod.rs:261-295`); with two of
  them, a user's API key in the second one, or else the repair does not see the enable
  that died after the first (`codex.rs:801-808`); no failing last write of a manifest; no
  second failure while a failed enable takes its files back; no disable within a sync or a
  retarget, which the code allows, as a disable takes no lock. Each of the last four is
  there because the property fails without it, see findings. Starts that do not repair are
  steps of the model, but once one left a torn enable (`unrepaired`) the two properties
  claim nothing: `Held` is the invariant until then, `NotedForGood` that there is no way
  back.

Every invariant and action property that a passing run checks is proved. Only
model-checked: what holds under fairness (`OpenCircuitIsLeft`, `BacklogDrains`,
`EndIsWritten`, `DueIsHandled`, `OnIsApplied`, `CallsEnd`, `TriedAgain`), which is out of
the prover's reach.

## 5. Findings

Each is a violation run; its counterexample is a run of the code's own steps.

* **A cached answer can outlive the clear** (`RoutingStaleError`). A request caches
  "all providers unavailable" after it awaited its log (`response/finalize.rs:155-183`); a
  command that cleared the cache in between is undone, and the next request is
  refused although a provider was enabled (contract, line 140).
* **An enable whose last write fails loses the user's configuration**
  (`ProxyReenable`). The files are taken over before the manifest is marked
  (`infra/cli_proxy/mod.rs:973-985`); when that write fails they stay proxied with the
  manifest off, and the next enable of the session copies them over the backup
  (928-944), which the comment at 947 means to exclude.

Seen while modelling, without a run of their own. Circuits and routing:

* An older circuit state can be the last one written: while an item is in the backlog
  or in the flusher's hand, a newer state of its provider finds room in the channel and
  overtakes it (`shared/circuit_breaker.rs:577`); the upsert has no guard on `updated_at`
  (`infra/provider_circuit_breakers.rs:223`). It takes no two calls at once: calls that
  follow one another do it, and a full backlog or a refused batch drops rows, so that
  nothing is claimed of what the database holds when all is quiet.
* `record_failure` clones the configuration before it takes the health lock
  (`shared/circuit_breaker.rs:356`). When a reload runs in between, the circuit opens
  with the replaced duration, and nothing recomputes it until the next reload.
  `LockoutBounded`, which is proved, says how bad that can get.
* A refused bound provider leaves "no enabled provider":
  `resolve_session_bound_provider_id` drops it from the candidates
  (`provider_selection.rs:142-146`); when it was the only one the client is told that none
  is enabled (`provider_resolution.rs:105`), where the contract (line 290) asks for
  `GW_ALL_PROVIDERS_UNAVAILABLE`.
* A request in flight across a command can bind the old mode and order again after the
  sessions were cleared: that is what `crossed` excepts in `RoutesFollowed`.
* An "unavailable" answer of a request that forces one provider is cached under the
  key of its route, where requests that force none find it. `CachedAnswerIsCurrent`
  excepts such answers; `RoutingRace` has them.

Failover:

* "All upstream calls failed" without a call: a candidate that is skipped for its
  credential, its address or its translation, or whose token cannot be put into a header,
  leaves an attempt that is no gate skip; the loop ends with `GW_UPSTREAM_ALL_FAILED`
  (`response/finalize.rs:231-233`), which the contract (lines 291-292) reserves for
  requests that called an upstream.
* A model discovery has one attempt. A 401 that refreshes the token uses it up and
  leaves no attempt in the record, so the client is told that no provider was
  available after one was called. A bridged provider whose source logs in with a
  token can do the same, as its budget does not count the refresh. Both are the
  exceptions of `AnswerFitsCalls`.
* Errors of a body are retried up to the configured attempts
  (`success_non_stream.rs:635`), other errors up to the larger budget of
  `provider_max_attempts_for_request`.
* A failed `count_tokens` call leaves the circuit alone, but a successful one clears
  its failures, and one whose body is an error or whose stream breaks counts.
* The gate names `cooldown_until` before `open_until` as the time of availability
  (`provider_router.rs:71`), the record of the same skip the other way round
  (`loop_helpers.rs:75`): retry-after may be too early, and is never too late
  (`RetryAfterNotLate`).

Ends of requests:

* A response.after hook that blocks the response, or fails, ends its request without an
  end: the guard is disarmed and the error returned (`success_non_stream.rs:1071-1112`),
  with no event, no final row, and the registry's entry left until the gateway stops. The
  row stays in progress until a stop or a start reconciles it. The contract (lines
  436-441) knows a lost final write as the one way to such a row. `HookEnds` is the step.
* A plugin that blocks an attempt returns with the guard armed
  (`attempt/retry_engine.rs:91`): the client gets a 403, the log says that it aborted.
* A client that leaves while the handler waits for its record's place publishes a second
  end, "aborted"; the row then says that (`Publish` in `RequestLedger` allows it).
* A refusal that awaits its record (`early_error.rs:240`) has no guard: a client that
  leaves there takes the record with it.
* When the upstream ends while a relay drains for a client that left, the request is
  finalized as a success before the drain's own verdict is asked
  (`streams/usage_tee.rs:236`, against the comment at 44-45).

OAuth:

* A login stamps the row with the second it is written in and does not advance it
  (`domain/providers/queries.rs:1809`): a refresh that began before it in the same second
  writes over the login's tokens. The compare-and-set of a refresh advances
  (`queries.rs:1865`), so that `RefreshReplacesItsOwn` holds between refreshes.
* The loop reports an error on whatever the row holds by then (`refresh_loop.rs:319`): a
  login of the meantime carries the error of the tokens it replaced.
* Imported tokens without a `token_uri` or a `client_id` are skipped by the loop in every
  round with a warning (`refresh_loop.rs:142-158`): they are neither refreshed nor marked.
  `DueIsHandled` leaves them out; the model has them.
* A login that fails because the limits cannot be cleared has written its tokens before
  (`commands/providers/oauth.rs:371`), and stays current with its code spent
  (`gateway/oauth/mod.rs:91-95`).
* A manual refresh persists an empty access token, which the loop and requests refuse.

CLI files:

* A disable takes no lifecycle lock. A sync that overlaps it proxies a file after it was
  restored; with `MeetsSync = TRUE` the model breaks `OffIsDirect`, whose words are the
  success message (`infra/cli_proxy/mod.rs:1040`), and then `DirectKept`, when the next
  enable backs that file up.
* The repair at start-up knows a torn enable by an API key in `auth.json`
  (`codex.rs:801-808`). A user who logs in with ChatGPT has none, or no such file: when
  the process dies after `config.toml` was written, the repair does not see it, the file
  keeps pointing at a gateway whose proxy is off, and the next enable takes it for the
  user's. With `Keys` smaller than `Direct`, or `MayLack = {2}`, TLC finds this in the
  model; the run has neither.
* When taking back a failed enable fails too, its error is dropped (`mod.rs:1008`) and the
  manifest is marked off with files proxied: `MaxFaults = 2` shows it.
* A start that does not repair, because the setting is off or the settings cannot be read
  (`app/startup_settings.rs:22-36`), or whose repair cannot read the manifest, leaves a torn
  enable: the files stay proxied with the manifest off, and the next enable copies them
  over the user's. `unrepaired` is where the two properties stop.
* The repair at start-up switches a proxy on that was being switched off when the process
  died.
* An edit the user makes of a managed key while the proxy is on is lost at the next sync;
  a disable of a manifest that is off merges its backup once more, over what
  the user chose since; the model has such a disable only while the copies are still what
  the user chose.
* Enabling one CLI starts the gateway at any port that is free, without a sync of the
  other CLIs.

Plugins:

* `half_open` is cleared by the result of the probe alone: when its caller leaves, the
  plugin is skipped until it is replaced (`pipeline.rs:1195-1214`). `TriedAgain` leaves
  that case out. With a threshold of 1 and one fault the run has no probe that fails.
* The answer of an abandoned call stays in the pipe and is read by the next call, which
  fails and counts against the plugin (`extension_host_process.rs:308`).
* The late success of an older call closes a circuit that opened meanwhile, before its
  cooldown; and a plugin that fails closed is skipped like any other while its circuit is
  open.
* A request with an older snapshot starts a host of a plugin that was disabled after the
  retain passed; the idle sweep runs only with a later call.
* The key holds the call's timeout: hooks of one plugin with different timeouts restart
  its host at each turn.

## 6. Not modelled, and plan

Left out of modelled parts: the extraction of a session id from headers and bodies (a
request comes with its session); the cap of 512 entries of the recent-error cache and the
cache of base-url pings; backoff delays; requests that are not observed, the log hook and
retention; OAuth limit snapshots, edits that switch how a provider logs in (from tokens to
a key and back, which can drop the newest token) and the device flow's polling;
installation, permissions and host calls of plugins, and what hooks change in a request;
the command `cli_proxy_sync_enabled`, which no page of the window calls, and the timeouts
of restores; the moves of the Codex home and of its login mode, unparsable CLI files, and
the copies other services make of them; SQL, which is one change of rows; the texts of
errors and notices. Parts that are not modelled have their reason in `PROJECT.json`: they
rewrite data without state that others see (protocol bridge, response fixing, migrations),
are platform or presentation, or repeat the shape of `CliProxy` on other files.

What would come next:

1. `GatewayLifecycle`: start, stop, rebind and exit over the tasks of a running gateway,
   composed with `CliProxy` and `RequestEnd`, which have its effects on files and rows.
2. An abstract specification of one request for `Failover`: a subsequence of its
   candidates, each at most its attempts, and an answer its attempts justify.
3. Plugin installation and updates over the registry.
