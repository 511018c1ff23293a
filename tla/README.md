# Formal model of cloudhost-firewall-autoupdater

The program keeps cloud firewalls (Tencent Lighthouse and CVM, Aliyun SWAS and
ECS) open for the addresses that a set of domain names resolves to.  It adds
rules that carry its TAG for new addresses, removes its own rules for old ones,
and must never touch a rule of somebody else.  It runs for months, unattended,
against clouds that people edit at the same time.

This directory holds TLA+ modules that model the parts of the program that
decide about rules and about time, TLC configurations that check them on small
instances, and proofs of the most important results.

1. [The system](#1-the-system)
2. [Plan](#2-plan)
3. [Modules and code](#3-modules-and-code)
4. [Runs](#4-runs)
5. [Disagreements between code and documentation](#5-disagreements-between-code-and-documentation)
6. [Proofs](#6-proofs)
7. [What is not covered](#7-what-is-not-covered)

## 1. The system

| Part | Code | State it keeps | Operations |
|---|---|---|---|
| Target planner | `provider/plan.go`, `internal/tag` | none (a pure function) | `PlanTarget`, `IsOwned` |
| Target sync | `syncer/target.go`, `syncer/retry.go` | attempt, snapshots S0/S1/S2, confirmed counts, deferred count, outcome | `syncTarget` and its phases |
| Cloud providers | `provider/tc_*.go`, `provider/ali_*.go` | none; the cloud's rules and version are behind them | `GetSnapshot`, `CreateRules`, `DeleteRules` |
| Scheduler | `syncer/syncer.go` (`Run`, `ApplyState`, `Stop`, `TriggerSync`) | `pendingResume`, `stopped`, `runGuard`, `running`, `roundStarted`; channels `controlCh`, `triggerCh`, `stopCh`, `doneCh`; the ticker | publish, notify, trigger, tick, consume, begin and end of a round, stop |
| Round, dry run | `syncer/syncer.go` (`syncAll`, `groupByCloud`), `observation.go`, `ratelimit.go` | targets of a round in parallel groups, the counters, the cooldown of each product; the mutex and the cooldowns of dry runs | run the groups, cool down, summarise; read for a preview |
| DNS round, breaker | `syncer/dns_round.go`, `dns/circuitbreaker.go` | per host: answer, half-open probe, waiters, failure counts | resolve, probe, record |
| Runtime state | `syncer/state.go` | an immutable `RuntimeState` behind a pointer | build, publish, snapshot |
| Config coordinator | `webui/api/coordinator.go`, `deps.go` | candidate, database transaction, published effects | validate, commit, publish |
| Config store, bundle | `config/store.go`, `config/validate.go`, `webui/api/bundle_v3.go`, `export.go`, `alerts.go`, `settings.go` | the SQLite file; the exported bundle | open and migrate, load, write statement by statement, export, import |
| Event bus, alerts | `notifier/*`, `webui/api/alertset.go` | subscribers, in-flight callbacks, the current alert set | publish, subscribe, replace, drain |
| Sync log queue | `webui/api/logqueue.go` | ring of 256 records, the worker's record, drop counter | enqueue, write, expire, stop |
| Log stream | `webui/api/logstream.go`, `sse.go` | window of lines with sequence numbers, subscribers | append, subscribe with replay |
| Health, supervisor | `internal/health/*.go` | last verdict, last sync time | evaluate, alert at edges |
| Push heartbeat | `internal/health/push.go` | anchor, due time | wake, send, stop |
| Process lifecycle | `run.go`, `webui/server.go` | which parts run | start, shutdown |

How they interact.  The coordinator serialises configuration changes under its
own mutex: it commits to the database, publishes a new `RuntimeState` together
with the scheduler's resume mark in one critical section, and then puts a token
into `controlCh`.  The scheduler's goroutine waits in a `select` for ticks,
triggers, control tokens and stop; a round takes one snapshot of the state and
runs its targets in one goroutine per product.  Each target reads DNS through
the shared per-round cache and calls its provider.  Results leave as events for
the log queue, the log stream, the alerts and the health supervisor.

What is hard, and which property each part owes:

- **Others edit the firewall** between any two calls of `syncTarget`; a write
  that reports an error may have taken effect; ECS writes in batches.  Owed: no
  rule of others is ever removed, no wanted access is ever taken away, old
  access goes only after the new one is there, and the announced result is
  true.
- **Decisions age.**  A CVM rule is deleted by an index, a Lighthouse rule by
  its value, both read earlier.  Owed: writes act on the state they were
  decided on.
- **Scheduler races.**  Publication, trigger, tick, stop and the loop meet in
  several small critical sections.  Owed: no wake-up, trigger or resume is
  lost; a pause holds rounds back; `doneCh` is closed exactly once and only when
  nothing runs.
- **DNS.**  Targets wait for one another's half-open probe.  Owed: every waiter
  is released, success of any target wins over failures of others.
- **Publication and crash.**  Commit and publication are separate, and the
  publication has five effects.  Owed: after a restart the program runs what was
  committed; a failed change leaves no trace; no rule refers to a target that is
  gone; whoever is woken meets the new state.
- **Rounds in parallel.**  The goroutines of a round share the counters and the
  cooldowns, and a target is tried several times.  Owed: a summary that speaks of
  every target once and only of what its last attempt saw; the cooldown of a
  product, however rounds, retries and states follow each other.
- **Old files.**  A database may be of any age, be edited by hand, or be left by
  a process that died.  Owed: a rule never comes to apply to more targets than it
  was given, what runs can be exported, what is imported is what was uploaded.
- **A watcher of a moving target.**  The supervisor compares clocks with
  intervals that a publication or a resume moves under it.  Owed: no false alarm
  of an engine that keeps its timetable, one alert per episode.
- **Bounded queues and shutdown.**  Owed: overflow drops the oldest and counts
  it, the drain ends by its deadline, callbacks captured before the drain are
  waited for.

`PROJECT.json` lists every component, and under `hazards` the single places in
the code where these things can go wrong, with the properties that cover them.

## 2. Plan

Order: what can do harm in the cloud first, then what decides when it runs,
then what feeds and observes it.

| Step | Modules | Subject | State |
|---|---|---|---|
| 1 | `Planner` | the planning function | done |
| 2 | `TargetSync` (extends `Planner`), abstract `SafeReconciler` | a call of `syncTarget` against a cloud under edit; refinement | done |
| 3 | `TargetSyncProofs` | type correctness, stale writes, access, foreign rules, refinement; results, residue, counts and convergence | done |
| 4 | `Scheduler`, `SchedulerProofs` | the loop and everything that acts on it; its safety invariants proved | done |
| 5 | `DNSRound`, `DNSRoundProofs` | half-open probe, waiters, success wins, the breaker of a new configuration; its safety proved | done |
| 6 | `Round`, `RoundProofs` | groups per product in parallel, cooldown between targets, summary; dry runs beside; the spacing and the summary proved | done |
| 7 | `ConfigCoordinator`, abstract `ConfigRegister`, `ConfigCoordinatorProofs` | changes, candidate, transaction, publication, crash and restart; refinement to a register of whole revisions; proved | done |
| 8 | `LogQueue` | ring, overflow, expiry, drain and join; proved in `LifecycleProofs` | done |
| 9 | `EventBus` | captured callbacks and the drain, replacement of the alert set, the limiter and its diagnostics; proved in `LifecycleProofs` | done |
| 10 | `Health`, `HealthProofs` | the supervisor's verdicts on an engine whose timetable is moved; proved | done |
| 11 | `Lifecycle` | composition: the shutdown of `run.go` over the loop, the HTTP server, the bus and the queue | done |
| 12 | `ConfigBundle`, `ConfigBundleProofs` | databases of any age, migration, transactions, export and import; proved | done |
| 13 | `LifecycleProofs` | the queue, the bus, and both inside the process; no result is lost and nobody outlives what it uses | done |

The suite is kept at a dozen runs of a few minutes each.

## 3. Modules and code

### Planner

`provider/plan.go` as operators over one target's enabled domain rules, the DNS
answers `res` and a snapshot.  A functional key is a record of address family,
CIDR, protocol, port expression and action.  A cloud rule is
`[keys, tag, located, born]`: the set of keys it stands for (a rule whose fields
do not determine one has none), the TAG of its description, whether the API
returned what its product deletes by, and the write that created it, which with
the keys is its cloud identity.

`Desired`, `Needed` and `Unsupported` are the keys by `Capabilities` of the
product; `ToAdd`, `Candidates` and `Deletable` are `ToAdd`, `CleanupCandidates`
and `CleanupDeletable` of `TargetPlan`; `GateOpen` is the cleanup gate and
`Locatable` is `cleanupLocatorIssue`.  Text (CIDR notation, port syntax,
description prefixes) is compared as values; what normalisation *decides* is
kept: TCP+UDP splits in two where the platform lacks it, ICMP and ALL have no
port, and "all ports" is `1-65535` at Aliyun.

### TargetSync

One call of `syncTarget`.  A step of the tool is one call to DNS or to the cloud
with the code that runs until the next call.

| Action | Code |
|---|---|
| `Resolve` | `resolveTargetRules`: per attempt, every host anew |
| `ReadS0`, `ReadS1`, `ReadS2`, `ReadFails` | `GetSnapshot` with the decisions after it: `toAdd`, coverage, DNS error, cleanup request, `verifyCleanupResult` |
| `CreateOk`, `CreateExists`, `CreateFails`, `CreateRefused` | `CreateRules` answered by success, "already exists", another error, a version mismatch or the local rule limit of CVM |
| `DeleteOk`, `DeleteGone`, `DeleteRefused`, `DeleteFails` | `DeleteRules` answered by success, "not found", a version mismatch, or another error, `PartialDeleteError` included |
| `RetryAttempt`, `FailAttempt`, `RetryCleanup`, `Conclude` | the retry loop of `syncTarget` and how each error class leaves it |
| `EditorAdds`, `EditorRemoves`, `EditorRetags` | others at the cloud console |

The cloud's side of a call is external: the module models what the providers
rely on.  A failed write may have taken effect.  Versions of Lighthouse and CVM
reject a write decided on an older snapshot.  Lighthouse deletes by value and
may take any of several equal rules; a CVM index means the rule it meant only
while the version is unchanged, otherwise *any* rules; Aliyun deletes by id.
ECS writes batches one by one (`ConfirmedBefore`, `FailingBatch`).

History variables (`trueAdded`, `trueDeleted`, `seenEdits`, `faulty`) record
what an observer of the cloud knows and the program does not; no guard reads
them.

### SafeReconciler

The promise to the owner of a firewall, four actions long: a reconciler adds
only rules of its namespace for keys it wants, removes only rules of its
namespace that serve no wanted key, and others do what they like.  `TargetSync`
implements it with `rules <- cloud, wanted <- Desired(res), others <- edits`.

### Scheduler

`Run` with everything that acts on it.  A step is one critical section of `s.mu`
or of the `RuntimeManager`, or one channel operation, so what happens *between*
two critical sections is a step of somebody else.

| Action | Code |
|---|---|
| `Publish`, `NotifyControl` | `ApplyState`: state and resume mark under the lock, then the non-blocking send |
| `CheckTrigger`, `TriggerSync` | `handleSyncTrigger`: the switch is checked, then the token queued |
| `StopMarks`, `StopCloses` | `Stop`: flags under the lock, then the channels |
| `RunStarts`, `MarkRunning`, `FirstConsume` | the head of `Run` |
| `WakeByTick`, `WakeByTrigger`, `WakeByControl`, `WakeByStop` | the two `select`s; a paused loop hears control and stop only |
| `CheckPending`, `CheckEnabled`, `Gate`, `BeginRound`, `RoundReads`, `RoundEnds` | the four call sites of `beginRound`, told apart by `site` |
| `ConsumeControl`, `DrainTrigger`, `NotifyStateApplied` | `consumeControlState` with the four cases after it |

`state.gen` numbers the published states and stands for the pointer.  The two
deferred calls at the end of `Run`, `setRunning(false)` and the close of `doneCh`,
are one step (`Return`), so that `running` is cleared before the close is not a
result of the model.  `owed`, `pausedAtWake` and `lateRounds` are history.

### DNSRound

The rounds one after another, with the circuit breaker that outlives them.  A
group is the goroutine of a product; it runs the attempts of its targets one
after another, and an attempt resolves the distinct hosts of its rules.  A step
is one critical section of the round's mutex (the breaker's mutex is taken
inside it), or the wait for the channel of a probe; the DNS query is the time
between two steps.

| Action | Code |
|---|---|
| `BeginRound` | `newDNSRound` on the snapshot of `syncAll`: who is open is decided here |
| `BeginPass`, `EndGroup` | an attempt of a target in `runRound` with the hosts of its rules |
| `Resolve` | `dnsRound.resolve` up to the query or the wait |
| `Awake` | the waiter after `<-done`: the error of the probe, or a query of its own |
| `Answer`, `Settle` | `dnsRound.run` after the query |
| `BeginFinish`, `FinishHost`, `EndRound` | `dnsRound.finish`, one critical section of the breaker per host |
| `BuildState`, `PublishState`, `DropState` | `BuildRuntimeState` with the clone of the breaker or a new one, `Apply`, the rollback |

`breakers` holds the breaker of every state that was built, so a round that runs
on an old state keeps writing to the old one.  That its late results do not
reach the new state is what the code intends (`finish`: "only the captured old
breaker"); the model shows that the new state is not disturbed.  `before`,
`queries` and `answered` are history.

### ConfigCoordinator

Every change of the configuration from the lock of `ConfigCoordinator.mutate` to
its return.  A configuration is a set of target ids, a set of rules that refer
to them, the two id sequences of SQLite and the rest: the settings, the alerts
and the fields of targets, which no property tells apart.  Its revision counts
commits; the code has no such number, it stands for the identity of the state.

| Definition | Code |
|---|---|
| `AddTarget`, `UpdateTarget`, `DeleteTarget` | the handlers of `targets.go`; a target in use is refused |
| `AddRule`, `UpdateRule`, `DeleteRule` | the handlers of `rules.go`; references are validated in the transaction |
| `ChangeRest` | `handlePutSettings`, `handlePutAlerts`, `handleSyncPause`, `handleSyncResume` |
| `Import`, `ResetAll` | `handleConfigImport`, `handleConfigReset`; the id sequences go on |
| `Begin`, `Mutate`, `Build`, `Commit`, `Fail`, `Return` | the steps of `mutate`; `Fail` is every error return before the commit |
| `SetLevel`, `ApplyAlerts`, `ApplyState`, `Wake` | `applyCandidate`, one effect per step |
| `Woken`, `Read` | `Supervisor.Run` and `Pusher.Run`, as far as they look at the published state |
| `Crash`, `Restart` | the death of the process at any point; the start of `run.go` from the database |

The requests differ in nothing but their name; each may be any change.  The
transaction is read and written by its request alone: the mutex guarantees it,
for no other code writes these tables.  `wrote` and `taken` are history.

### ConfigRegister

What the coordinator owes: a durable configuration that changes in whole
revisions, and one in force that follows it before the next change.
`ConfigCoordinator` implements it with the database as `durable` and the
published state, or the database while the process is down, as `inForce`.

### Round

The rounds that `Scheduler` begins, with what happens inside one: a snapshot of
the state, one goroutine (lane) per product, and the targets of a lane in turn.
Of `syncTarget` the loop over the attempts is here, what an attempt does to the
cloud is `TargetSync`'s; an attempt ends in any way `AttemptResults` allows.

| Action | Code |
|---|---|
| `BeginRound` | `syncAll`: the snapshot, `groupByCloud`, one goroutine per group |
| `StartTarget` | the wait for `targetNextStart`, before the target |
| `Attempt` | an attempt of `syncTarget` with `mergeObservations` and the verdict of the retry loop |
| `Stamp`, `Count` | after `syncTarget`: the cooldown, then the counters and `CleanupObservationSummary.add` |
| `FinishRound` | `wg.Wait` and the summary |
| `BeginDryRun`, `DryRead`, `DryStamp`, `EndDryRun` | `DryRun` under `TryLock`: the snapshot, the wait, `GetSnapshot`, the end |

Cooldowns are clocks in units that may pass at any moment.  `rest`, `dryRest` and
`ended` are history: an observer's clocks, and what each target came to.

### ConfigBundle

The stored configuration and the ways in and out of it.  The database is opened
at any age and migrated, read whole, and changed by requests that write
statement by statement in one transaction; a bundle is exported from what is
loaded and imported as one change.

| Action | Code |
|---|---|
| `Start`, `Migrate`, `MigrationCommits` | `OpenStore`, `initTables`: columns, switches and default rows in one transaction |
| `Load` | `LoadBusinessSnapshot` in `run.go`; damage ends the start |
| `PostRule`, `PutRule`, `RemoveRule`, `PostTarget`, `RemoveTarget` | the handlers of rules and targets, up to their transaction |
| `PutSettings`, `PutAlerts`, `Reset`, `Import` | settings in any order of a Go map; the alerts form; reset; a bundle that passed `Present` and `Accepts` |
| `Statement`, `Commit` | the statements of the transaction; the candidate read back, and the commit |
| `ConfigExport` | `handleConfigExport`: `Export` of what is loaded |
| `Fails`, `Dies`, `EditFile` | a failing statement, the death of the process, a change of the file by hand: references damaged, a row deleted, a value nobody validated |

Texts are classes: the constants say which are blank, which the validators take
as a port, a subject, a body, a duration or an interval of at least twenty
seconds, and any others may be stored.  The loaders check no more than that the
two durations parse (`Loads`); the validators check all that validate.go:285-395
does (`AcceptsEmail`, `AcceptsWebhook`, `AcceptsPush`, `AcceptsRow`), for the form
and for a bundle.  `unchecked` remembers the rows whose stored value no validator
has taken: those of an old file, or of an edit, that `SoundRow` does not find
sound; the form, an import and a reset leave none.  A target's region, resource
and product are one value, its place, and what a rule says besides its targets is
its host; of both only legal values occur.  JSON is modelled by what it
decides: `null`, an array, or nothing at all for the targets of a rule, and a
field of a bundle that is given or not.  Tables are sets of rows with their ids,
which grow and are never given again; what is read in the order of the ids
(`InOrder`) or sorted (`Ascending`) is a sequence.  `said` remembers which rules
were last given all targets, `saved` what was last committed.  `ImportExact`
compares rules by the places of their targets, and the targets themselves,
those that no rule names included, by their number at each place.

### LogQueue

`QueuedLogWriter`: publishers append to a ring, one worker writes to SQLite, and
`Stop` drains the ring within a budget.

| Action | Code |
|---|---|
| `Enqueue`, `Refuse`, `Notify` | `Enqueue`: one critical section, then the non-blocking send |
| `Take`, `Write`, `ReportDrops`, `Sleep`, `Awake`, `Quit`, `CloseDone` | `run` and `next` of the worker |
| `FindOverdue`, `WorkerExpires`, `WorkerCancels` | the worker meets the deadline before the timer does |
| `DeadlinePasses`, `TimerFires`, `TimerExpires`, `TimerCancels` | the `time.AfterFunc` of `Stop` |
| `StopFreezes` to `StopJoinsTimer` | `Stop`, critical section by critical section |

A record is its rank among the admitted ones, so order can be stated.

### EventBus

The bus, the alert set installed on it and the limiter of each channel.

| Action | Code |
|---|---|
| `Capture`, `Spawn` | `Publish`: subscribers under the lock, goroutines outside it |
| `UnsubscribeIngress`, `FreezeCallbacks`, `Drained` | the ingress of the log queue goes; `DrainSubscribers` |
| `Acquire`, `Send`, `LogDropped` | an alert callback: a slot of `InFlightLimiter` or a dropped delivery |
| `ScheduleDropTimer` to `FlushLeaves`, `StopDiagnostics` | the timer that summarises drops, and its end |
| `BeginApply`, `Unsubscribe`, `Subscribe`, `EndApply` | `AlertManager.Apply`: the old instances go before the new ones come |

`BusSpec` is the bus alone: anybody publishes, any alert set is applied, and the
drain may come at any time.  The process is shown to implement it.

### Lifecycle

`runWebUI` and `Server` around `EventBus` and `LogQueue`, which it extends.
Rounds, supervisor and requests publish and change until main stops them.

| Action | Code |
|---|---|
| `Bind`, `BindFails`, `BeginShutdown` to `CloseStore` | `runWebUI` from the listener to the last deferred call, one step per stop or join |
| `Arrive`, `Serve`, `Save`, `Saved`, `Return` | a request: accepted, registered or refused, a change of the configuration, the return |
| `ShutdownMarks`, `ShutdownCloses`, `ShutdownEnds`, `ServeFails` | `Server.Shutdown` in its goroutine; `Serve` may also fail by itself |
| `BeginRound`, `EndRound`, `SyncerReturns`, `SupervisorReturns` | the engine and the supervisor, as far as they publish and end |
| `Publish`, `Deliver`, `Admit`, `Notified` | a publication with the ingress inline |

### Health

The supervisor beside the engine it judges.  The engine appears as its
timetable: when the ticker was reset, when the last round ended and whether one
runs.

| Action | Code |
|---|---|
| `BeginCheck`, `ReadSwitch`, `ReadStatus`, `ReadPolicy`, `ReadInterval`, `Decide` | `Evaluate` with its separate reads, then `check` |
| `StartSupervisor`, `BeginShutdown`, `StopEngine`, `SupervisorReturns` | the order of `run.go`, `waitSyncerRunning` included |
| `LoopStarts`, `BeginRound`, `NewInterval`, `Conclude`, `EndRound`, `LoopEnds` | `Run` and `syncAll`, as far as `Status` shows them |
| `Publish`, `Fault`, `TimePasses` | `ApplyState`; SQLite answers or not; time |

`LoopStarts` marks the engine as running and begins its first round in one step.
Between the two the code shows an engine that runs without a round; where it has
not synced yet it is judged by the start of the process and the timeout
(health.go:188), the same as before it was marked, so under `Patient` (section 6)
the moment between tells nothing new.

Time is counted in units and waits for whoever is due, so the engine is on time
by construction, and a verdict against it is a false one.  `moved`, `excused` and
`told` are history.

## 4. Runs

| Run | Module, configuration | What it shows |
|---|---|---|
| `target_lighthouse` | `TargetSyncLighthouse.cfg` | Twelve initial clouds with owned twins, foreign twins, merged, opaque and opposite rules: no stale write, no foreign rule deleted by its value, residue never understated, one undisturbed call converges |
| `target_cvm` | `TargetSyncCVM.cfg` | Deletion by index under versions, an ICMP rule with IPv6, a limit of four rules that is really reached: no foreign rule removed, make before break, results true |
| `target_ecs` | `TargetSyncECS.cfg` | Batches of one, two hosts that fail independently: counts right over partial batches and attempts, implements `SafeReconciler` |
| `target_retag` | `TargetSyncRetag.cfg` | Violation, see section 5 |
| `scheduler` | `Scheduler.cfg` | All interleavings of loop, publications, a request, ticks and Stop: `doneCh` closed only in silence, at most one late round, pauses respected at the wake-up, no lost wake-up; triggers and resumes are answered by a later round without a tick, each published state is applied or overtaken, rounds recur while sync is enabled and time goes by, `Stop` always closes `doneCh` |
| `round` | `Round.cfg` | Two rounds over two products with retries, estimated and historical observations, two dry runs beside them: the summary is that of the snapshot, cooldowns hold |
| `dns_round` | `DNSRound.cfg` | Two groups that wait for each other's probes on two hosts, while a state is built, published or dropped: one probe per round for an open host, a round counts once by its whole result and into its own breaker only, and always ends |
| `config_coordinator` | `ConfigCoordinator.cfg` | Any two changes from any small configuration, with failures and one death at every point: references stay closed, answers are true, what is in force is what is committed, the watchers learn of it; implements `ConfigRegister` |
| `bundle` | `ConfigBundle.cfg` | Databases of five ages, two requests, exports and imports, a fault and an edit by hand at any point: no rule is widened, a row whose value some validator has taken can be sent back and a bundle of such rows be imported, an import is exact, a restart keeps what was committed |
| `bundle_before_validators` | `ConfigBundleOld.cfg` | Violation, see section 5 |
| `lifecycle` | `Lifecycle.cfg` | Two events that meet a change of the alert set, the diagnostics of a full channel and the shutdown in any order: no result is lost before the queue, nobody outlives what it uses, the limit holds across instances, no event meets two alert sets; a shutdown that has begun ends, whatever the requests, rounds, timers and event streams are about |
| `health` | `Health.cfg` | A check that reads switch, status, policy and interval one by one while policies change, rounds are slow and SQLite fails: no false stall or stop, one alert per episode |

The properties, in words, stand above their definitions in the modules.

**Bounds.**  `MaxRetries = 3` is the code's own.  One edit by others
reaches every window of an attempt, since an edit may fall between any two calls
and a cloud with foreign, lost or twin rules is an initial state instead of an
edit.  Two addresses are enough for an address to change and to change back; a
third key (`K3`) stands for all that is no longer wanted.  `BatchSize` is 100 in
the code and 1 in `target_ecs`, where two keys already make two batches.
`RuleLimit` is 100 in the code and 4 in `target_cvm`.

`Scheduler`: two publications are a pause and its resume, merged or not, during
one round, and one trigger fills its channel; further publications and requests
are left to the proofs.  `DNSRound`: two groups that wait for each other's
probes need two hosts; of three rounds one opens the breaker and the next two
begin with it; one publication splits them into old and new.  Threshold one
opens a breaker soonest; more groups, attempts and higher thresholds are left to
the proofs.

`Round`: two targets of one product and one of another; an attempt may fail
before it observed, observe an incomplete plan, fail in its clean-up or succeed,
so with two attempts every observation can be replaced, kept or become
historical; two rounds, with three states, carry a cooldown over; two
callers contend for the mutex of the dry run.  A slow product waits two units
and a fast one waits one.

`ConfigCoordinator`: two requests are enough for one to overtake the other or to
undo what the other relied on, and the initial state is any configuration with
up to two targets and two rules, so the effect of earlier changes need not be
replayed; ids run to two, so an import or an addition meets the end of the range
and a reset the temptation to start again; one death falls between any two
steps.

`ConfigBundle`: five databases stand for the ages the migration tells apart (no
table yet, without the security column only, before the templates with a port
that is none, before every column with an incomplete channel, with a `null`
rule); the current age is that of each of them once it is open.  Bundles are a
sound one, whose ids clash with those in use, and ten that are wrong in one point
each.  An edit may give a row a value that no validator takes: a mode, a channel
and a duration that are none, and an interval of five seconds, which loads.  Two
requests follow one another, and one fault and one edit fall anywhere; the run
has 1.3 million states.  `ConfigBundleOld.cfg` is one of these databases with no
fault and no edit.

`Lifecycle`: a ring of one record and a channel of one delivery are full
soonest; with two events one takes the slot and the other is dropped, or finds
the ring full, or meets the drain.  That the invariants hold of any number of
events is proved; two are what `Terminates` is checked with.  One request is
enough, as it may arrive, save, stream and return at any point of the shutdown.

`Health`: intervals and timeouts of one and two units, a policy without the
alert and one that is paused; two publications move the timetable twice or undo
a move; one fault starts an episode.  The clocks stop where no comparison can
tell values apart.

`CHECK_DEADLOCK` is off where the bounds let the model stop although the program
would go on: rounds and dry runs in `Round.cfg`, requests in `ConfigBundle.cfg`,
where a database with damage also keeps the program from starting, and in
`Health.cfg`, where the engine ends with the process.  It is on elsewhere: the
end of a call is the action `Returned`, the end of `Run` and `Stop` is `Ended`,
that of the process is `Exited`.

**Fairness.**  `Scheduler`: weak fairness of the loop and of the second halves
of calls that have begun (`NotifyControl`, `TriggerSync`, `StopCloses`); strong
fairness of the control, trigger and stop branches, because Go's `select` picks
uniformly among ready cases, so a case that is ready infinitely often is chosen.
Nobody is obliged to publish, to trigger or to stop.  That time passes is a
premise of the one property that needs it, `RoundsRecur`.  That a round ends is
part of the weak fairness of `Run`; it rests on the bound of the attempts (in
`TypeOK` of `TargetSync`), on the timeouts of the cloud clients and on `RoundEnds`.
`DNSRound`: weak fairness of the round alone, since its goroutines run on and
`NewResolver` gives every query a timeout.
`TargetSync`, which checks safety: weak fairness of the tool's next call in
`FairSpec`, none for the editors, and none that makes a call succeed.
`Lifecycle`: weak fairness of every goroutine of the process, of deliveries
(bounded by the SMTP and HTTP timeouts), of the timers of `Stop`, and of a
stream once `shutdownCh` is closed.  No fairness obliges anybody to publish, to
send a request, to begin an alert change or to send the signal.
`Health`: weak fairness of the steps of a check, for SQLite is given two seconds
and the rest is memory.  `Round`, `ConfigCoordinator` and `ConfigBundle` state
safety only and assume no fairness.

## 5. Disagreements between code and documentation

Two runs end in a violation of something that a document or a comment says.

- `target_retag`.  README.md:518 excludes that a rule without the TAG is
  deleted.  ECS and SWAS delete by the id read at S1, without a version; when
  somebody re-tags the rule in place in the short time before the request, a
  rule that is no longer the tool's is deleted.  On Lighthouse and CVM the
  version protects it, which `ForeignSafe` proves.
- `bundle_before_validators`.  bundle_v3.go:343 says that an exported bundle
  "can certainly pass the validation of the import".  `toBundleV3` fills in what
  is missing and nothing else, and the loaders (store.go:826, 878, 1045) take any
  port, mode, subject, body and channel and any positive interval.  A value from
  before the validators, which came later (HistoryDocs/Build6.md:731), or from an
  edit of the file (HistoryDocs/Build7.md:724, Issue8-history.md:186) is loaded
  and exported, and the import of the same program refuses it: here a port that
  is no number; likewise an interval of `5s`, an unknown mode or an unknown
  channel.  `ExportAccepted`, which holds and is proved, says that such a value is
  the only cause.  The same is to be said of texts of rules and targets, of target
  ids listed twice, which the model leaves out (`Keyed`), and of a bundle above
  the limit of decode.go:24.

Smaller ones, met while modelling, which no run states:

- The comment of `TriggerSync` (syncer.go:550) says that a trigger queued during
  a pause is dropped.  When the resume is published between `hasPendingResume`
  and `IsEnabled` of the trigger branch, the stale trigger starts a round of its
  own, and the resume another one after it.
- syncer.go:293-295 says that neither tick nor trigger starts a round in a pause.
  The switch is read before the gate and the snapshot of `syncAll` after it; a
  pause published in between does not stop the round.  A pause that was in force
  at the wake-up does (`NoRoundAfterPause`).
- syncer.go:942 and the repository's README.md:40 speak of one group per cloud
  vendor; `groupByCloud` groups by product, so two products of one vendor are
  synced side by side.  `Round` follows the code.
- A round and a dry run keep separate cooldowns: a dry run may read a product
  while a round syncs it, or right after.  `Spaced` says of each what it keeps.
- After a resume, another interval, shorter or longer, or a shorter timeout the
  supervisor may report a stall until the next round has ended, and during a
  start if the timeout is shorter than the grace of ten seconds.
  HistoryDocs/Build7.md:610 accepts false alarms; `StallsAreReal` shows that there
  are no others.  It excuses whatever is read while the timetable moves, so of
  the separate reads of one check it says only that they agree when nothing has
  been published meanwhile.

None of these smaller ones can remove access or lose a rule beyond what is described.

## 6. Proofs

All theorems hold for every value of the constants that the named assumptions
allow: any product, TAG, finite sets of rules and addresses, any initial clouds,
editors and number of edits, any retry bound and batch size; any number of
publications, requests and intervals; any targets, cooldowns and attempts; a
ring of any length; any number of publishers, alert channels and handlers.

### TargetSyncProofs

Assumptions: `PlannerAssumption` and `TargetSyncAssumption`, the ranges of the
constants, finiteness of configuration and initial clouds, and that a cloud
identity `<<born, keys>>` names one rule at the start.

| Theorem | States |
|---|---|
| `TypeCorrect` | `Spec => []TypeOK`: counts never fall below zero, at most `MaxRetries` attempts |
| `Inductive` | `Spec => []IInv` |
| `WritesAreCurrent` | `Spec => NoStaleWrite` |
| `AccessKept` | `Spec => AccessPreserved`, for all products and whatever others do |
| `ForeignSafe` | `Spec => ForeignUntouched`, if the product has versions or `RetagTo = {}` |
| `Refinement` | `Spec => IsSafeReconciler`, under the same condition |
| `EndInductive` | `Spec => []EndInv` |
| `ResultsTrue` | `Spec => []ResultIsTrue` |
| `ResidueReported` | `Spec => []DeferredIsConservative` |
| `NewBeforeOld` | `Spec => MakeBeforeBreak` |
| `CountsTrue` | `Spec => []CountsConfirmed`, also when others re-tag |
| `CalmSync` | `Spec => []CalmSyncConverges`, if `DomainRules # {}`: the code does not call `syncTarget` for a target without rules (syncer.go:953) |

The condition of `ForeignSafe` and `Refinement` is needed: `target_retag` is the
counterexample.  So is that of `CalmSync`: without rules the gate stays closed
and the call succeeds with the old rules in place.

A write is decided on a snapshot and executed on whatever the cloud holds by
then.  The invariant relates the two:
`IInv == TypeOK /\ SnapshotSound /\ WritesVersioned /\ IdentityStable`.

- `SnapshotSound`: a revision that is still current means a snapshot that is
  still true, for every change of the cloud moves the version.
- `WritesVersioned`: a versioned product never reaches a write without a
  revision.  With `SnapshotSound`, an accepted write runs on its snapshot
  (`AcceptedIsCurrent`).
- `IdentityStable`: where there is no version, the id read at S1 names the same
  rule with the same keys and TAG in the cloud; it needs that nobody re-tags.

`ToolEffect` reduces the twelve actions of the tool to three effects: the cloud
is untouched, rules for missing wanted keys are added, or rules of the cleanup
request are removed.  `RemovedRules` shows what a removal can hit, and the
theorems about steps follow from it without looking at single actions again.
`AccessKept` does not need `IdentityStable`: what a
delete by value or by id removes has the keys of a rule the request named, and
an index is used only while the snapshot is current.

What the end of a call says needs more, `EndInv == IInv /\ Fresh /\ Decided /\
ResultIsTrue /\ DeferredIsConservative`:

- `Fresh`: a write is reached by a read alone, so as long as `seenEdits = edits`
  it runs on the very rules of its snapshot, versions or not.
- `Decided`: the delete begins with the cleanup gate open, and S2 without DNS
  errors; only a returned call has a result.

A result comes from a read, which shows what it claims (`ReadConclusion`), or
from a cleanup that confirmed nothing, which kept what S1 had shown and reports
the residue of S1 (`CleanupConclusion`).  The counts need that two rules of a
request are never removed as one (`EffectCount`): by value the keys differ
because each rule can be named, by index the request is the effect, by id
`Unique` gives every identity to one rule.  For the calm call, `Cleaned` says
that the delete leaves no rule that can be named and is not wanted: what hid a
rule before would have made the request's own rule ambiguous
(`LocatableBefore`), and a calm delete is never answered "not found"
(`NeverGone`).

### SchedulerProofs

Assumption: `SchedulerAssumption`, which only says that the bound on publications is a
number.

| Theorem | States |
|---|---|
| `TypeCorrect` | `Spec => []TypeOK`: `doneCh` is closed at most once |
| `Inductive` | `Spec => []IInv` |
| `QuietWhenDone` | `Spec => []DoneMeansQuiet` |
| `LateRounds` | `Spec => []AtMostOneLateRound` |
| `PauseHolds` | `Spec => []NoRoundAfterPause` |
| `WakeupsKept` | `Spec => []NoLostWakeup` |

None of the four invariants is inductive: each speaks of one place of the loop.
`IInv == TypeOK /\ Ownership /\ Lateness /\ PauseKept /\ Announced`.

- `Ownership`: `runGuard` and `neverStarted` are fixed in critical sections of
  the same lock, so after Stop exactly one of `Run` and `Stop` owns `doneCh`; it
  gives `doneCloses` as a function of the rest of the state.
- `Lateness`: a late round had passed the gate before Stop, and no second one
  can.
- `PauseKept`: between the check of the switch and the end of the round no pause
  is older than the wake-up.
- `Announced`: unless the loop is about to look, what it has not consumed has a
  token in `controlCh` or a notification underway.

### DNSRoundProofs

Assumption: `DNSRoundAssumption`: the bounds are numbers, thresholds are
positive (`SetThreshold` ignores others and the configuration rejects them), and
there is a host.

| Theorem | States |
|---|---|
| `TypeCorrect` | `Spec => []TypeOK`: no count passes the highest threshold |
| `Inductive` | `Spec => []Inv` |
| `OneProbe` | `Spec => []HalfOpenIsOneProbe` |
| `VerdictOfRound` | `Spec => []RoundVerdict` |
| `OldRounds` | `Spec => OldRoundsHarmless` |

`Inv == TypeOK /\ Opens /\ Probes /\ Probers /\ Asked /\ Phases /\ Counts`.

- `Opens`, `Probes` and `Probers`: a host that is still open in the round has at
  most one query, whoever queries it is its prober, and only one group is.  That
  a waiter asks itself only after the host was opened up again follows, and with
  it `OneProbe`.
- `Counts`: at every point of the round the breaker holds `Due`, the count from
  before the round, zero after an answer, or one more once the failure has been
  recorded.  At the end this is the verdict; it needs `Asked`, that a host with
  queries and nobody at it has a result.

### ConfigCoordinatorProofs

Assumption: `CoordinatorAssumption`: the bounds are numbers, the default is a
value, nobody is not a request, and an imported bundle refers to its own targets,
which `validateAndNormalizeBundle` checks before the transaction.

| Theorem | States |
|---|---|
| `TypeCorrect` | `Spec => []TypeOK` |
| `Inductive` | `Spec => []IInv` |
| `ReferencesClosed` | `Spec => []RefsClosed` |
| `NothingHalfPublished` | `Spec => []PublishedIsCommitted` |
| `TrueAnswers` | `Spec => []AnswersAreTrue` |
| `EffectsBeforeState` | `Spec => []EffectsLead`, which no run checks: log level and alerts are in force before the state |
| `NobodyForgotten` | `Spec => []WatchersInformed` |
| `IdsOnce` | `Spec => IdsForLife` |
| `Implements` | `Spec => IsRegister` |

First, one lemma per mutation shows that it makes a good configuration of a good
one (`Follows`): references closed, ids within their sequence, new ids beyond the
old ones.  `DeleteTargetFollows` needs that no rule refers to the target, and
`ImportFollows` that a bundle is closed; nothing else keeps the references.
`IInv == TypeOK /\ Holder /\ GoodData /\ Work /\ History /\ Publishing /\ Settled
/\ Answered /\ Told`.

- `Holder` and `Work`: only the holder of the mutex is at work, so what it read
  at its begin is still the database at its commit, and the candidate is what
  gets committed.
- `Publishing` and `Settled`: how log level, alerts and state lag the commit,
  effect by effect; with the mutex free they do not lag.  The step of `Commit`
  needs `Settled`, which is why the mutex must cover the publication too.
- `Told`: a watcher whose wake-up is still to come is not owed anything yet.

### RoundProofs

Assumption: `RoundAssumption`: the cooldowns are numbers, a state lists targets
and none twice (they are rows of a table with a primary key, config/store.go:189
and syncer/state.go:64-72), and the result of an attempt is one of
`AttemptResults`.

| Theorem | States |
|---|---|
| `CooldownsAddUp` | `Spec => []IInv` |
| `CooldownsHold` | `Spec => Spaced` |
| `SummariesAreTrue` | `Spec => []SummaryTrue` |

`IInv == LanesOfOneProduct /\ DryRunsUnderMutex /\ Clocks /\ Owed /\ DryOwed`.

- `Owed`: what has passed since a product was last synced and what is left of
  its cooldown add up to the cooldown, unless a target of the product is at work
  or has not been stamped yet.  A target starts when nothing is left, so all of it
  has passed.  `DryOwed` says the same of the reads of dry runs.
- `LanesOfOneProduct`: the lane of a product has only its targets, so nobody else
  syncs the product meanwhile, and between two rounds all lanes are empty, so the
  stamps are there before the next round begins.
- `DryRunsUnderMutex`: whoever reads holds the mutex.

For the summary a second invariant stands beside `IInv`,
`Sums == Ending /\ Covered /\ Tallied`, which TLC confirmed on the instance of
the run `round`.  `SummaryTrue` itself speaks of joined rounds only and says
nothing of a round underway.

- `Ending`: what a goroutine carries from its last attempt to `Count` agrees with
  what the target came to; in particular an observation is marked with the number
  of the last attempt exactly when that attempt made it, which is how
  `CleanupObservationSummary.add` tells a fresh one from a historical one.
- `Covered`: every target of the snapshot that a rule applies to is still to
  come, at work or at its end, and in one of these places only.  When all lanes
  have joined, all of them are at their end.
- `Tallied`: at every moment, whatever the interleaving of the goroutines, the
  counters are those of the targets that have ended and have been counted.  The
  classes are disjoint and leave nobody out (`FourClasses`, `FourOutcomes`), so
  one more target adds one to its own class (`TallyMore`).

The figures of the summary are sums over sets of targets.  The sum of the
library is a recursive function that takes some element first, and the proof
needs that any element may be the last one added.  The induction theorems of the
library take an operator as a parameter, which no back end instantiates, so the
lemmas before argue with a smallest counterexample: among some subsets of a
finite set one contains no other (`SmallestSubset`, from the well-foundedness of
strict inclusion), hence every set has a sum
(`SumExists`), the order does not matter (`AnyOrder`), the sum depends on the
terms only (`SameSum`), and the fold of the library is this sum (`SumIsFold`).

### LifecycleProofs: the log queue

Assumption: `LogQueueAssumption`: the ring holds at least one record.

| Theorem | States |
|---|---|
| `QueueInvariant` | `LogSpec => []LogIInv` |
| `QueueAccounts` | `LogSpec => []Accounted`: every admitted record is written, failed, pending, in hand or in a count of drops |
| `QueueKeepsNewest` | `LogSpec => []NewestKept`: only the oldest make room |
| `QueueWakes` | `LogSpec => []SleepsOnlyWhenIdle` |
| `QueueStops` | `LogSpec => []StopJoinsAll` |

`LogIInv == LogTypeOK /\ Frozen /\ Expiring /\ Leaving /\ Joining /\ Awakened /\
Accounted /\ NewestKept`.

- `Frozen` and `Expiring`: Stop closes the queue and sets the deadline in one
  critical section, and nobody expires the queue before; so nothing is admitted
  behind the back of an expiry, and what it abandons stays empty.
- `Leaving` and `Joining`: the worker leaves with an empty ring that stays empty,
  and Stop returns after the worker and the timer.
- `Awakened`: the token of the wake channel, a publisher about to send one, or
  Stop about to do so stands between a record and a sleeping worker.

### LifecycleProofs: the event bus

Assumptions: `EventBusAssumption`, that the bounds are numbers and there are
finitely many alert channels; `AlertSetsAssumption`, that an alert set has alert
types and channels only.  There may be any number of publishers.

| Theorem | States |
|---|---|
| `BusInvariant` | `BusSpec => []BusIInv` |
| `DeliveriesAreLimited` | `BusSpec => []InFlightLimited` |
| `EventsReachOneInstance` | `BusSpec => []OneInstancePerEvent` |
| `DrainedMeansDone` | a wait group at zero means no callback runs and none is captured |

`BusIInv == OneSetAtATime /\ CapturedTogether /\ EventsOnce /\ CallbacksCounted /\
SlotsCounted /\ DiagnosticsCounted`.

- `OneSetAtATime`: `Apply` subscribes the new set only when the old one is gone,
  so what a publication captures under the lock is of one set
  (`CapturedTogether`), and stays so while the goroutines start.
- `CallbacksCounted`: the wait group is the number of callbacks that are captured
  or underway.  They are told apart by event and channel, which `EventsOnce`
  makes a name; a capture counts one for each subscriber (`CaptureCounts`), and
  starting the goroutines changes nothing (`SpawnCounts`).
- `SlotsCounted`: the slots taken are the deliveries underway, of whatever
  instance.
- `DiagnosticsCounted`: the wait group of a limiter is its armed timer plus its
  running callback, so `StopDiagnostics` takes back one exactly when it stops the
  timer in time.

### LifecycleProofs: the process

Assumptions: those of `EventBus` and `LogQueue`, and `LifecycleAssumption`: the
publishers are the finitely many goroutines of rounds and the supervisor, and
rounds publish no "unhealthy" event.

| Theorem | States |
|---|---|
| `ProcessDrivesBus` | `Spec => BusSpec` |
| `ProcessDrivesLogQueue` | `Spec => LogSpec` |
| `LifecycleInvariant` | `Spec => []IInv` |
| `ProcessLimitsDeliveries`, `ProcessAlertsOneInstance` | `Spec => []InFlightLimited`, `Spec => []OneInstancePerEvent` |
| `ResultsAreKept` | `Spec => []NoResultLost` |
| `NobodyOutlives` | `Spec => []NothingOutlives` |

The first two are the composition: every step of the process is one step of the
bus or leaves it alone, and so with the queue, so their invariants carry over.
`IInv` adds to them `Stages`, `Producers`, `Handlers`, `Quiet`, `LogsOpen` and
`ResultsCounted`, what main knows at each of its steps:

- `Stages`: who has been joined when; after the HTTP server has been, no request
  can be registered any more, because `requestsClosed` was set before.
- `Producers`: a goroutine that publishes belongs to a round or a supervisor that
  is not over, so none is left once both are joined (`NobodyPublishes`).
- `Handlers`: the request wait group counts the handlers.  At zero there is none,
  and with `Stages` none comes.
- `Quiet`: the drain found the wait group at zero, hence no callback
  (`DrainedMeansDone`), and nobody is left to publish; when the diagnostics of a
  limiter have been joined its timer is not armed, and nobody arms it again.
- `LogsOpen`: Stop of the log queue begins after the drain, so a publisher finds
  it accepting, with its ingress still subscribed (`QueueIsOpen`).  From this
  `ResultsCounted` follows step by step, and with `QueueAccounts` `NoResultLost`.

### HealthProofs

Assumption: `HealthAssumption`: policies with positive durations, as the
validation leaves them, and a positive grace.

| Theorem | States |
|---|---|
| `HealthTypeCorrect` | `Spec => []TypeOK` |
| `NoFalseStopAlarm` | `Spec => []NoStopAlarm` |
| `NoFalseStall` | `Patient => (Spec => []StallsAreReal)` |
| `ToldOnce` | `Spec => [](told <= 1)`: an unhealthy episode is reported at most once |

`AliveInv == TypeOK /\ Stages /\ SeenAlive /\ NoStopAlarm`, `TimelyInv == AliveInv
/\ Timetable /\ SeenInTime /\ StallsAreReal`, and `Episode` for the last one.

- `Stages` orders main, engine and supervisor: the engine ends only after main
  has joined the supervisor, so a check that is underway finds it alive, whatever
  it has read so far (`SeenAlive`).
- `Timetable`: an engine that is enabled, idle and whose timetable nobody moved
  waits for a ticker that was reset after its last round and has the interval of
  the configuration in force.
- `SeenInTime`: the four separate reads of `Evaluate`, each of them possibly of
  another revision, are of one engine in time, or somebody moved its timetable
  meanwhile, which the history of `StallsAreReal` excuses.

`NoFalseStall` has a hypothesis, `Patient == \A p \in Policies : Grace <=
p.timeout`.  The validation (validate.go:358-366) accepts any positive
`health_timeout`, and the start of the engine alone has a grace of ten seconds
(health.go:49): with a timeout of one second the supervisor may report that no
round has ended while the engine is still starting.  `MCHealth`, with the
policies it uses, is patient; so is the default of ten minutes.

### ConfigBundleProofs

Assumption: `BundleAssumption`: the files the program may find are databases with
primary keys whose rules name no target twice (`Keyed`); uploads, forms and the
values somebody writes into the file are of the types of the wire; the defaults
of the schema are legal, and an interval is a duration.  Nothing is assumed about
what a file says otherwise: its rules may be damaged, its settings illegal, its
alerts such as no validator would take, its columns and rows any subset.

| Theorem | States |
|---|---|
| `BundleTypeCorrect` | `Spec => []Typed`, which includes that committed and uncommitted databases keep their keys |
| `OnlyMeantRulesAreWide` | `Spec => []NeverWidened` |
| `OwnExportIsAccepted` | `Spec => []ExportAccepted` |
| `ImportIsExact` | `Spec => []ImportExact` |
| `RestartsKeepEverything` | `Spec => []RestartKeeps` |

`BundleInv == Typed /\ Stages /\ Fit(op) /\ Progress /\ WidelyMeant /\ Settled`.

- `Fit`: the request underway passed the checks of its handler.
- `Progress` says, for each kind of request, what the open transaction holds
  before its next statement, as a function of the committed file and the request.
  The migration (`Migrated(k)`) and the import (`Imported(k)`) have a formula for
  every statement; a death at any of them leaves the file, a commit takes the
  last one.  `MigrationEnds` then shows that a finished migration says what the
  old file meant, with the channels off that a database from before the
  templates had on; `ImportedExactly` that the rows of a finished import are
  those of the bundle under a renaming of its ids.
- `WidelyMeant`: a row that reads as "all targets" is one that was last given
  none.  It is stronger than `NeverWidened`, since it holds of files that do not
  load; a removal of a target needs that no rule is damaged.
- `Settled`: the history `saved` is what the file means (`Meant`): a file that
  has not been migrated yet means its migrated form.  A row of it that is not in
  `unchecked` is acceptable in that meaning (`FormAccepted`), which every
  statement, the migration and the reset of the channels included, has to keep;
  the validators have to take every value that they leave or that a default
  supplies.

The lemmas before them are about the operators: listing and sorting of finite
sets (`Listing`, `InOrderFacts`, `AscendingFacts`), every statement on a database
(`NewRuleKeeps` to `DefaultRowsKeep`), the import's new ids (`RemapFacts`), the
forms (`FormFacts`, `FormAccepted`), and the export (`ExportedTargets`,
`ExportedRules`, `ExportFacts`).

## 7. What is not covered

Only model-checked: everything about liveness and fairness (`RequestsServed`,
`StopCompletes`, `Settles`, `RoundsRecur`, `RoundEnds`, `Terminates`,
`AnnouncedAtLast`), which the prover cannot handle.

Not modelled in the modules that exist:

- `Pause` and `Resume` of the Syncer (syncer.go:382-411) have no caller outside
  tests; the program pauses by publishing a state.
- A nil initial state: `run.go` always builds one before `Run`.
- A snapshot is read in one step.  The providers read pages; the versioned ones
  detect a change in between, the others do not.
- The wording and order of issues, reasons, logs; the syntax of CIDR, ports,
  hosts, URLs and descriptions; the syntax of JSON and the size limit of an
  import.
- The back-off between attempts: it only takes time.
- Fields of targets, rules, settings and alerts beyond those that some
  validation, migration or default treats in a way of its own.
- The coordinator without a runtime (nil callbacks), which only tests build.
- In `Lifecycle`, the pusher, which publishes no event; its Stop joins it before
  the supervisor's.

Not modelled at all:

- The push heartbeat's due time (`internal/health/push.go`): it acts on its own
  endpoint only.  That it is woken after a publication is in
  `ConfigCoordinator` (`WatchersInformed`).
- The log stream (`webui/api/logstream.go`, `sse.go`): replay and subscription
  are one critical section over a list kept for display.  That an event stream
  lets the server stop is in `Lifecycle`.
- Resource scan and zone listing (read-only), the command line, the pid file and
  log set-up (straight-line I/O), mail and webhook formatting (text), the
  frontend, build files and CI.
